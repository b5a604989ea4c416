---------------------------- MODULE BrowserProofs ----------------------------
(***************************************************************************)
(* For any number of pages, reads and messages: the page the user sees is  *)
(* the one the application would publish over, nothing it publishes meets  *)
(* a conflict, and a command acts on the content it was given for.         *)
(*                                                                         *)
(* The application, the host and the worker of a complete value each have  *)
(* a revision of the one buffer.  Between a commit of the worker and its   *)
(* completion two of them differ; Fits says what then holds of the page.   *)
(***************************************************************************)
EXTENDS Browser, FiniteSetTheorems, SequenceTheorems, WellFoundedInduction, TLAPS

-----------------------------------------------------------------------------
(* The operators.                                                          *)

LEMMA Turns ==
  /\ \A b \in Rows : Turned[b] \in Rows
  /\ \A b \in Documents : Turned[b] \in Documents
BY DEF Turned, Rows, Documents

\* The recursion of Chain has a solution on every prefix of its domain.
Climbs(g, f, p, m) ==
  g = [n \in 0 .. m |-> IF n = 0 THEN p
                        ELSE IF g[n - 1] \in DOMAIN f THEN f[g[n - 1]].parent ELSE NoPage]

LEMMA ClimbExists ==
  ASSUME NEW f, NEW p, NEW m \in Nat
  PROVE  \E g : Climbs(g, f, p, m)
<1> DEFINE bad == {k \in 0 .. m : ~ \E g : Climbs(g, f, p, k)}
           prefixes == {0 .. k : k \in bad}
<1>1. SUFFICES ASSUME bad # {} PROVE FALSE OBVIOUS
<1>2. IsWellFoundedOn(StrictSubsetOrdering(0 .. m), FiniteSubsetsOf(0 .. m))
  BY FS_StrictSubsetOrderingWellFounded
<1>3. IsFiniteSet(0 .. m) BY FS_Interval
<1>4. prefixes \subseteq FiniteSubsetsOf(0 .. m)
  BY <1>3, FS_FiniteSubsetsOfFinite
<1>5. prefixes # {} BY <1>1
<1>6. PICK T \in prefixes : \A U \in prefixes : <<U, T>> \notin StrictSubsetOrdering(0 .. m)
  <2> HIDE DEF prefixes
  <2> QED BY <1>2, <1>4, <1>5, WFMin
<1>7. PICK k \in bad : T = 0 .. k BY <1>6
<1>8. k \in 0 .. m /\ ~ \E g : Climbs(g, f, p, k) BY <1>7
<1>9. CASE k = 0
  <2> DEFINE g == [n \in 0 .. 0 |-> p]
  <2>1. Climbs(g, f, p, 0) BY DEF Climbs
  <2> QED BY <1>8, <1>9, <2>1
<1>10. CASE k # 0
  <2>1. k - 1 \in 0 .. m /\ 0 .. k - 1 \in SUBSET (0 .. m) /\ 0 .. k \in SUBSET (0 .. m)
    BY <1>8, <1>10
  <2>2. 0 .. k - 1 \subseteq 0 .. k /\ k \in 0 .. k /\ k \notin 0 .. k - 1 BY <1>8, <1>10
  <2>3. k - 1 \notin bad
    <3>1. SUFFICES ASSUME k - 1 \in bad PROVE FALSE OBVIOUS
    <3>2. 0 .. k - 1 \in prefixes BY <3>1
    <3>3. <<0 .. k - 1, 0 .. k>> \notin StrictSubsetOrdering(0 .. m) BY <1>6, <1>7, <3>2
    <3>4. 0 .. k - 1 # 0 .. k BY <2>2
    <3> QED BY <2>1, <2>2, <3>3, <3>4 DEF StrictSubsetOrdering
  <2>4. PICK h : Climbs(h, f, p, k - 1) BY <2>1, <2>3
  <2> DEFINE g == [n \in 0 .. k |-> IF n = 0 THEN p
                     ELSE IF h[n - 1] \in DOMAIN f THEN f[h[n - 1]].parent ELSE NoPage]
  <2>5. \A n \in 0 .. k - 1 : g[n] = h[n]
    <3>1. \A n \in 0 .. k - 1 : h[n] = IF n = 0 THEN p
                     ELSE IF h[n - 1] \in DOMAIN f THEN f[h[n - 1]].parent ELSE NoPage
      BY <2>4 DEF Climbs
    <3> QED BY <3>1, <2>2
  <2>6. \A n \in 0 .. k : n # 0 => n - 1 \in 0 .. k - 1 BY <1>8, <1>10
  <2>7. Climbs(g, f, p, k) BY <2>5, <2>6 DEF Climbs
  <2> QED BY <1>8, <2>7
<1> QED BY <1>9, <1>10

\* A page is in its chain, which has at most MaxPages pages.
LEMMA ChainBounds ==
  ASSUME NEW f, NEW p
  PROVE  /\ p \in Chain(f, p)
         /\ IsFiniteSet(Chain(f, p)) /\ Cardinality(Chain(f, p)) <= MaxPages
<1> DEFINE up == CHOOSE g : Climbs(g, f, p, MaxPages)
           S == {up[n] : n \in 0 .. MaxPages - 1}
<1>1. MaxPages \in Nat /\ MaxPages # 0 BY PageAssumption
<1>2. Climbs(up, f, p, MaxPages) BY <1>1, ClimbExists
<1>3. Chain(f, p) = S BY DEF Chain, Climbs
<1>4. up[0] = p
  <2>1. 0 \in 0 .. MaxPages BY <1>1
  <2> HIDE DEF up
  <2> QED BY <1>2, <2>1 DEF Climbs
<1>5. p \in S
  <2>1. 0 \in 0 .. MaxPages - 1 BY <1>1
  <2> HIDE DEF up
  <2> QED BY <1>4, <2>1
<1> HIDE DEF up
<1> DEFINE numbered == [n \in 0 .. MaxPages - 1 |-> up[n]]
<1>6. numbered \in Surjection(0 .. MaxPages - 1, S) BY DEF Surjection
<1>7. IsFiniteSet(0 .. MaxPages - 1) /\ Cardinality(0 .. MaxPages - 1) = MaxPages
  BY <1>1, FS_Interval
<1>8. IsFiniteSet(S) /\ Cardinality(S) <= MaxPages BY <1>6, <1>7, FS_Surjection
<1> QED BY <1>3, <1>5, <1>8

\* Pruning keeps the page it is done for, and at most MaxPages pages.
LEMMA PrunedPages ==
  ASSUME NEW f, NEW p \in DOMAIN f
  PROVE  /\ DOMAIN Pruned(f, p) \subseteq DOMAIN f /\ p \in DOMAIN Pruned(f, p)
         /\ \A q \in DOMAIN Pruned(f, p) : Pruned(f, p)[q] = f[q]
         /\ IsFiniteSet(DOMAIN Pruned(f, p)) /\ Cardinality(DOMAIN Pruned(f, p)) <= MaxPages
<1>1. DOMAIN Pruned(f, p) = DOMAIN f \cap Chain(f, p) BY DEF Pruned, Restrict
<1>2. \A q \in DOMAIN Pruned(f, p) : Pruned(f, p)[q] = f[q] BY DEF Pruned, Restrict
<1>3. DOMAIN f \cap Chain(f, p) \in SUBSET Chain(f, p) OBVIOUS
<1>4. /\ IsFiniteSet(DOMAIN f \cap Chain(f, p))
      /\ Cardinality(DOMAIN f \cap Chain(f, p)) <= Cardinality(Chain(f, p))
  BY <1>3, ChainBounds, FS_Subset
<1>5. Cardinality(DOMAIN f \cap Chain(f, p)) <= MaxPages
  <2>1. Cardinality(Chain(f, p)) \in Int /\ Cardinality(DOMAIN f \cap Chain(f, p)) \in Int
    BY <1>4, ChainBounds, FS_CardinalityType
  <2> QED BY <1>4, <2>1, ChainBounds, PageAssumption
<1> QED BY <1>1, <1>2, <1>4, <1>5, ChainBounds

-----------------------------------------------------------------------------
(* The inductive invariant.                                                *)

\* Pages as the application keeps them: finitely many, each with at most one
\* saved position.
IsView(x) == x \in View /\ (x.position = {} \/ \E q \in Position : x.position = {q})
PagesTyped(f) ==
  /\ DOMAIN f \subseteq Pages /\ IsFiniteSet(DOMAIN f)
  /\ \A p \in DOMAIN f : IsView(f[p])

Typed == TypeOK /\ PagesTyped(views) /\ IsFiniteSet(reads)

\* A complete value on its way: the worker has it, or its completion.
Working == worker.at # "stopped"
Fulls == {i \in DOMAIN done : done[i].kind = "full"}
Task(w) == [page |-> w.page, expected |-> w.expected, body |-> w.body, result |-> w.result]
Tasks == (IF Working THEN {Task(worker)} ELSE {}) \cup {Task(done[i]) : i \in Fulls}

\* One value at a time, and whoever has it has the job.
OneTask ==
  /\ Working => Fulls = {} /\ worker.page = job.page
  /\ \A i, j \in Fulls : i = j
  /\ \A i \in Fulls : done[i].page = job.page
  /\ job.page # NoPage <=> Working \/ Fulls # {}
\* Only a commit has a result.
Results ==
  /\ ~Working => worker = Stopped
  /\ Working => worker.view # NoView /\ (worker.at # "ended" => worker.result = Hidden)
  /\ \A i \in DOMAIN done : done[i].kind = "read" => done[i].result = Hidden

\* The page of a complete value, while it is kept, is the page of the buffer, at
\* the revision the value was asked for; the host shows the value once installed.
Fits(w) ==
  /\ w.page # NoPage /\ w.expected # Hidden /\ w.body \in Documents
  /\ w.page \in DOMAIN views =>
       /\ browser.page = w.page /\ browser.revision = w.expected
       /\ views[w.page].revision = w.expected
       /\ views[w.page].body \in Documents \cup {"loading"}
       /\ (Shared /\ w.result # Hidden =>
             host.page = w.page /\ host.revision = w.result /\ host.body = w.body)
AllFit == \A w \in Tasks : Fits(w)
Attached == Working /\ browser.view = worker.view => browser.page = worker.page

\* The buffer of the user is that of the application, or closed.
Buffer ==
  /\ host.view \in {NoView, browser.view}
  /\ host.view = NoView => host = Closed
  /\ browser.view = NoView => browser = NoBrowser /\ DOMAIN views = {}
  /\ browser.view # NoView => browser.page # NoPage
Messages == \A i \in DOMAIN inbox :
  IF inbox[i].kind = "invoke" THEN inbox[i].revision # Hidden ELSE inbox[i].view # host.view

\* No document has been installed that the application does not know of.
Settled(p) == \A w \in Tasks : w.page = p => w.result = Hidden
Mirrors ==
  /\ host.page = browser.page /\ host.revision = browser.revision
  /\ views[browser.page].body = host.body /\ views[browser.page].revision = host.revision
Mirrored ==
  Shared => /\ browser.page \in DOMAIN views /\ host.revision # Hidden
            /\ (Settled(browser.page) => Mirrors)

\* A database read is for a page with rows.
Reading(p) == p \in reads \/ \E i \in DOMAIN done : done[i].kind = "read" /\ done[i].page = p
RowReads == \A p \in DOMAIN views : Reading(p) => views[p].body \in Rows

\* A revision was given to one content of one page.
IsStamp(r, p, b) ==
  /\ r # Hidden
  /\ \/ p \in DOMAIN views /\ r = views[p].revision /\ b = views[p].body
     \/ p \in DOMAIN views /\ [revision |-> r, body |-> b] \in views[p].position
     \/ r = host.revision /\ p = host.page /\ b = host.body
     \/ \E w \in Tasks : r = w.result /\ p = w.page /\ b = w.body
     \/ \E i \in DOMAIN inbox : r = inbox[i].revision /\ p = inbox[i].page /\ b = inbox[i].body
Agree == \A r, p, q, b, c : IsStamp(r, p, b) /\ IsStamp(r, q, c) => p = q /\ b = c

\* A command that waits is about a page that is not shown, if it has made it.
Suspended ==
  IF app.at = "idle" THEN app = Idle
  ELSE app.page # NoPage /\ (app.created => app.page # browser.page)
Pruning == Cardinality(DOMAIN views \ (IF app.created THEN {app.page} ELSE {})) <= MaxPages
Loading == \A p \in DOMAIN views : views[p].body = "loading" => job.page = p \/ ~Shared

Inv ==
  /\ Typed /\ OneTask /\ Results /\ AllFit /\ Attached /\ Buffer /\ Messages /\ Mirrored
  /\ RowReads /\ Agree /\ Suspended /\ Pruning /\ Loading /\ NoConflict

-----------------------------------------------------------------------------
(* New names.                                                              *)

\* The ids of pages, and those of the host, are counted up and never used again.
Endless == ~IsFiniteSet(Pages) /\ ~IsFiniteSet(HostViews) /\ ~IsFiniteSet(Revisions)

Fresh == /\ NewPage \in Pages \ UsedPages
         /\ NewRevision \in Revisions \ UsedRevisions
         /\ NewView \in HostViews \ UsedViews

LEMMA ImageFinite ==
  ASSUME NEW f, IsFiniteSet(DOMAIN f)
  PROVE  IsFiniteSet({f[x] : x \in DOMAIN f})
<1> DEFINE g == [x \in DOMAIN f |-> f[x]]
<1>1. g \in Surjection(DOMAIN f, {f[x] : x \in DOMAIN f}) BY DEF Surjection
<1> QED BY <1>1, FS_Surjection

LEMMA FieldFinite ==
  ASSUME NEW f, IsFiniteSet(DOMAIN f), NEW k
  PROVE  IsFiniteSet({f[x][k] : x \in DOMAIN f})
<1> DEFINE g == [x \in DOMAIN f |-> f[x][k]]
<1>1. IsFiniteSet({g[x] : x \in DOMAIN g}) BY ImageFinite
<1> QED BY <1>1

\* Outside a finite set there is always another element.
LEMMA Another ==
  ASSUME NEW S, ~IsFiniteSet(S), NEW T, IsFiniteSet(T)
  PROVE  \E x \in S : x \notin T
<1>1. SUFFICES ASSUME S \subseteq T PROVE FALSE OBVIOUS
<1> QED BY <1>1, FS_Subset

LEMMA SequenceDomain ==
  ASSUME NEW S, NEW s \in Seq(S)
  PROVE  IsFiniteSet(DOMAIN s)
<1>1. DOMAIN s = 1 .. Len(s) /\ Len(s) \in Nat OBVIOUS
<1> QED BY <1>1, FS_Interval

LEMMA UsedFinite ==
  ASSUME Typed
  PROVE  IsFiniteSet(UsedPages) /\ IsFiniteSet(UsedRevisions) /\ IsFiniteSet(UsedViews)
<1>1. IsFiniteSet(DOMAIN views) /\ IsFiniteSet(reads) BY DEF Typed, PagesTyped
<1>2. IsFiniteSet(DOMAIN done) /\ IsFiniteSet(DOMAIN inbox)
  BY SequenceDomain DEF Typed, TypeOK
<1>3. IsFiniteSet({views[p].parent : p \in DOMAIN views}) BY <1>1, FieldFinite
<1>4. IsFiniteSet({views[p].revision : p \in DOMAIN views}) BY <1>1, FieldFinite
<1>5. IsFiniteSet({q.revision : q \in UNION {views[p].position : p \in DOMAIN views}})
  <2> DEFINE P == UNION {views[p].position : p \in DOMAIN views}
             h == [q \in P |-> q.revision]
  <2>1. IsFiniteSet({views[p].position : p \in DOMAIN views}) BY <1>1, FieldFinite
  <2>2. ASSUME NEW p \in DOMAIN views PROVE IsFiniteSet(views[p].position)
    <3>1. views[p].position = {} \/ \E q \in Position : views[p].position = {q}
      BY DEF Typed, PagesTyped, IsView
    <3> QED BY <3>1, FS_EmptySet, FS_Singleton
  <2>3. IsFiniteSet(P) BY <2>1, <2>2, FS_UNION
  <2>4. {h[x] : x \in DOMAIN h} = {q.revision : q \in P} OBVIOUS
  <2>5. IsFiniteSet(DOMAIN h) BY <2>3
  <2> QED BY <2>4, <2>5, ImageFinite
<1>6. IsFiniteSet({done[i].page : i \in DOMAIN done}) BY <1>2, FieldFinite
<1>7. IsFiniteSet({done[i].expected : i \in DOMAIN done}) BY <1>2, FieldFinite
<1>8. IsFiniteSet({done[i].result : i \in DOMAIN done}) BY <1>2, FieldFinite
<1>9. IsFiniteSet({inbox[i].page : i \in DOMAIN inbox}) BY <1>2, FieldFinite
<1>10. IsFiniteSet({inbox[i].revision : i \in DOMAIN inbox}) BY <1>2, FieldFinite
<1>11. IsFiniteSet({inbox[i].view : i \in DOMAIN inbox}) BY <1>2, FieldFinite
<1>12. \A a, b, c, d, e, g : IsFiniteSet({a, b, c, d, e, g})
  <2> TAKE a, b, c, d, e, g
  <2>1. IsFiniteSet({a}) /\ IsFiniteSet({a} \cup {b}) /\ IsFiniteSet({c} \cup {d})
        /\ IsFiniteSet({e} \cup {g})
    BY FS_Singleton, FS_Union
  <2>2. IsFiniteSet((({a} \cup {b}) \cup ({c} \cup {d})) \cup ({e} \cup {g}))
    BY <2>1, FS_Union
  <2>3. {a, b, c, d, e, g} = (({a} \cup {b}) \cup ({c} \cup {d})) \cup ({e} \cup {g}) OBVIOUS
  <2> QED BY <2>2, <2>3
<1>13. IsFiniteSet(UsedPages)
  <2>1. IsFiniteSet({job.page, worker.page, app.page, app.from, browser.page, host.page})
    BY <1>12
  <2> QED BY <1>1, <1>3, <1>6, <1>9, <2>1, FS_Union DEF UsedPages
<1>14. IsFiniteSet(UsedRevisions)
  <2>1. {host.revision, browser.revision, worker.expected, worker.result}
        = {host.revision, browser.revision, worker.expected, worker.result, worker.result,
           worker.result} OBVIOUS
  <2>2. IsFiniteSet({host.revision, browser.revision, worker.expected, worker.result})
    BY <1>12, <2>1
  <2> QED BY <1>4, <1>5, <1>7, <1>8, <1>10, <2>2, FS_Union DEF UsedRevisions
<1>15. IsFiniteSet(UsedViews)
  <2>1. {host.view, browser.view, worker.view}
        = {host.view, browser.view, worker.view, worker.view, worker.view, worker.view} OBVIOUS
  <2>2. IsFiniteSet({host.view, browser.view, worker.view}) BY <1>12, <2>1
  <2> QED BY <1>11, <2>2, FS_Union DEF UsedViews
<1> QED BY <1>13, <1>14, <1>15

LEMMA FreshNames ==
  ASSUME Endless, Typed
  PROVE  Fresh
<1>1. \E p \in Pages : p \notin UsedPages BY UsedFinite, Another DEF Endless
<1>2. \E r \in Revisions : r \notin UsedRevisions BY UsedFinite, Another DEF Endless
<1>3. \E v \in HostViews : v \notin UsedViews BY UsedFinite, Another DEF Endless
<1> QED BY <1>1, <1>2, <1>3 DEF Fresh, NewPage, NewRevision, NewView

\* What it means for a name to be new.
LEMMA FreshPage ==
  ASSUME Fresh
  PROVE  /\ NewPage \in Pages /\ NewPage # NoPage
         /\ NewPage \notin DOMAIN views /\ NewPage \notin reads
         /\ NewPage \notin {job.page, worker.page, app.page, browser.page, host.page}
         /\ \A i \in DOMAIN done : done[i].page # NewPage
         /\ \A w \in Tasks : w.page # NewPage
<1>1. NewPage \in Pages /\ NewPage \notin UsedPages BY DEF Fresh
<1>2. \A i \in DOMAIN done : done[i].page # NewPage BY <1>1 DEF UsedPages
<1>3. worker.page # NewPage BY <1>1 DEF UsedPages
<1>4. \A w \in Tasks : w.page # NewPage BY <1>2, <1>3 DEF Tasks, Task, Fulls
<1> QED BY <1>1, <1>2, <1>4, NothingAssumption DEF UsedPages

LEMMA FreshRevision ==
  ASSUME Fresh
  PROVE  /\ NewRevision \in Revisions /\ NewRevision # Hidden
         /\ \A p, b : ~IsStamp(NewRevision, p, b)
<1>1. NewRevision \in Revisions /\ NewRevision \notin UsedRevisions BY DEF Fresh
<1>2. NewRevision # Hidden BY <1>1, PageAssumption DEF Hidden
<1>3. \A w \in Tasks : w.result # NewRevision
  <2>1. worker.result # NewRevision BY <1>1 DEF UsedRevisions
  <2>2. \A i \in DOMAIN done : done[i].result # NewRevision BY <1>1 DEF UsedRevisions
  <2> QED BY <2>1, <2>2 DEF Tasks, Task, Fulls
<1>4. \A p \in DOMAIN views : views[p].revision # NewRevision BY <1>1 DEF UsedRevisions
<1>5. \A p \in DOMAIN views : \A q \in views[p].position : q.revision # NewRevision
  BY <1>1 DEF UsedRevisions
<1>6. host.revision # NewRevision BY <1>1 DEF UsedRevisions
<1>7. \A i \in DOMAIN inbox : inbox[i].revision # NewRevision BY <1>1 DEF UsedRevisions
<1>8. ASSUME NEW p, NEW b PROVE ~IsStamp(NewRevision, p, b)
  BY <1>3, <1>4, <1>5, <1>6, <1>7 DEF IsStamp
<1> QED BY <1>1, <1>2, <1>8

LEMMA FreshView ==
  ASSUME Fresh
  PROVE  /\ NewView \in HostViews /\ NewView # NoView
         /\ NewView # worker.view
         /\ \A i \in DOMAIN inbox : inbox[i].view # NewView
BY NothingAssumption DEF Fresh, UsedViews

-----------------------------------------------------------------------------
(* Sequences.                                                              *)

LEMMA AppendAt ==
  ASSUME NEW S, NEW s \in Seq(S), NEW e \in S
  PROVE  /\ DOMAIN Append(s, e) = DOMAIN s \cup {Len(s) + 1} /\ Len(s) + 1 \notin DOMAIN s
         /\ \A i \in DOMAIN s : Append(s, e)[i] = s[i]
         /\ Append(s, e)[Len(s) + 1] = e
OBVIOUS

LEMMA TailAt ==
  ASSUME NEW S, NEW s \in Seq(S), s # << >>
  PROVE  /\ 1 \in DOMAIN s /\ Head(s) = s[1] /\ Tail(s) \in Seq(S)
         /\ \A i \in DOMAIN Tail(s) : i + 1 \in DOMAIN s /\ i + 1 # 1 /\ Tail(s)[i] = s[i + 1]
         /\ \A j \in DOMAIN s : j # 1 => j - 1 \in DOMAIN Tail(s) /\ Tail(s)[j - 1] = s[j]
OBVIOUS

-----------------------------------------------------------------------------
(* The job, the worker and its completion.                                 *)

Steady == OneTask' /\ Results' /\ Tasks' = Tasks

LEMMA TaskStays ==
  ASSUME OneTask, Results, worker' = worker, done' = done, job'.page = job.page
  PROVE  Steady
<1>1. Fulls' = Fulls BY DEF Fulls
<1> QED BY <1>1 DEF Steady, OneTask, Results, Working, Tasks

LEMMA TaskWorks ==
  ASSUME OneTask, Results, Working, NEW at, at # "stopped",
         at # "ended" => worker.result = Hidden, TypeOK,
         worker' = [worker EXCEPT !.at = at], done' = done, job' = job
  PROVE  Steady
<1>1. Fulls' = Fulls BY DEF Fulls
<1>2. Task(worker') = Task(worker) BY DEF Task
<1>3. Working' BY DEF Working, TypeOK
<1>4. Tasks' = Tasks BY <1>1, <1>2, <1>3 DEF Tasks
<1>5. OneTask' BY <1>1, <1>3 DEF OneTask
<1>6. Results' BY <1>3 DEF Results
<1> QED BY <1>4, <1>5, <1>6 DEF Steady

LEMMA TaskBesideRead ==
  ASSUME OneTask, Results, done \in Seq(Done), NEW d \in Done, d.kind = "read",
         d.result = Hidden, worker' = worker, done' = Append(done, d), job' = job
  PROVE  Steady
<1>1. /\ DOMAIN done' = DOMAIN done \cup {Len(done) + 1}
      /\ \A i \in DOMAIN done : done'[i] = done[i]
      /\ done'[Len(done) + 1] = d
  BY AppendAt
<1>2. Fulls' = Fulls BY <1>1 DEF Fulls
<1>3. \A i \in Fulls : done'[i] = done[i] BY <1>1 DEF Fulls
<1>4. Tasks' = Tasks BY <1>2, <1>3 DEF Tasks, Working
<1>5. OneTask' BY <1>2, <1>3 DEF OneTask, Working
<1>6. Results' BY <1>1 DEF Results, Working
<1> QED BY <1>4, <1>5, <1>6 DEF Steady

LEMMA TaskAfterRead ==
  ASSUME OneTask, Results, done \in Seq(Done), done # << >>, Head(done).kind = "read",
         worker' = worker, done' = Tail(done), job'.page = job.page
  PROVE  Steady
<1>1. /\ 1 \in DOMAIN done /\ Head(done) = done[1]
      /\ \A i \in DOMAIN done' : i + 1 \in DOMAIN done /\ done'[i] = done[i + 1]
      /\ \A j \in DOMAIN done : j # 1 => j - 1 \in DOMAIN done' /\ done'[j - 1] = done[j]
  BY TailAt
<1>2. 1 \notin Fulls BY <1>1 DEF Fulls
<1>3. \A i \in Fulls' : i + 1 \in Fulls /\ done'[i] = done[i + 1] BY <1>1 DEF Fulls
<1>4. \A j \in Fulls : j - 1 \in Fulls' /\ done'[j - 1] = done[j] BY <1>1, <1>2 DEF Fulls
<1>5. Working' <=> Working BY DEF Working
<1>6. Tasks' = Tasks
  <2>1. ASSUME NEW w PROVE w \in Tasks' => w \in Tasks BY <1>3, <1>5 DEF Tasks
  <2>2. ASSUME NEW w PROVE w \in Tasks => w \in Tasks' BY <1>4, <1>5 DEF Tasks
  <2> QED BY <2>1, <2>2
<1>7. OneTask'
  <2>1. \A i \in Fulls' : i \in Int BY <1>1 DEF Fulls
  <2>2. \A i, j \in Fulls' : i = j BY <1>3, <2>1 DEF OneTask
  <2>3. Fulls = {} <=> Fulls' = {} BY <1>3, <1>4
  <2> QED BY <1>3, <1>5, <2>2, <2>3 DEF OneTask
<1>8. Results' BY <1>1, <1>5 DEF Results
<1> QED BY <1>6, <1>7, <1>8 DEF Steady

\* The worker hands its value over to the completion.
LEMMA TaskReported ==
  ASSUME OneTask, Results, done \in Seq(Done), Working, worker' = Stopped, job' = job,
         NEW d \in Done, d.kind = "full", Task(d) = Task(worker), done' = Append(done, d)
  PROVE  Steady
<1>1. /\ DOMAIN done' = DOMAIN done \cup {Len(done) + 1} /\ Len(done) + 1 \notin DOMAIN done
      /\ \A i \in DOMAIN done : done'[i] = done[i]
      /\ done'[Len(done) + 1] = d
  BY AppendAt
<1>2. Fulls = {} BY DEF OneTask
<1>3. Fulls' = {Len(done) + 1} BY <1>1, <1>2 DEF Fulls
<1>4. ~Working' BY DEF Working, Stopped
<1>5. Tasks = {Task(worker)} BY <1>2 DEF Tasks
<1>6. Tasks' = {Task(d)} BY <1>1, <1>3, <1>4 DEF Tasks
<1>7. d.page = worker.page BY DEF Task
<1>8. OneTask'
  <2>1. worker.page = job.page BY DEF OneTask
  <2>2. job.page # NoPage BY DEF OneTask
  <2> QED BY <1>1, <1>3, <1>4, <1>7, <2>1, <2>2 DEF OneTask
<1>9. Results' BY <1>1, <1>4 DEF Results
<1> QED BY <1>5, <1>6, <1>8, <1>9 DEF Steady

\* Its completion is the last of it.
LEMMA TaskEnds ==
  ASSUME OneTask, Results, done \in Seq(Done), done # << >>, Head(done).kind = "full",
         worker' = worker, done' = Tail(done), job' = NoJob
  PROVE  /\ OneTask' /\ Results' /\ Tasks = {Task(Head(done))} /\ Tasks' = {}
         /\ Head(done).page = job.page
<1>1. /\ 1 \in DOMAIN done /\ Head(done) = done[1]
      /\ \A i \in DOMAIN done' : i + 1 \in DOMAIN done /\ i + 1 # 1 /\ done'[i] = done[i + 1]
  BY TailAt
<1>2. Fulls = {1} BY <1>1 DEF OneTask, Fulls
<1>3. ~Working BY <1>2 DEF OneTask
<1>4. ~Working' BY <1>3 DEF Working
<1>5. Fulls' = {} BY <1>1, <1>2 DEF Fulls
<1>6. Tasks = {Task(done[1])} BY <1>2, <1>3 DEF Tasks
<1>7. Tasks' = {} BY <1>4, <1>5 DEF Tasks
<1>8. OneTask' BY <1>4, <1>5 DEF OneTask, NoJob
<1>9. Results' BY <1>1, <1>3, <1>4 DEF Results
<1>10. done[1].page = job.page BY <1>2 DEF OneTask
<1> QED BY <1>1, <1>6, <1>7, <1>8, <1>9, <1>10

LEMMA NoTask ==
  ASSUME OneTask, job.page = NoPage
  PROVE  Tasks = {} /\ Fulls = {} /\ ~Working
BY DEF OneTask, Tasks

\* The job and its worker begin together.
LEMMA TaskBegins ==
  ASSUME OneTask, Results, Free, NEW p \in Pages, NEW revision, NEW body, Begin(p, revision, body),
         browser'.view # NoView, done' = done
  PROVE  /\ OneTask' /\ Results' /\ Working' /\ Tasks' = {Task(worker')}
         /\ worker'.page = p /\ worker'.expected = revision /\ worker'.body = body
         /\ worker'.result = Hidden /\ worker'.view = browser'.view /\ job'.page = p
<1>1. Fulls' = {} BY NoTask DEF Fulls, Free
<1>2. worker' = [at |-> "reading", page |-> p, view |-> browser'.view, expected |-> revision,
                 body |-> body, result |-> Hidden]
      /\ job'.page = p
  BY DEF Begin
<1>3. Working' BY <1>2 DEF Working
<1>4. OneTask' BY <1>1, <1>2, <1>3, NothingAssumption DEF OneTask
<1>5. Results' BY <1>2, <1>3 DEF Results
<1>6. Tasks' = {Task(worker')} BY <1>1, <1>3 DEF Tasks
<1> QED BY <1>2, <1>3, <1>4, <1>5, <1>6

-----------------------------------------------------------------------------
(* Pages that are shown.                                                   *)

LEMMA TaskPage ==
  ASSUME OneTask
  PROVE  \A w \in Tasks : w.page = job.page /\ job.page # NoPage
BY DEF OneTask, Tasks, Task

\* The pages f a command goes on with: those kept, and the one it makes.
Grown(f, p, created) ==
  /\ PagesTyped(f)
  /\ \A q \in DOMAIN views : q \in DOMAIN f /\ f[q] = views[q]
  /\ IF created /\ app.at = "idle"
     THEN /\ p = NewPage /\ DOMAIN f = DOMAIN views \cup {p}
          /\ f[p].revision = Hidden /\ f[p].position = {}
     ELSE DOMAIN f = DOMAIN views
  /\ app.at # "idle" => p = app.page /\ created = app.created
  /\ created => p # browser.page

Stamped(f) == \A q \in DOMAIN f : \A x \in f[q].position : IsStamp(x.revision, q, x.body)

Shows(f, p) ==
  /\ p \in DOMAIN f /\ p \in DOMAIN views' /\ DOMAIN views' \subseteq DOMAIN f
  /\ \A q \in DOMAIN views' :
       /\ views'[q].body = f[q].body
       /\ views'[q].revision = IF q = p THEN NewRevision ELSE f[q].revision
  /\ browser' = [view |-> browser'.view, revision |-> NewRevision, page |-> p]
  /\ host' = [view |-> browser'.view, revision |-> NewRevision, page |-> p, body |-> f[p].body]
  /\ \/ browser.view = NoView /\ browser'.view = NewView
     \/ Shared /\ browser'.view = browser.view
Stays(f, p, created) ==
  /\ host' = host /\ browser' = browser
  /\ DOMAIN views' = DOMAIN f \ (IF created THEN {p} ELSE {})
  /\ \A q \in DOMAIN views' : views'[q].body = f[q].body /\ views'[q].revision = f[q].revision
  /\ browser.view = NoView => p \notin DOMAIN f
Forgets ==
  /\ host' = host /\ browser' = NoBrowser /\ browser.view = NoView /\ DOMAIN views' = {}

Presents(f, p, created) ==
  /\ Shows(f, p) \/ Forgets \/ Stays(f, p, created)
  /\ PagesTyped(views') /\ Stamped(views')
  /\ created /\ p \in DOMAIN views' => Cardinality(DOMAIN views') <= MaxPages
  /\ refused' = refused

\* At most the job is cancelled.
JobStays ==
  job' \in JobType /\ job'.page = job.page

LEMMA SettledPage ==
  ASSUME OneTask, job.page = NoPage \/ job.page # browser.page
  PROVE  Settled(browser.page)
BY TaskPage DEF Settled

LEMMA CapturedPages ==
  ASSUME Inv, NEW f, NEW p, NEW created, Grown(f, p, created), Settled(browser.page), NEW from
  PROVE  /\ DOMAIN Captured(f, from) = DOMAIN f /\ PagesTyped(Captured(f, from))
         /\ Stamped(Captured(f, from))
         /\ \A q \in DOMAIN f : /\ Captured(f, from)[q].body = f[q].body
                                /\ Captured(f, from)[q].revision = f[q].revision
<1> DEFINE taken == [revision |-> f[from].revision, body |-> host.body]
           here == from = browser.page /\ from \in DOMAIN f /\ Shared
           g == [f EXCEPT ![from].position = {taken}]
<1>1. PagesTyped(f) BY DEF Grown
<1>2. Stamped(f)
  <2>1. SUFFICES ASSUME NEW q \in DOMAIN f, NEW x \in f[q].position
                 PROVE  IsStamp(x.revision, q, x.body)
    BY DEF Stamped
  <2>2. q \in DOMAIN views /\ f[q] = views[q] BY <2>1 DEF Grown
  <2>3. x \in Position BY <1>1, <2>1 DEF PagesTyped, IsView
  <2>4. x = [revision |-> x.revision, body |-> x.body] /\ x.revision # Hidden
    BY <2>3, PageAssumption DEF Position, Hidden
  <2> QED BY <2>1, <2>2, <2>4 DEF IsStamp
<1>3. CASE ~here
  BY <1>1, <1>2, <1>3 DEF Captured
<1>4. CASE here
  <2>1. Captured(f, from) = g BY <1>4 DEF Captured
  <2>2. from \in DOMAIN views /\ Mirrors /\ host.revision # Hidden
    BY <1>4 DEF Inv, Mirrored
  <2>3. f[from] = views[from] BY <2>2 DEF Grown
  <2>4. f[from].revision = host.revision /\ host.page = from
    BY <1>4, <2>2, <2>3 DEF Mirrors
  <2>5. IsStamp(taken.revision, from, taken.body) BY <2>2, <2>4 DEF IsStamp
  <2>6. taken \in Position
    BY <2>2, <2>4 DEF Inv, Typed, TypeOK, Position, HostType
  <2>7. f[from] \in View BY <1>1, <1>4 DEF PagesTyped, IsView
  <2>8. g[from] = [f[from] EXCEPT !.position = {taken}] BY <1>4
  <2>9. g[from] \in View /\ g[from].position = {taken} /\ g[from].body = f[from].body
        /\ g[from].revision = f[from].revision
    <3> HIDE DEF taken, g
    <3> QED BY <2>6, <2>7, <2>8 DEF View
  <2>10. DOMAIN g = DOMAIN f /\ \A q \in DOMAIN f : q # from => g[q] = f[q] OBVIOUS
  <2> HIDE DEF taken, g
  <2>11. \A q \in DOMAIN g : IsView(g[q])
    <3> SUFFICES ASSUME NEW q \in DOMAIN g PROVE IsView(g[q]) OBVIOUS
    <3>1. CASE q = from BY <2>6, <2>9, <3>1 DEF IsView
    <3>2. CASE q # from BY <1>1, <2>10, <3>2 DEF PagesTyped
    <3> QED BY <3>1, <3>2
  <2>12. PagesTyped(g) BY <1>1, <2>10, <2>11 DEF PagesTyped
  <2>13. Stamped(g)
    <3> SUFFICES ASSUME NEW q \in DOMAIN g, NEW x \in g[q].position
                 PROVE  IsStamp(x.revision, q, x.body)
      BY DEF Stamped
    <3>1. CASE q = from BY <2>5, <2>9, <3>1
    <3>2. CASE q # from BY <1>2, <2>10, <3>2 DEF Stamped
    <3> QED BY <3>1, <3>2
  <2>14. \A q \in DOMAIN f : g[q].body = f[q].body /\ g[q].revision = f[q].revision
    BY <2>9, <2>10
  <2> QED BY <2>1, <2>10, <2>12, <2>13, <2>14
<1> QED BY <1>3, <1>4

\* The page that is shown gets the new revision.
Revised(g, p) == [g EXCEPT ![p].revision = NewRevision]

LEMMA RevisedPages ==
  ASSUME NEW g, PagesTyped(g), Stamped(g), NEW p \in DOMAIN g, NewRevision \in Revisions
  PROVE  /\ DOMAIN Revised(g, p) = DOMAIN g /\ PagesTyped(Revised(g, p)) /\ Stamped(Revised(g, p))
         /\ \A q \in DOMAIN g :
              /\ Revised(g, p)[q].body = g[q].body
              /\ Revised(g, p)[q].revision = IF q = p THEN NewRevision ELSE g[q].revision
<1> DEFINE h == Revised(g, p)
<1>1. DOMAIN h = DOMAIN g /\ \A q \in DOMAIN g : q # p => h[q] = g[q] BY DEF Revised
<1>2. h[p] = [g[p] EXCEPT !.revision = NewRevision] BY DEF Revised
<1>3. g[p] \in View BY DEF PagesTyped, IsView
<1> HIDE DEF h
<1>4. h[p] \in View /\ h[p].position = g[p].position /\ h[p].body = g[p].body
      /\ h[p].revision = NewRevision
  BY <1>2, <1>3 DEF View
<1>5. PagesTyped(h) BY <1>1, <1>4 DEF PagesTyped, IsView
<1>6. Stamped(h) BY <1>1, <1>4 DEF Stamped
<1>7. \A q \in DOMAIN g : /\ h[q].body = g[q].body
                          /\ h[q].revision = IF q = p THEN NewRevision ELSE g[q].revision
  BY <1>1, <1>4
<1> QED BY <1>1, <1>5, <1>6, <1>7 DEF h

LEMMA ViewSmall ==
  ASSUME NEW x, IsView(x)
  PROVE  x \in View /\ Cardinality(x.position) <= 1
<1>1. CASE x.position = {} BY <1>1, FS_EmptySet DEF IsView
<1>2. CASE x.position # {}
  <2>1. PICK q : x.position = {q} BY <1>2 DEF IsView
  <2>2. Cardinality({q}) = 1 BY FS_Singleton
  <2> QED BY <2>1, <2>2 DEF IsView
<1> QED BY <1>1, <1>2

\* Fewer pages are still pages.
LEMMA Fewer ==
  ASSUME NEW g, PagesTyped(g), Stamped(g), NEW h, DOMAIN h \subseteq DOMAIN g,
         \A q \in DOMAIN h : h[q] = g[q]
  PROVE  PagesTyped(h) /\ Stamped(h)
<1>1. IsFiniteSet(DOMAIN h) BY FS_Subset DEF PagesTyped
<1> QED BY <1>1 DEF PagesTyped, Stamped

\* Cancelling the job leaves it to its page.
LEMMA JobKept ==
  ASSUME TypeOK, NEW b \in BOOLEAN, job' = [job EXCEPT !.cancelled = b]
  PROVE  JobStays
BY DEF TypeOK, JobStays, JobType

LEMMA CancelledKept ==
  ASSUME TypeOK, NEW f, Cancelled(f)
  PROVE  JobStays
<1> DEFINE b == job.cancelled \/ (job.page # NoPage /\ job.page \notin DOMAIN f)
<1>1. job.cancelled \in BOOLEAN BY DEF TypeOK, JobType
<1>2. b \in BOOLEAN BY <1>1, Zenon
<1>3. job' = [job EXCEPT !.cancelled = b] BY DEF Cancelled
<1> QED BY <1>2, <1>3, JobKept

LEMMA Unrefused ==
  ASSUME refused \in BOOLEAN, NoConflict, NEW c, ~c, refused' = (refused \/ c)
  PROVE  refused' = refused
<1>1. refused = FALSE BY Zenon DEF NoConflict
<1>2. (refused \/ c) = FALSE BY <1>1, Zenon
<1> QED BY <1>1, <1>2

LEMMA PresentShows ==
  ASSUME Inv, Fresh, NEW f, NEW p, NEW created \in BOOLEAN, Grown(f, p, created),
         job.page = NoPage \/ job.page # browser.page, NEW from, Present(f, p, created, from)
  PROVE  Presents(f, p, created) /\ JobStays
<1> DEFINE g == Captured(f, from)
           shown == IF p \in DOMAIN g THEN [g EXCEPT ![p].revision = NewRevision] ELSE g
           failed == IF created THEN Remove(g, p) ELSE g
<1>1. TypeOK /\ OneTask /\ NoConflict /\ Buffer BY DEF Inv, Typed
<1>2. Settled(browser.page) BY <1>1, SettledPage
<1>3. /\ DOMAIN g = DOMAIN f /\ PagesTyped(g) /\ Stamped(g)
      /\ \A q \in DOMAIN f : g[q].body = f[q].body /\ g[q].revision = f[q].revision
  BY <1>2, CapturedPages
<1>4. NewRevision \in Revisions BY FreshRevision
<1>5. ASSUME p \in DOMAIN g, views' = IF created THEN Pruned(shown, p) ELSE shown
      PROVE  /\ p \in DOMAIN views' /\ DOMAIN views' \subseteq DOMAIN f
             /\ PagesTyped(views') /\ Stamped(views')
             /\ \A q \in DOMAIN views' :
                  /\ views'[q].body = f[q].body
                  /\ views'[q].revision = IF q = p THEN NewRevision ELSE f[q].revision
             /\ created => Cardinality(DOMAIN views') <= MaxPages
  <2>1. shown = Revised(g, p) BY <1>5 DEF Revised
  <2> HIDE DEF g, shown
  <2>2. /\ DOMAIN shown = DOMAIN g /\ PagesTyped(shown) /\ Stamped(shown)
        /\ \A q \in DOMAIN shown :
             /\ shown[q].body = g[q].body
             /\ shown[q].revision = IF q = p THEN NewRevision ELSE g[q].revision
    BY <1>3, <1>4, <1>5, <2>1, RevisedPages
  <2>3. CASE created
    <3>1. p \in DOMAIN shown BY <1>5, <2>2
    <3>2. /\ DOMAIN views' \subseteq DOMAIN shown /\ p \in DOMAIN views'
          /\ \A q \in DOMAIN views' : views'[q] = shown[q]
          /\ Cardinality(DOMAIN views') <= MaxPages
      BY <1>5, <2>3, <3>1, PrunedPages
    <3>3. PagesTyped(views') /\ Stamped(views') BY <2>2, <3>2, Fewer
    <3> QED BY <1>3, <2>2, <3>2, <3>3
  <2>4. CASE ~created BY <1>3, <1>5, <2>2, <2>4
  <2> QED BY <2>3, <2>4
<1>6. /\ DOMAIN failed = DOMAIN f \ (IF created THEN {p} ELSE {})
      /\ \A q \in DOMAIN failed : failed[q] = g[q]
      /\ PagesTyped(failed) /\ Stamped(failed)
  <2> HIDE DEF g
  <2>1. DOMAIN failed = DOMAIN f \ (IF created THEN {p} ELSE {})
    BY <1>3 DEF Remove, Restrict
  <2>2. \A q \in DOMAIN failed : failed[q] = g[q] BY <1>3 DEF Remove, Restrict
  <2> HIDE DEF failed
  <2>3. DOMAIN failed \subseteq DOMAIN g BY <1>3, <2>1
  <2> QED BY <1>3, <2>1, <2>2, <2>3, Fewer
<1>7. host \in HostType
      /\ browser \in BrowserType
  BY <1>1 DEF TypeOK
<1>8. CASE /\ p \in DOMAIN g /\ browser.view = NoView
           /\ host' = [view |-> NewView, revision |-> NewRevision, page |-> p, body |-> g[p].body]
           /\ browser' = [view |-> NewView, revision |-> NewRevision, page |-> p]
           /\ views' = IF created THEN Pruned(shown, p) ELSE shown
           /\ Cancelled(views')
           /\ UNCHANGED refused
  <2>1. Shows(f, p)
    <3> HIDE DEF g, shown
    <3> QED BY <1>3, <1>5, <1>8 DEF Shows
  <2>2. JobStays BY <1>1, <1>8, CancelledKept
  <2> HIDE DEF g, shown
  <2> QED BY <1>5, <1>8, <2>1, <2>2 DEF Presents
<1>9. CASE p \in DOMAIN g /\ browser.view = NoView /\ Forget /\ UNCHANGED <<host, refused>>
  <2>1. Forgets /\ DOMAIN views' = {} BY <1>9 DEF Forgets, Forget
  <2>2. job' = [job EXCEPT !.cancelled = (job.page # NoPage)] BY <1>9 DEF Forget
  <2>3. (job.page # NoPage) \in BOOLEAN OBVIOUS
  <2>4. JobStays BY <1>1, <2>2, <2>3, JobKept
  <2>5. PagesTyped(views') /\ Stamped(views') BY <2>1, FS_EmptySet DEF PagesTyped, Stamped
  <2> QED BY <1>9, <2>1, <2>4, <2>5 DEF Presents
<1>10. CASE /\ p \in DOMAIN g /\ Shared /\ host.revision = browser.revision
            /\ host' = [host EXCEPT !.revision = NewRevision, !.page = p, !.body = g[p].body]
            /\ browser' = [browser EXCEPT !.revision = NewRevision, !.page = p]
            /\ views' = IF created THEN Pruned(shown, p) ELSE shown
            /\ Cancelled(views')
            /\ UNCHANGED refused
  <2>1. Shows(f, p)
    <3> HIDE DEF g, shown
    <3>1. browser' = [view |-> browser.view, revision |-> NewRevision, page |-> p]
      BY <1>7, <1>10 DEF BrowserType
    <3>2. host' = [view |-> browser.view, revision |-> NewRevision, page |-> p,
                   body |-> f[p].body]
      BY <1>3, <1>7, <1>10 DEF Shared, HostType
    <3> QED BY <1>3, <1>5, <1>10, <3>1, <3>2 DEF Shows
  <2>2. JobStays BY <1>1, <1>10, CancelledKept
  <2> HIDE DEF g, shown
  <2> QED BY <1>5, <1>10, <2>1, <2>2 DEF Presents
<1>11. CASE /\ browser.view # NoView \/ p \notin DOMAIN g
            /\ views' = failed
            /\ refused' = (refused \/ (Shared /\ host.revision # browser.revision))
            /\ UNCHANGED <<host, browser, job>>
  <2>1. Shared => host.revision = browser.revision BY <1>2 DEF Inv, Mirrored, Mirrors
  <2>2. refused' = refused
    <3>1. refused \in BOOLEAN BY <1>1 DEF TypeOK
    <3> QED BY <1>1, <1>11, <2>1, <3>1, Unrefused
  <2> HIDE DEF g, failed
  <2>3. Stays(f, p, created) BY <1>3, <1>6, <1>11 DEF Stays
  <2>4. created => p \notin DOMAIN views' BY <1>6, <1>11
  <2>5. JobStays BY <1>1, <1>11 DEF TypeOK, JobStays
  <2> QED BY <1>6, <1>11, <2>2, <2>3, <2>4, <2>5 DEF Presents
<1> QED BY <1>8, <1>9, <1>10, <1>11 DEF Present

\* Messages are only taken.
Taken == /\ inbox' \in Seq(Message) /\ inputs' \in 0 .. MaxInputs
         /\ \A i \in DOMAIN inbox' : \E j \in DOMAIN inbox : inbox'[i] = inbox[j]

\* The pages of a complete value under way are not among those of a command that
\* shows another page.
LEMMA TaskElsewhere ==
  ASSUME Inv, Fresh, NEW f, NEW p, NEW created, Grown(f, p, created),
         job.page = NoPage \/ job.page # browser.page
  PROVE  \A w \in Tasks : w.page \notin DOMAIN f
<1> SUFFICES ASSUME NEW w \in Tasks PROVE w.page \notin DOMAIN f OBVIOUS
<1>1. w.page = job.page /\ job.page # browser.page BY TaskPage DEF Inv
<1>2. w.page \notin DOMAIN views BY <1>1 DEF Inv, AllFit, Fits
<1>3. w.page # NewPage BY FreshPage
<1> QED BY <1>2, <1>3 DEF Grown

\* A page is shown, whatever becomes of the complete value.
LEMMA PresentsRest ==
  ASSUME Inv, Fresh, NEW f, NEW p, NEW created \in BOOLEAN, Grown(f, p, created),
         job.page = NoPage \/ job.page # browser.page, Presents(f, p, created),
         job' \in JobType,
         worker' \in WorkerType,
         UNCHANGED <<reads, done>>, app' = Idle, Taken,
         OneTask', Results', \A w \in Tasks' : w.result = Hidden \/ w \in Tasks,
         AllFit', Attached', Loading'
  PROVE  Inv'
<1>1. TypeOK /\ OneTask /\ NoConflict BY DEF Inv, Typed
<1>2. DOMAIN views' \subseteq DOMAIN f
  BY DEF Presents, Shows, Forgets, Stays
<1>3. PagesTyped(f) /\ DOMAIN f \subseteq Pages BY DEF Grown, PagesTyped
<1>4. NewRevision \in Revisions /\ NewRevision # Hidden /\ NewView \in HostViews
      /\ NewView # NoView
  BY FreshRevision, FreshView
<1>5. Settled(browser.page) BY <1>1, SettledPage
<1>6. Shows(f, p) => browser'.view \in HostViews
  BY <1>1, <1>4 DEF Shows, Shared, TypeOK, BrowserType
<1>7. Typed'
  <2>1. Forgets \/ Stays(f, p, created) => /\ host' = host /\ browser' \in {browser, NoBrowser}
    BY DEF Forgets, Stays
  <2>2. host' \in HostType
    <3>1. Shows(f, p) => f[p].body \in Bodies /\ p \in Pages
      BY <1>3 DEF Shows, PagesTyped, IsView, View
    <3>2. CASE Shows(f, p) BY <1>4, <1>6, <3>1, <3>2 DEF Shows, HostType
    <3>3. CASE ~Shows(f, p) BY <1>1, <2>1, <3>3 DEF Presents, TypeOK
    <3> QED BY <3>2, <3>3
  <2>3. browser' \in BrowserType
    <3>1. CASE Shows(f, p) BY <1>3, <1>4, <1>6, <3>1 DEF Shows, BrowserType
    <3>2. CASE ~Shows(f, p) BY <1>1, <2>1, <3>2 DEF Presents, TypeOK, NoBrowser, BrowserType
    <3> QED BY <3>1, <3>2
  <2>4. \A q \in DOMAIN views' : views'[q] \in View /\ Cardinality(views'[q].position) <= 1
    BY ViewSmall DEF Presents, PagesTyped
  <2>5. app' \in AppType
    BY DEF Idle, AppType
  <2>6. TypeOK'
    BY <1>1, <1>2, <1>3, <2>2, <2>3, <2>4, <2>5 DEF TypeOK, Presents, Taken
  <2> QED BY <2>6 DEF Typed, Presents, Inv
<1>8. Buffer'
  <2>1. CASE Shows(f, p)
    <3>1. host'.view = browser'.view /\ browser'.view # NoView /\ browser'.page # NoPage
      BY <1>3, <1>6, <2>1, NothingAssumption DEF Shows
    <3> QED BY <3>1 DEF Buffer
  <2>2. CASE Forgets
    BY <2>2 DEF Inv, Buffer, Forgets, NoBrowser
  <2>3. CASE Stays(f, p, created)
    <3>1. browser.view = NoView => p \notin DOMAIN f BY <2>3 DEF Stays
    <3>2. p \notin DOMAIN f => DOMAIN f = DOMAIN views BY DEF Grown
    <3> QED BY <2>3, <3>1, <3>2 DEF Inv, Buffer, Stays
  <2> QED BY <2>1, <2>2, <2>3 DEF Presents
<1>9. Messages'
  <2>1. host'.view \in {host.view, NewView}
    BY DEF Presents, Shows, Stays, Forgets, Shared
  <2> QED BY <2>1, FreshView DEF Inv, Messages, Taken
<1>10. Mirrored'
  <2>1. CASE Shows(f, p)
    BY <1>4, <2>1 DEF Mirrored, Mirrors, Shows
  <2>2. CASE Forgets BY <2>2 DEF Mirrored, Shared, Forgets, NoBrowser
  <2>3. CASE Stays(f, p, created)
    <3>1. created => p # browser.page BY DEF Grown
    <3>2. Shared' => Shared BY <2>3 DEF Shared, Stays
    <3>3. Shared => browser.page \in DOMAIN views /\ host.revision # Hidden /\ Mirrors
      BY <1>5 DEF Inv, Mirrored
    <3>4. browser.page \in DOMAIN views =>
            browser.page \in DOMAIN views' /\ f[browser.page] = views[browser.page]
      BY <2>3, <3>1 DEF Grown, Stays
    <3> QED BY <2>3, <3>2, <3>3, <3>4 DEF Mirrored, Mirrors, Stays
  <2> QED BY <2>1, <2>2, <2>3 DEF Presents
<1>11. \A q \in DOMAIN views' : views'[q].body = f[q].body
  BY DEF Presents, Shows, Stays, Forgets
<1>12. \A q \in DOMAIN f : IF q \in DOMAIN views THEN f[q] = views[q]
                          ELSE /\ q = p /\ p = NewPage /\ created /\ app.at = "idle"
                               /\ f[p].revision = Hidden
  BY DEF Grown
<1>13. RowReads'
  <2>1. \A q : Reading(q)' <=> Reading(q) BY DEF Reading
  <2>2. ~Reading(NewPage) BY FreshPage DEF Reading
  <2> QED BY <1>2, <1>11, <1>12, <2>1, <2>2 DEF Inv, RowReads
<1>14. Agree'
  <2>1. ASSUME NEW r, NEW q, NEW b, IsStamp(r, q, b)'
        PROVE  IsStamp(r, q, b) \/ (r = NewRevision /\ q = p /\ b = f[p].body)
    <3>1. r # Hidden BY <2>1 DEF IsStamp
    <3>2. CASE q \in DOMAIN views' /\ r = views'[q].revision /\ b = views'[q].body
      <4>1. r = f[q].revision \/ (r = NewRevision /\ q = p)
        BY <3>2 DEF Presents, Shows, Stays, Forgets
      <4>2. q \in DOMAIN f /\ b = f[q].body BY <1>2, <1>11, <3>2
      <4> QED BY <1>12, <3>1, <4>1, <4>2 DEF IsStamp
    <3>3. CASE q \in DOMAIN views' /\ [revision |-> r, body |-> b] \in views'[q].position
      <4>1. \A x \in views'[q].position : IsStamp(x.revision, q, x.body)
        BY <3>3 DEF Presents, Stamped
      <4>2. IsStamp([revision |-> r, body |-> b].revision, q, [revision |-> r, body |-> b].body)
        BY <3>3, <4>1
      <4> QED BY <4>2
    <3>4. CASE r = host'.revision /\ q = host'.page /\ b = host'.body
      BY <3>1, <3>4 DEF Presents, Shows, Stays, Forgets, IsStamp
    <3>5. CASE \E w \in Tasks' : r = w.result /\ q = w.page /\ b = w.body
      BY <3>1, <3>5 DEF IsStamp
    <3>6. CASE \E i \in DOMAIN inbox' :
                 r = inbox'[i].revision /\ q = inbox'[i].page /\ b = inbox'[i].body
      BY <3>1, <3>6 DEF IsStamp, Taken
    <3> QED BY <2>1, <3>2, <3>3, <3>4, <3>5, <3>6 DEF IsStamp
  <2>2. \A q, b : ~IsStamp(NewRevision, q, b) BY FreshRevision
  <2>3. Agree BY DEF Inv
  <2> QED BY <2>1, <2>2, <2>3 DEF Agree
<1>15. Suspended' BY DEF Suspended, Idle
<1>16. Pruning'
  <2>1. app'.created = FALSE BY DEF Idle
  <2>2. SUFFICES Cardinality(DOMAIN views') <= MaxPages
    <3>1. DOMAIN views' \ {} = DOMAIN views' OBVIOUS
    <3> QED BY <2>1, <2>2, <3>1 DEF Pruning
  <2>3. CASE created /\ p \in DOMAIN views' BY <2>3 DEF Presents
  <2>4. CASE ~(created /\ p \in DOMAIN views')
    <3> DEFINE others == DOMAIN views \ (IF app.created THEN {app.page} ELSE {})
    <3>1. DOMAIN views' \subseteq others
      <4>1. app.at = "idle" => app.created = FALSE /\ NewPage \notin DOMAIN views
        BY FreshPage DEF Inv, Suspended, Idle
      <4>2. app.at # "idle" => p = app.page /\ created = app.created /\ DOMAIN f = DOMAIN views
        BY DEF Grown
      <4>3. CASE app.at # "idle"
        BY <1>2, <2>4, <4>2, <4>3
      <4>4. CASE app.at = "idle"
        <5>1. \A q \in DOMAIN views' : q \in DOMAIN views BY <1>2, <1>12, <2>4
        <5> QED BY <4>1, <4>4, <5>1
      <4> QED BY <4>3, <4>4
    <3>2. IsFiniteSet(others) /\ Cardinality(others) <= MaxPages
      <4>1. IsFiniteSet(DOMAIN views) BY DEF Inv, Typed, PagesTyped
      <4>2. others \in SUBSET DOMAIN views OBVIOUS
      <4>3. IsFiniteSet(others) BY <4>1, <4>2, FS_Subset
      <4> QED BY <4>3 DEF Inv, Pruning
    <3> HIDE DEF others
    <3>3. Cardinality(DOMAIN views') <= Cardinality(others) /\ IsFiniteSet(DOMAIN views')
      BY <3>1, <3>2, FS_Subset
    <3>4. Cardinality(DOMAIN views') \in Int /\ Cardinality(others) \in Int
      BY <3>2, <3>3, FS_CardinalityType
    <3> QED BY <3>2, <3>3, <3>4, PageAssumption
  <2> QED BY <2>3, <2>4
<1>17. NoConflict' BY <1>1 DEF NoConflict, Presents
<1> QED BY <1>7, <1>8, <1>9, <1>10, <1>13, <1>14, <1>15, <1>16, <1>17 DEF Inv

LEMMA PresentsKeeps ==
  ASSUME Inv, Fresh, NEW f, NEW p, NEW created \in BOOLEAN, Grown(f, p, created),
         created /\ app.at = "idle" => f[p].body # "loading",
         job.page = NoPage \/ job.page # browser.page, Presents(f, p, created), JobStays,
         UNCHANGED <<worker, reads, done>>, app' = Idle, Taken
  PROVE  Inv'
<1>1. TypeOK /\ OneTask /\ Results BY DEF Inv, Typed
<1>2. OneTask' /\ Results' /\ Tasks' = Tasks BY <1>1, TaskStays DEF JobStays, Steady
<1>3. \A w \in Tasks : w.page \notin DOMAIN f BY TaskElsewhere
<1>4. DOMAIN views' \subseteq DOMAIN f BY DEF Presents, Shows, Forgets, Stays
<1>5. AllFit'
  BY <1>2, <1>3, <1>4 DEF Inv, AllFit, Fits
<1>6. Attached'
  <2>1. Working => worker.page = job.page /\ job.page # browser.page /\ worker.view # NoView
    BY <1>1 DEF OneTask, Results
  <2>2. Working' <=> Working BY DEF Working
  <2>3. NewView # worker.view BY FreshView
  <2> QED BY <2>1, <2>2, <2>3 DEF Inv, Attached, Presents, Shows, Stays, Forgets, NoBrowser
<1>7. \A q \in DOMAIN views' : views'[q].body = f[q].body
  BY DEF Presents, Shows, Stays, Forgets
<1>8. \A q \in DOMAIN f : IF q \in DOMAIN views THEN f[q] = views[q]
                         ELSE q = p /\ created /\ app.at = "idle"
  BY DEF Grown
<1>9. Loading'
  <2>1. SUFFICES ASSUME NEW q \in DOMAIN views', views'[q].body = "loading", Shared'
                 PROVE  job'.page = q
    BY DEF Loading
  <2>2. f[q].body = "loading" /\ q \in DOMAIN f BY <1>4, <1>7, <2>1
  <2>3. q \in DOMAIN views /\ views[q].body = "loading" BY <1>8, <2>2
  <2>4. browser.view # NoView BY <2>3 DEF Inv, Buffer
  <2>5. Shared BY <2>1, <2>4 DEF Presents, Shows, Stays, Forgets, Shared
  <2>6. job.page = q BY <2>3, <2>5 DEF Inv, Loading
  <2> QED BY <2>6 DEF JobStays
<1> QED BY <1>1, <1>2, <1>5, <1>6, <1>9, PresentsRest DEF JobStays, TypeOK

\* The job of the page that is left is cancelled, and the command waits for its end.
LEMMA WaitsKeeps ==
  ASSUME Inv, Fresh, app.at = "idle", NEW f, NEW p \in DOMAIN f, NEW created \in BOOLEAN,
         Grown(f, p, created), created => f[p].body # "loading",
         NEW from \in Pages \cup {NoPage}, browser.page # NoPage,
         job' = [job EXCEPT !.cancelled = TRUE], views' = f,
         app' = [at |-> "drain", page |-> p, created |-> created, from |-> from],
         UNCHANGED <<host, browser, refused, worker, reads, done>>, Taken
  PROVE  Inv'
<1>1. TypeOK /\ OneTask /\ Results /\ NoConflict BY DEF Inv, Typed
<1>2. JobStays BY <1>1, JobKept
<1>3. OneTask' /\ Results' /\ Tasks' = Tasks BY <1>1, <1>2, TaskStays DEF Steady, JobStays
<1>4. PagesTyped(f) /\ DOMAIN f \subseteq Pages BY DEF Grown, PagesTyped
<1>5. \A q \in DOMAIN f : IF q \in DOMAIN views THEN f[q] = views[q]
                          ELSE /\ q = p /\ p = NewPage /\ created
                               /\ f[p].revision = Hidden /\ f[p].position = {}
  BY DEF Grown
<1>6. \A q \in DOMAIN views : q \in DOMAIN f BY DEF Grown
<1>7. Shared' <=> Shared BY DEF Shared
<1>8. Typed'
  <2>1. \A q \in DOMAIN views' : views'[q] \in View /\ Cardinality(views'[q].position) <= 1
    BY <1>4, ViewSmall DEF PagesTyped
  <2>2. app' \in AppType
    BY <1>4 DEF AppType
  <2>3. TypeOK' BY <1>1, <1>2, <1>4, <2>1, <2>2 DEF TypeOK, Taken, JobStays
  <2> QED BY <1>4, <2>3 DEF Typed, Inv
<1>9. AllFit'
  <2>1. \A w \in Tasks : w.page # NewPage BY FreshPage
  <2> QED BY <1>3, <1>5, <1>7, <2>1 DEF Inv, AllFit, Fits
<1>10. Attached' BY DEF Inv, Attached, Working
<1>11. Buffer'
  <2>1. browser.view # NoView BY DEF Inv, Buffer, NoBrowser
  <2> QED BY <2>1 DEF Inv, Buffer
<1>12. Messages' BY DEF Inv, Messages, Taken
<1>13. Mirrored'
  <2>1. Shared => browser.page \in DOMAIN views /\ f[browser.page] = views[browser.page]
    BY DEF Inv, Mirrored, Grown
  <2>2. Settled(browser.page)' <=> Settled(browser.page) BY <1>3 DEF Settled
  <2> QED BY <1>6, <1>7, <2>1, <2>2 DEF Inv, Mirrored, Mirrors
<1>14. RowReads'
  <2>1. \A q : Reading(q)' <=> Reading(q) BY DEF Reading
  <2>2. ~Reading(NewPage) BY FreshPage DEF Reading
  <2> QED BY <1>5, <2>1, <2>2 DEF Inv, RowReads
<1>15. Agree'
  <2>1. ASSUME NEW r, NEW q, NEW b, IsStamp(r, q, b)' PROVE IsStamp(r, q, b)
    BY <1>3, <1>5, <2>1 DEF IsStamp, Taken
  <2>2. Agree BY DEF Inv
  <2> QED BY <2>1, <2>2 DEF Agree
<1>16. Suspended' BY <1>4, NothingAssumption DEF Suspended, Grown
<1>17. Pruning'
  <2>1. app.created = FALSE BY DEF Inv, Suspended, Idle
  <2>2. DOMAIN views \ {} = DOMAIN views OBVIOUS
  <2>3. Cardinality(DOMAIN views) <= MaxPages BY <2>1, <2>2 DEF Inv, Pruning
  <2>4. DOMAIN views' \ (IF app'.created THEN {app'.page} ELSE {}) = DOMAIN views
    <3>1. CASE created
      <4>1. DOMAIN f = DOMAIN views \cup {NewPage} /\ p = NewPage BY <3>1 DEF Grown
      <4>2. NewPage \notin DOMAIN views BY FreshPage
      <4> QED BY <3>1, <4>1, <4>2
    <3>2. CASE ~created
      <4>1. DOMAIN f = DOMAIN views BY <3>2 DEF Grown
      <4> QED BY <3>2, <4>1
    <3> QED BY <3>1, <3>2
  <2> QED BY <2>3, <2>4 DEF Pruning
<1>18. Loading' BY <1>2, <1>5, <1>7 DEF Inv, Loading, JobStays
<1>19. NoConflict' BY <1>1 DEF NoConflict
<1> QED BY <1>3, <1>8, <1>9, <1>10, <1>11, <1>12, <1>13, <1>14, <1>15, <1>16, <1>17, <1>18,
           <1>19 DEF Inv

LEMMA ShowKeeps ==
  ASSUME Inv, Fresh, app.at = "idle", NEW f, NEW p \in DOMAIN f, NEW created \in BOOLEAN,
         Grown(f, p, created), created => f[p].body # "loading",
         NEW from \in Pages \cup {NoPage}, Show(f, p, created, from),
         UNCHANGED <<worker, reads, done>>, Taken
  PROVE  Inv'
<1>1. CASE /\ job.page # NoPage /\ job.page = browser.page
           /\ job' = [job EXCEPT !.cancelled = TRUE]
           /\ views' = f
           /\ app' = [at |-> "drain", page |-> p, created |-> created, from |-> from]
           /\ UNCHANGED <<host, browser, refused>>
  BY <1>1, WaitsKeeps
<1>2. CASE /\ job.page = NoPage \/ job.page # browser.page
           /\ app' = Idle
           /\ Present(f, p, created, from)
  <2>1. Presents(f, p, created) /\ JobStays BY <1>2, PresentShows
  <2> QED BY <1>2, <2>1, PresentsKeeps
<1> QED BY <1>1, <1>2 DEF Show

LEMMA SameGrown ==
  ASSUME Inv, app.at = "idle", NEW p
  PROVE  Grown(views, p, FALSE)
BY DEF Inv, Typed, Grown

LEMMA NewGrown ==
  ASSUME Inv, Fresh, app.at = "idle", NEW body \in Bodies, NEW parent \in Pages \cup {NoPage}
  PROVE  LET f == Add(views, NewPage, Page(body, parent)) IN
         Grown(f, NewPage, TRUE) /\ NewPage \in DOMAIN f /\ f[NewPage].body = body
<1> DEFINE f == Add(views, NewPage, Page(body, parent))
<1>1. /\ DOMAIN f = DOMAIN views \cup {NewPage} /\ f[NewPage] = Page(body, parent)
      /\ \A q \in DOMAIN views : q # NewPage => f[q] = views[q]
  BY DEF Add
<1>2. /\ NewPage \in Pages /\ NewPage \notin DOMAIN views /\ NewPage # browser.page
  BY FreshPage
<1>3. IsFiniteSet(DOMAIN f) BY <1>1, FS_AddElement DEF Inv, Typed, PagesTyped
<1>4. IsView(Page(body, parent)) BY DEF IsView, Page, View
<1> HIDE DEF f
<1>5. PagesTyped(f) BY <1>1, <1>2, <1>3, <1>4 DEF Inv, Typed, PagesTyped
<1>6. f[NewPage].revision = Hidden /\ f[NewPage].position = {} /\ f[NewPage].body = body
  BY <1>1 DEF Page
<1>7. Grown(f, NewPage, TRUE) BY <1>1, <1>2, <1>5, <1>6 DEF Grown
<1> QED BY <1>1, <1>6, <1>7 DEF f

LEMMA CreateKeeps ==
  ASSUME Inv, Fresh, app.at = "idle", NEW body \in Bodies \ {"loading"},
         NEW parent \in Pages \cup {NoPage}, Create(body, parent),
         UNCHANGED <<worker, reads, done>>, Taken
  PROVE  Inv'
<1> DEFINE f == Add(views, NewPage, Page(body, parent))
<1>1. Grown(f, NewPage, TRUE) /\ NewPage \in DOMAIN f /\ f[NewPage].body = body BY NewGrown
<1>2. Show(f, NewPage, TRUE, parent) BY DEF Create
<1> HIDE DEF f
<1> QED BY <1>1, <1>2, ShowKeeps

LEMMA BackKeeps ==
  ASSUME Inv, Fresh, app.at = "idle", NEW p, NEW from \in Pages \cup {NoPage}, Back(p, from),
         UNCHANGED <<worker, reads, done>>, Taken
  PROVE  Inv'
<1>1. CASE p \in DOMAIN views
  BY <1>1, SameGrown, ShowKeeps DEF Back
<1>2. CASE p \notin DOMAIN views
  BY <1>2, CreateKeeps DEF Back, Bodies, Plain, Rows
<1> QED BY <1>1, <1>2

LEMMA ResumeKeeps ==
  ASSUME Inv, Fresh, Resume
  PROVE  Inv'
<1>1. Taken BY DEF Taken, Resume, Inv, Typed, TypeOK
<1>2. app.page # NoPage /\ app.created \in BOOLEAN /\ (app.created => app.page # browser.page)
  BY DEF Inv, Suspended, Typed, TypeOK, Resume, AppType
<1>3. Grown(views, app.page, app.created) BY <1>2 DEF Resume, Inv, Typed, Grown
<1>4. Presents(views, app.page, app.created) /\ JobStays BY <1>2, <1>3, PresentShows DEF Resume
<1> QED BY <1>1, <1>2, <1>3, <1>4, PresentsKeeps DEF Resume

LEMMA InvocationTakes ==
  ASSUME Inv, NEW m, Invocation(m)
  PROVE  Taken /\ app.at = "idle"
<1>1. inbox \in Seq(Message) /\ inputs \in 0 .. MaxInputs BY DEF Inv, Typed, TypeOK
<1>2. inbox # << >> /\ inbox' = Tail(inbox) /\ inputs' = inputs /\ app.at = "idle"
  BY DEF Invocation
<1>3. /\ inbox' \in Seq(Message)
      /\ \A i \in DOMAIN inbox' : i + 1 \in DOMAIN inbox /\ inbox'[i] = inbox[i + 1]
  BY <1>1, <1>2, TailAt
<1> QED BY <1>1, <1>2, <1>3 DEF Taken

LEMMA DescendKeeps ==
  ASSUME Inv, Fresh, NEW m, Descend(m)
  PROVE  Inv'
<1>1. Taken /\ app.at = "idle" BY InvocationTakes DEF Descend
<1>2. browser.page \in Pages \cup {NoPage} BY DEF Inv, Typed, TypeOK, BrowserType
<1>3. {"rows0", "value"} \subseteq Bodies \ {"loading"} BY DEF Bodies, Plain, Rows
<1> QED BY <1>1, <1>2, <1>3, CreateKeeps DEF Descend

LEMMA AscendKeeps ==
  ASSUME Inv, Fresh, NEW m, Ascend(m)
  PROVE  Inv'
<1>1. Taken /\ app.at = "idle" BY InvocationTakes DEF Ascend
<1>2. browser.page \in Pages \cup {NoPage} BY DEF Inv, Typed, TypeOK, BrowserType
<1> QED BY <1>1, <1>2, BackKeeps DEF Ascend

LEMMA ElsewhereKeeps ==
  ASSUME Inv, Fresh, Elsewhere
  PROVE  Inv'
<1>1. app.at = "idle" /\ UNCHANGED <<worker, reads, done>> BY DEF Elsewhere
<1>2. Taken BY BoundAssumption DEF Elsewhere, Taken, Inv, Typed, TypeOK
<1>3. DOMAIN views \subseteq Pages BY DEF Inv, Typed, PagesTyped
<1>4. "rows0" \in Bodies \ {"loading"} BY DEF Bodies, Plain, Rows
<1> QED BY <1>1, <1>2, <1>3, <1>4, BackKeeps, CreateKeeps DEF Elsewhere

-----------------------------------------------------------------------------
(* Pages that change where they are.                                       *)

LEMMA PruningStays ==
  ASSUME Inv, DOMAIN views' \subseteq DOMAIN views, app' = app
  PROVE  Pruning'
<1> DEFINE made == IF app.created THEN {app.page} ELSE {}
<1>1. IsFiniteSet(DOMAIN views \ made) /\ Cardinality(DOMAIN views \ made) <= MaxPages
  <2>1. DOMAIN views \ made \in SUBSET DOMAIN views OBVIOUS
  <2>2. IsFiniteSet(DOMAIN views) BY DEF Inv, Typed, PagesTyped
  <2>3. IsFiniteSet(DOMAIN views \ made) BY <2>1, <2>2, FS_Subset
  <2> QED BY <2>3 DEF Inv, Pruning
<1>2. DOMAIN views' \ made \in SUBSET (DOMAIN views \ made) OBVIOUS
<1> HIDE DEF made
<1>3. /\ IsFiniteSet(DOMAIN views' \ made)
      /\ Cardinality(DOMAIN views' \ made) <= Cardinality(DOMAIN views \ made)
  BY <1>1, <1>2, FS_Subset
<1>4. Cardinality(DOMAIN views' \ made) \in Int /\ Cardinality(DOMAIN views \ made) \in Int
  BY <1>1, <1>3, FS_CardinalityType
<1>5. Cardinality(DOMAIN views' \ made) <= MaxPages BY <1>1, <1>3, <1>4, PageAssumption
<1> QED BY <1>5 DEF Pruning, made

\* What publish does with the pages of S, to the bodies b.
Publishes(S, b) ==
  /\ DOMAIN views' = DOMAIN views \ {q \in S : q = browser.page /\ ~Shared}
  /\ \A q \in DOMAIN views' :
       IF q \in S
       THEN views'[q] = [views[q] EXCEPT !.body = b[q],
                           !.revision = IF q = browser.page THEN NewRevision ELSE Hidden]
       ELSE views'[q] = views[q]
  /\ IF browser.page \in S /\ Shared
     THEN /\ host' = [host EXCEPT !.revision = NewRevision, !.body = b[browser.page]]
          /\ browser' = [browser EXCEPT !.revision = NewRevision]
     ELSE host' = host /\ browser' = browser
  /\ refused' = refused

LEMMA PublishPublishes ==
  ASSUME Inv, NEW S \in SUBSET DOMAIN views, NEW b, browser.page \in S => Settled(browser.page),
         Publish(S, b)
  PROVE  Publishes(S, b)
<1>1. browser.page \in S /\ Shared => host.revision = browser.revision
  BY DEF Inv, Mirrored, Mirrors
<1>2. refused' = refused
  <2>1. ~(browser.page \in S /\ Shared /\ host.revision # browser.revision) BY <1>1
  <2>2. refused \in BOOLEAN /\ NoConflict BY DEF Inv, Typed, TypeOK
  <2> QED BY <2>1, <2>2, Unrefused DEF Publish
<1>3. browser.page \in S => browser.view # NoView BY DEF Inv, Buffer
<1>4. {q \in S : q = browser.page /\ host.view # browser.view}
      = {q \in S : q = browser.page /\ ~Shared}
  BY <1>3 DEF Shared
<1>5. views' = Published(S, b) BY DEF Publish
<1>6. DOMAIN views' = DOMAIN views \ {q \in S : q = browser.page /\ ~Shared}
  BY <1>4, <1>5 DEF Published
<1>7. \A q \in DOMAIN views' :
        IF q \in S
        THEN views'[q] = [views[q] EXCEPT !.body = b[q],
                            !.revision = IF q = browser.page THEN NewRevision ELSE Hidden]
        ELSE views'[q] = views[q]
  BY <1>5 DEF Published
<1>8. IF browser.page \in S /\ Shared
      THEN /\ host' = [host EXCEPT !.revision = NewRevision, !.body = b[browser.page]]
           /\ browser' = [browser EXCEPT !.revision = NewRevision]
      ELSE host' = host /\ browser' = browser
  BY <1>1 DEF Publish
<1> QED BY <1>2, <1>6, <1>7, <1>8 DEF Publishes

\* A step that leaves the buffer and its pages as they are.
Quiet == UNCHANGED <<host, browser, views, refused>>

LEMMA QuietPublishes ==
  ASSUME Quiet, NEW b
  PROVE  Publishes({}, b)
BY DEF Quiet, Publishes

\* What such steps do with the complete value and the channels: values are not
\* installed and not dropped once they are, messages show what the host has shown.
Beside ==
  /\ OneTask' /\ Results' /\ Tasks' \subseteq Tasks
  /\ \A w \in Tasks \ Tasks' : w.result = Hidden
  /\ Working' => Working /\ worker'.view = worker.view /\ worker'.page = worker.page
  /\ \A i \in DOMAIN inbox' : inbox'[i].revision # Hidden =>
       IsStamp(inbox'[i].revision, inbox'[i].page, inbox'[i].body)
  /\ app' = app
BesideTyped ==
  /\ job' \in JobType
  /\ worker' \in WorkerType
  /\ reads' \subseteq Pages /\ IsFiniteSet(reads')
  /\ done' \in Seq(Done) /\ inbox' \in Seq(Message)
  /\ inputs' \in 0 .. MaxInputs

\* The buffer stays where it is, and pages outside S as they are.
LEMMA PublishesPages ==
  ASSUME Inv, Fresh, NEW S \in SUBSET DOMAIN views, NEW b, \A q \in S : b[q] \in Bodies,
         Publishes(S, b)
  PROVE  /\ host' \in HostType
         /\ browser' \in BrowserType
         /\ host'.view = host.view /\ host'.page = host.page /\ browser'.view = browser.view
         /\ browser'.page = browser.page
         /\ browser.page \in S /\ Shared =>
              /\ host'.revision = NewRevision /\ host'.body = b[browser.page]
              /\ browser'.revision = NewRevision
         /\ Shared' <=> Shared
         /\ DOMAIN views' \subseteq DOMAIN views
         /\ \A q \in DOMAIN views' :
              /\ IF q \in S
                 THEN /\ views'[q].body = b[q]
                      /\ views'[q].revision = IF q = browser.page THEN NewRevision ELSE Hidden
                 ELSE views'[q] = views[q]
              /\ views'[q].position = views[q].position
              /\ IsView(views'[q])
<1>1. TypeOK /\ PagesTyped(views) BY DEF Inv, Typed
<1>2. NewRevision \in Revisions BY FreshRevision
<1>3. /\ host' \in HostType
      /\ browser' \in BrowserType
      /\ host'.view = host.view /\ host'.page = host.page /\ browser'.view = browser.view
      /\ browser'.page = browser.page
      /\ browser.page \in S /\ Shared =>
           /\ host'.revision = NewRevision /\ host'.body = b[browser.page]
           /\ browser'.revision = NewRevision
  <2>1. /\ host \in HostType
        /\ browser \in BrowserType
    BY <1>1 DEF TypeOK
  <2>2. CASE browser.page \in S /\ Shared
    <3> DEFINE c == b[browser.page]
    <3>1. c \in Bodies BY <2>2
    <3>2. /\ host' = [host EXCEPT !.revision = NewRevision, !.body = c]
          /\ browser' = [browser EXCEPT !.revision = NewRevision]
      BY <2>2, Zenon DEF Publishes
    <3> HIDE DEF c
    <3>3. /\ host' \in HostType
          /\ host'.view = host.view /\ host'.page = host.page
          /\ host'.revision = NewRevision /\ host'.body = c
      BY <1>2, <2>1, <3>1, <3>2 DEF HostType
    <3>4. /\ browser' \in BrowserType
          /\ browser'.view = browser.view /\ browser'.page = browser.page
          /\ browser'.revision = NewRevision
      BY <1>2, <2>1, <3>2 DEF BrowserType
    <3> QED BY <3>3, <3>4 DEF c
  <2>3. CASE ~(browser.page \in S /\ Shared) BY <2>1, <2>3 DEF Publishes
  <2> QED BY <2>2, <2>3
<1>4. Shared' <=> Shared BY <1>3 DEF Shared
<1>5. DOMAIN views' \subseteq DOMAIN views BY DEF Publishes
<1>6. ASSUME NEW q \in DOMAIN views'
      PROVE  /\ IF q \in S
                THEN /\ views'[q].body = b[q]
                     /\ views'[q].revision = IF q = browser.page THEN NewRevision ELSE Hidden
                ELSE views'[q] = views[q]
             /\ views'[q].position = views[q].position
             /\ IsView(views'[q])
  <2>1. views[q] \in View /\ IsView(views[q]) BY <1>1, <1>5, <1>6 DEF PagesTyped, IsView
  <2>2. CASE q \in S
    <3> DEFINE r == IF q = browser.page THEN NewRevision ELSE Hidden
    <3>1. views'[q] = [views[q] EXCEPT !.body = b[q], !.revision = r] BY <1>6, <2>2 DEF Publishes
    <3>2. b[q] \in Bodies /\ r \in Revisions \cup {Hidden} BY <1>2, <2>2
    <3> HIDE DEF r
    <3>3. /\ views'[q] \in View /\ views'[q].body = b[q] /\ views'[q].revision = r
          /\ views'[q].position = views[q].position
      BY <2>1, <3>1, <3>2 DEF View
    <3>4. IsView(views'[q]) BY <2>1, <3>3 DEF IsView
    <3> QED BY <2>2, <3>3, <3>4 DEF r
  <2>3. CASE q \notin S BY <1>6, <2>1, <2>3 DEF Publishes
  <2> QED BY <2>2, <2>3
<1> QED BY <1>3, <1>4, <1>5, <1>6

LEMMA PublishesKeeps ==
  ASSUME Inv, Fresh, NEW S \in SUBSET DOMAIN views, NEW b,
         \A q \in S : b[q] \in Bodies, browser.page \in S => Settled(browser.page),
         Publishes(S, b), Beside, BesideTyped, \A w \in Tasks' : w.page \notin S,
         Messages', RowReads', Loading'
  PROVE  Inv'
<1>1. TypeOK /\ NoConflict /\ PagesTyped(views) BY DEF Inv, Typed
<1>2. NewRevision \in Revisions /\ NewRevision # Hidden BY FreshRevision
<1>3. /\ host' \in HostType
      /\ browser' \in BrowserType
      /\ host'.view = host.view /\ host'.page = host.page /\ browser'.view = browser.view
      /\ browser'.page = browser.page
      /\ browser.page \in S /\ Shared =>
           /\ host'.revision = NewRevision /\ host'.body = b[browser.page]
           /\ browser'.revision = NewRevision
  BY PublishesPages
<1>4. Shared' <=> Shared BY PublishesPages
<1>5. DOMAIN views' \subseteq DOMAIN views BY PublishesPages
<1>6. ASSUME NEW q \in DOMAIN views'
      PROVE  /\ IF q \in S
                THEN /\ views'[q].body = b[q]
                     /\ views'[q].revision = IF q = browser.page THEN NewRevision ELSE Hidden
                ELSE views'[q].body = views[q].body /\ views'[q].revision = views[q].revision
             /\ views'[q].position = views[q].position
             /\ IsView(views'[q])
  BY <1>6, PublishesPages
<1>7. PagesTyped(views')
  <2>1. IsFiniteSet(DOMAIN views') BY <1>1, <1>5, FS_Subset DEF PagesTyped
  <2> QED BY <1>1, <1>5, <1>6, <2>1 DEF PagesTyped
<1>8. Typed'
  <2>1. \A q \in DOMAIN views' : views'[q] \in View /\ Cardinality(views'[q].position) <= 1
    BY <1>6, ViewSmall
  <2>2. DOMAIN views' \subseteq Pages BY <1>7 DEF PagesTyped
  <2>3. refused' \in BOOLEAN /\ app' \in AppType
    BY <1>1 DEF Publishes, TypeOK, Beside
  <2>4. TypeOK' BY <1>3, <2>1, <2>2, <2>3 DEF TypeOK, BesideTyped
  <2> QED BY <1>7, <2>4 DEF Typed, BesideTyped
<1>9. AllFit'
  <2>1. SUFFICES ASSUME NEW w \in Tasks' PROVE Fits(w)' BY DEF AllFit
  <2>2. w \in Tasks /\ w.page \notin S BY DEF Beside
  <2>3. Fits(w) BY <2>2 DEF Inv, AllFit
  <2>4. w.page \in DOMAIN views' => host' = host /\ browser' = browser
    BY <1>5, <2>2, <2>3 DEF Fits, Publishes
  <2> QED BY <1>4, <1>5, <1>6, <2>2, <2>3, <2>4 DEF Fits
<1>10. Attached' BY <1>3 DEF Inv, Attached, Beside
<1>11. Buffer'
  <2>1. host.view = NoView => host' = host BY DEF Publishes, Shared
  <2>2. browser.view = NoView => browser' = browser BY DEF Publishes, Shared
  <2> QED BY <1>3, <1>5, <2>1, <2>2 DEF Inv, Buffer
<1>12. Mirrored'
  <2>1. SUFFICES ASSUME Shared
                 PROVE  /\ browser.page \in DOMAIN views' /\ host'.revision # Hidden
                        /\ (Settled(browser.page)' => Mirrors')
    BY <1>3, <1>4 DEF Mirrored, Settled
  <2>2. browser.page \in DOMAIN views /\ host.revision # Hidden
        /\ (Settled(browser.page) => Mirrors)
    BY <2>1 DEF Inv, Mirrored
  <2>3. browser.page \in DOMAIN views' BY <2>1, <2>2 DEF Publishes
  <2>4. CASE browser.page \in S
    <3>1. Mirrors BY <2>2, <2>4
    <3>2. host'.revision = NewRevision /\ host'.body = b[browser.page]
          /\ browser'.revision = NewRevision
      BY <1>3, <2>1, <2>4
    <3> QED BY <1>2, <1>3, <1>6, <2>3, <2>4, <3>1, <3>2 DEF Mirrors
  <2>5. CASE browser.page \notin S
    <3>1. Settled(browser.page)' => Settled(browser.page)
      BY <1>3 DEF Settled, Beside
    <3>2. host' = host /\ browser' = browser BY <2>5 DEF Publishes
    <3> QED BY <1>6, <2>2, <2>3, <2>5, <3>1, <3>2 DEF Mirrors
  <2> QED BY <2>4, <2>5
<1>13. Agree'
  <2>1. ASSUME NEW r, NEW q, NEW c, IsStamp(r, q, c)'
        PROVE  IsStamp(r, q, c) \/ (r = NewRevision /\ q = browser.page /\ c = b[browser.page])
    <3>1. r # Hidden BY <2>1 DEF IsStamp
    <3>2. CASE q \in DOMAIN views' /\ r = views'[q].revision /\ c = views'[q].body
      BY <1>5, <1>6, <3>1, <3>2 DEF IsStamp
    <3>3. CASE q \in DOMAIN views' /\ [revision |-> r, body |-> c] \in views'[q].position
      BY <1>5, <1>6, <3>1, <3>3 DEF IsStamp
    <3>4. CASE r = host'.revision /\ q = host'.page /\ c = host'.body
      <4>1. CASE browser.page \in S /\ Shared
        <5>1. host.page = browser.page BY <4>1 DEF Inv, Mirrored, Mirrors
        <5>2. host'.revision = NewRevision /\ host'.body = b[browser.page]
          BY <1>3, <4>1
        <5> QED BY <1>3, <3>4, <5>1, <5>2
      <4>2. CASE ~(browser.page \in S /\ Shared)
        BY <3>1, <3>4, <4>2 DEF Publishes, IsStamp
      <4> QED BY <4>1, <4>2
    <3>5. CASE \E w \in Tasks' : r = w.result /\ q = w.page /\ c = w.body
      BY <3>1, <3>5 DEF IsStamp, Beside
    <3>6. CASE \E i \in DOMAIN inbox' :
                 r = inbox'[i].revision /\ q = inbox'[i].page /\ c = inbox'[i].body
      BY <3>1, <3>6 DEF Beside
    <3> QED BY <2>1, <3>2, <3>3, <3>4, <3>5, <3>6 DEF IsStamp
  <2>2. \A q, c : ~IsStamp(NewRevision, q, c) BY FreshRevision
  <2>3. Agree BY DEF Inv
  <2> QED BY <2>1, <2>2, <2>3 DEF Agree
<1>14. Suspended' BY <1>3 DEF Inv, Suspended, Beside
<1>15. Pruning' BY <1>5, PruningStays DEF Beside
<1>16. NoConflict' BY <1>1 DEF NoConflict, Publishes
<1> QED BY <1>8, <1>9, <1>10, <1>11, <1>12, <1>13, <1>14, <1>15, <1>16 DEF Inv, Beside

-----------------------------------------------------------------------------
(* Steps that leave the buffer and its pages as they are.                  *)

LEMMA NotTaken ==
  ASSUME Inv, inbox' = inbox, inputs' = inputs
  PROVE  Taken
BY DEF Inv, Typed, TypeOK, Taken

LEMMA TakenMessages ==
  ASSUME Inv, Taken
  PROVE  /\ host'.view = host.view => Messages'
         /\ \A i \in DOMAIN inbox' : inbox'[i].revision # Hidden =>
              IsStamp(inbox'[i].revision, inbox'[i].page, inbox'[i].body)
<1>1. host'.view = host.view => Messages' BY DEF Inv, Messages, Taken
<1>2. ASSUME NEW i \in DOMAIN inbox', inbox'[i].revision # Hidden
      PROVE  IsStamp(inbox'[i].revision, inbox'[i].page, inbox'[i].body)
  BY <1>2 DEF Taken, IsStamp
<1> QED BY <1>1, <1>2

LEMMA QuietKeeps ==
  ASSUME Inv, Fresh, Quiet, Beside, BesideTyped, Messages', Loading',
         \A p \in DOMAIN views : Reading(p)' => Reading(p) \/ views[p].body \in Rows
  PROVE  Inv'
<1>1. RowReads' BY DEF Inv, RowReads, Quiet
<1> DEFINE b == << >>
<1>2. Publishes({}, b) BY QuietPublishes
<1>3. {} \in SUBSET DOMAIN views /\ (\A q \in {} : b[q] \in Bodies) /\ browser.page \notin {}
      /\ \A w \in Tasks' : w.page \notin {}
  OBVIOUS
<1> HIDE DEF b
<1> QED BY <1>1, <1>2, <1>3, PublishesKeeps

LEMMA QuietLoading ==
  ASSUME Inv, Quiet, job'.page = job.page
  PROVE  Loading'
BY DEF Inv, Loading, Quiet, Shared

\* The application takes a message, or starts a read, or cancels the job.
LEMMA CommandQuiet ==
  ASSUME Inv, Fresh, Quiet, Taken, UNCHANGED <<worker, done, app>>,
         reads' \subseteq Pages, IsFiniteSet(reads'),
         \A p \in DOMAIN views : p \in reads' => p \in reads \/ views[p].body \in Rows,
         JobStays
  PROVE  Inv'
<1>1. OneTask /\ Results /\ TypeOK BY DEF Inv, Typed
<1>2. Steady BY <1>1, TaskStays DEF JobStays
<1>3. Beside BY <1>2, TakenMessages DEF Steady, Beside, Working
<1>4. BesideTyped BY <1>1 DEF TypeOK, BesideTyped, Taken, JobStays
<1>5. Messages' BY TakenMessages DEF Quiet
<1>6. \A p \in DOMAIN views : Reading(p)' => Reading(p) \/ views[p].body \in Rows BY DEF Reading
<1>7. Loading' BY QuietLoading DEF JobStays
<1> QED BY <1>3, <1>4, <1>5, <1>6, <1>7, QuietKeeps

\* A message is taken and nothing else happens.
LEMMA RefuseKeeps ==
  ASSUME Inv, Fresh, NEW m, Refuse(m)
  PROVE  Inv'
<1>1. Taken BY InvocationTakes DEF Refuse
<1> QED BY <1>1, CommandQuiet DEF Refuse, Quiet, Inv, Typed, TypeOK, JobStays

LEMMA RefreshKeeps ==
  ASSUME Inv, Fresh, NEW m, Refresh(m)
  PROVE  Inv'
<1>1. Taken BY InvocationTakes DEF Refresh
<1>2. browser.page \in DOMAIN views /\ views[browser.page].body \in Rows
  BY DEF Refresh, Accepts
<1>3. reads' = reads \cup {browser.page} BY DEF Refresh
<1>4. reads' \subseteq Pages /\ IsFiniteSet(reads')
  BY <1>2, <1>3, FS_AddElement DEF Inv, Typed, TypeOK
<1> QED BY <1>1, <1>2, <1>3, <1>4, CommandQuiet DEF Refresh, Quiet, Inv, Typed, TypeOK, JobStays

LEMMA CancelJobKeeps ==
  ASSUME Inv, Fresh, NEW m, CancelJob(m)
  PROVE  Inv'
<1>1. Taken BY InvocationTakes DEF CancelJob
<1>2. JobStays BY JobKept DEF CancelJob, Inv, Typed
<1> QED BY <1>1, <1>2, CommandQuiet DEF CancelJob, Quiet, Inv, Typed, TypeOK

LEMMA HostCancelsKeeps ==
  ASSUME Inv, Fresh, HostCancels
  PROVE  Inv'
<1>1. Taken BY NotTaken DEF HostCancels
<1>2. JobStays BY JobKept DEF HostCancels, Inv, Typed
<1> QED BY <1>1, <1>2, CommandQuiet DEF HostCancels, Quiet, Inv, Typed, TypeOK

LEMMA NothingKeeps ==
  ASSUME Inv, Fresh, UNCHANGED vars
  PROVE  Inv'
<1>1. Taken BY NotTaken DEF vars
<1> QED BY <1>1, CommandQuiet DEF vars, Quiet, Inv, Typed, TypeOK, JobStays

\* The worker, where it does not touch the buffer.
LEMMA WorkerQuiet ==
  ASSUME Inv, Fresh, Quiet, UNCHANGED <<job, reads, app, inbox, inputs>>, Steady,
         worker' \in WorkerType,
         Working' => Working /\ worker'.view = worker.view /\ worker'.page = worker.page,
         done' \in Seq(Done), \A p : Reading(p)' => Reading(p)
  PROVE  Inv'
<1>1. TypeOK /\ IsFiniteSet(reads) BY DEF Inv, Typed
<1>2. Taken BY NotTaken
<1>3. Beside BY <1>2, TakenMessages DEF Steady, Beside
<1>4. BesideTyped BY <1>1 DEF TypeOK, BesideTyped
<1>5. Messages' BY <1>2, TakenMessages DEF Quiet
<1> QED BY <1>3, <1>4, <1>5, QuietKeeps, QuietLoading

\* The worker goes from one stage of its work to the next, or gives up.
LEMMA WorkerMoves ==
  ASSUME Inv, Fresh, Quiet, UNCHANGED <<job, reads, app, inbox, inputs, done>>,
         worker.at \notin {"ended", "stopped"},
         NEW at \in {"staging", "writing", "committing", "ended"},
         worker' = [worker EXCEPT !.at = at]
  PROVE  Inv'
<1>1. TypeOK /\ OneTask /\ Results BY DEF Inv, Typed
<1>2. Working /\ worker.result = Hidden BY <1>1 DEF Working, Results
<1>3. Steady BY <1>1, <1>2, TaskWorks
<1>4. /\ worker' \in WorkerType
      /\ worker'.view = worker.view /\ worker'.page = worker.page
  BY <1>1 DEF TypeOK, WorkerType
<1>5. \A p : Reading(p)' => Reading(p) BY DEF Reading
<1>6. done' \in Seq(Done) BY <1>1 DEF TypeOK
<1> QED BY <1>2, <1>3, <1>4, <1>5, <1>6, WorkerQuiet

\* The host has for the worker the revision it expects.
LEMMA WorkerAgrees ==
  ASSUME Inv, worker.at \notin {"ended", "stopped"}, host.view = worker.view
  PROVE  /\ Shared /\ browser.page = worker.page /\ worker.page \in DOMAIN views
         /\ host.revision = worker.expected /\ Mirrors /\ Tasks = {Task(worker)}
<1>1. Working /\ worker.view # NoView /\ worker.result = Hidden
  BY DEF Inv, Results, Working
<1>2. Shared /\ browser.page = worker.page BY <1>1 DEF Inv, Buffer, Attached, Shared
<1>3. Tasks = {Task(worker)} BY <1>1 DEF Inv, OneTask, Tasks
<1>4. worker.page \in DOMAIN views /\ Mirrors
  <2>1. Settled(browser.page) BY <1>1, <1>3 DEF Settled, Task
  <2> QED BY <1>2, <2>1 DEF Inv, Mirrored
<1>5. browser.revision = worker.expected
  <2>1. Fits(Task(worker)) BY <1>3 DEF Inv, AllFit
  <2> QED BY <1>4, <2>1 DEF Fits, Task
<1> QED BY <1>2, <1>3, <1>4, <1>5 DEF Mirrors

LEMMA StageAgrees ==
  ASSUME Inv, worker.at \notin {"ended", "stopped"},
         refused' = (refused \/ (host.view = worker.view /\ host.revision # worker.expected))
  PROVE  refused' = refused
<1>1. ~(host.view = worker.view /\ host.revision # worker.expected) BY WorkerAgrees
<1>2. refused \in BOOLEAN /\ NoConflict BY DEF Inv, Typed, TypeOK
<1> QED BY <1>1, <1>2, Unrefused

LEMMA WorksKeeps ==
  ASSUME Inv, Fresh, Load \/ Stage \/ Written \/ Abandon
  PROVE  Inv'
<1>1. CASE Load BY <1>1, WorkerMoves DEF Load, Worker, Quiet
<1>2. CASE Stage
  <2>1. refused' = refused BY <1>2, StageAgrees DEF Stage, Worker
  <2> QED BY <1>2, <2>1, WorkerMoves DEF Stage, Worker, Quiet
<1>3. CASE Written BY <1>3, WorkerMoves DEF Written, Worker, Quiet
<1>4. CASE Abandon BY <1>4, WorkerMoves DEF Abandon, Worker, Quiet
<1> QED BY <1>1, <1>2, <1>3, <1>4

LEMMA ReportKeeps ==
  ASSUME Inv, Fresh, Report
  PROVE  Inv'
<1> DEFINE d == [kind |-> "full", page |-> worker.page, expected |-> worker.expected,
                 body |-> worker.body, result |-> worker.result]
<1>1. TypeOK /\ OneTask /\ Results BY DEF Inv, Typed
<1>2. worker.at = "ended" /\ done' = Append(done, d) /\ worker' = Stopped
      /\ UNCHANGED <<host, refused, browser, views, job, reads, app, inbox, inputs>>
  BY DEF Report, Worker
<1>3. Working BY <1>2 DEF Working
<1>4. worker.page \in Pages BY <1>1, <1>3 DEF OneTask, TypeOK, WorkerType
<1>5. d \in Done /\ done \in Seq(Done) BY <1>1, <1>4 DEF TypeOK, Done, WorkerType
<1>6. d.kind = "full" /\ Task(d) = Task(worker) BY DEF Task
<1> HIDE DEF d
<1>7. Steady BY <1>1, <1>2, <1>3, <1>5, <1>6, TaskReported
<1>8. /\ DOMAIN done' = DOMAIN done \cup {Len(done) + 1}
      /\ \A i \in DOMAIN done : done'[i] = done[i]
      /\ done'[Len(done) + 1] = d
  BY <1>2, <1>5, AppendAt
<1>9. \A p : Reading(p)' => Reading(p) BY <1>2, <1>6, <1>8 DEF Reading
<1>10. done' \in Seq(Done) BY <1>2, <1>5
<1>11. /\ Stopped \in WorkerType
       /\ ~Working'
  BY <1>2 DEF Stopped, Working, Bodies, Documents, WorkerType
<1> QED BY <1>2, <1>7, <1>9, <1>10, <1>11, WorkerQuiet DEF Quiet

\* A read ends: what it has read waits for the application.
LEMMA ReadEndsKeeps ==
  ASSUME Inv, Fresh, NEW p \in reads, ReadEnds(p)
  PROVE  Inv'
<1> DEFINE d == [kind |-> "read", page |-> p, expected |-> Hidden, body |-> "rows0",
                 result |-> Hidden]
<1>1. TypeOK /\ OneTask /\ Results BY DEF Inv, Typed
<1>2. done' = Append(done, d) /\ reads' = reads \ {p}
      /\ UNCHANGED <<host, browser, views, job, worker, app, inbox, refused, inputs>>
  BY DEF ReadEnds
<1>3. d \in Done /\ done \in Seq(Done)
  BY <1>1 DEF TypeOK, Done, Bodies, Plain, Rows
<1>4. d.kind = "read" /\ d.page = p /\ d.result = Hidden OBVIOUS
<1> HIDE DEF d
<1>5. Steady BY <1>1, <1>2, <1>3, <1>4, TaskBesideRead
<1>6. /\ DOMAIN done' = DOMAIN done \cup {Len(done) + 1}
      /\ \A i \in DOMAIN done : done'[i] = done[i]
      /\ done'[Len(done) + 1] = d
  BY <1>2, <1>3, AppendAt
<1>7. \A q : Reading(q)' => Reading(q) BY <1>2, <1>4, <1>6 DEF Reading
<1>8. Taken BY <1>2, NotTaken
<1>9. Beside BY <1>2, <1>5, <1>8, TakenMessages DEF Steady, Beside, Working
<1>10. IsFiniteSet(reads') BY <1>2, FS_RemoveElement DEF Inv, Typed
<1>11. done' \in Seq(Done) BY <1>2, <1>3
<1>12. BesideTyped BY <1>1, <1>2, <1>10, <1>11 DEF TypeOK, BesideTyped
<1>13. Quiet /\ Messages' BY <1>2, <1>8, TakenMessages DEF Quiet
<1> QED BY <1>2, <1>7, <1>9, <1>12, <1>13, QuietKeeps, QuietLoading

\* The user invokes a command on what the host shows.
LEMMA InvokeKeeps ==
  ASSUME Inv, Fresh, Invoke
  PROVE  Inv'
<1> DEFINE m == [kind |-> "invoke", view |-> host.view, revision |-> host.revision,
                 page |-> host.page, body |-> host.body]
<1>1. TypeOK /\ OneTask /\ Results BY DEF Inv, Typed
<1>2. host.view # NoView /\ inbox' = Append(inbox, m) /\ inputs < MaxInputs
      /\ inputs' = inputs + 1
      /\ UNCHANGED <<host, browser, views, job, worker, reads, done, app, refused>>
  BY DEF Invoke
<1>3. m \in Message /\ inbox \in Seq(Message) BY <1>1, <1>2 DEF TypeOK, Message, HostType
<1>4. host.revision # Hidden BY <1>2 DEF Inv, Buffer, Mirrored, Shared
<1>5. m.kind = "invoke" /\ m.revision # Hidden /\ IsStamp(m.revision, m.page, m.body)
  BY <1>4 DEF IsStamp
<1> HIDE DEF m
<1>6. /\ DOMAIN inbox' = DOMAIN inbox \cup {Len(inbox) + 1}
      /\ \A i \in DOMAIN inbox : inbox'[i] = inbox[i]
      /\ inbox'[Len(inbox) + 1] = m
  BY <1>2, <1>3, AppendAt
<1>7. Messages' BY <1>2, <1>5, <1>6 DEF Inv, Messages
<1>8. ASSUME NEW i \in DOMAIN inbox', inbox'[i].revision # Hidden
      PROVE  IsStamp(inbox'[i].revision, inbox'[i].page, inbox'[i].body)
  <2>1. CASE i \in DOMAIN inbox BY <1>6, <1>8, <2>1 DEF IsStamp
  <2>2. CASE i \notin DOMAIN inbox BY <1>5, <1>6, <1>8, <2>2
  <2> QED BY <2>1, <2>2
<1>9. Steady BY <1>1, <1>2, TaskStays
<1>10. Beside BY <1>2, <1>8, <1>9 DEF Steady, Beside, Working
<1>11. inbox' \in Seq(Message) BY <1>2, <1>3
<1>12. inputs' \in 0 .. MaxInputs BY <1>1, <1>2, BoundAssumption DEF TypeOK
<1>13. BesideTyped BY <1>1, <1>2, <1>11, <1>12 DEF TypeOK, BesideTyped, Inv, Typed
<1>14. \A p : Reading(p)' => Reading(p) BY <1>2 DEF Reading
<1>15. Quiet BY <1>2 DEF Quiet
<1> QED BY <1>2, <1>7, <1>10, <1>13, <1>14, <1>15, QuietKeeps, QuietLoading

-----------------------------------------------------------------------------
(* Publications behind a page, and of the page that is shown.              *)

\* No complete value is under way for a page with rows or a preview.
LEMMA PlainIsFree ==
  ASSUME Inv, NEW p \in DOMAIN views, views[p].body \in Plain
  PROVE  (\A w \in Tasks : w.page # p) /\ Settled(p)
<1>1. ASSUME NEW w \in Tasks, w.page = p PROVE FALSE
  <2>1. views[p].body \in Documents \cup {"loading"} BY <1>1 DEF Inv, AllFit, Fits
  <2> QED BY <2>1 DEF Plain, Documents, Rows
<1> QED BY <1>1 DEF Settled

LEMMA TurnKeeps ==
  ASSUME Inv, Fresh, NEW m, Turn(m)
  PROVE  Inv'
<1> DEFINE S == {browser.page}
           b == [q \in {browser.page} |-> Turned[views[q].body]]
<1>1. TypeOK /\ OneTask /\ Results BY DEF Inv, Typed
<1>2. Taken BY InvocationTakes DEF Turn
<1>3. browser.page \in DOMAIN views /\ views[browser.page].body \in Rows BY DEF Turn, Accepts
<1>4. Publish(S, b) /\ UNCHANGED <<job, worker, reads, done, app>> BY DEF Turn
<1>5. b[browser.page] \in Rows BY <1>3, Turns
<1>6. (\A w \in Tasks : w.page # browser.page) /\ Settled(browser.page)
  BY <1>3, PlainIsFree DEF Plain
<1>7. S \in SUBSET DOMAIN views BY <1>3
<1>8. \A q \in S : b[q] \in Bodies BY <1>5 DEF Bodies, Plain
<1>9. S = {browser.page} OBVIOUS
<1> HIDE DEF S, b
<1>10. Publishes(S, b) BY <1>4, <1>6, <1>7, PublishPublishes
<1>11. Steady BY <1>1, <1>4, TaskStays
<1>12. Beside BY <1>2, <1>4, <1>11, TakenMessages DEF Steady, Beside, Working
<1>13. BesideTyped BY <1>1, <1>2, <1>4 DEF TypeOK, BesideTyped, Taken, Inv, Typed
<1>14. /\ DOMAIN views' \subseteq DOMAIN views /\ host'.view = host.view /\ (Shared' <=> Shared)
       /\ \A q \in DOMAIN views' :
            IF q \in S THEN views'[q].body = b[q] ELSE views'[q] = views[q]
  BY <1>7, <1>8, <1>10, PublishesPages
<1>15. Messages' BY <1>2, <1>14, TakenMessages
<1>16. RowReads'
  <2>1. \A q : Reading(q)' <=> Reading(q) BY <1>4 DEF Reading
  <2> QED BY <1>5, <1>9, <1>14, <2>1 DEF Inv, RowReads
<1>17. Loading'
  <2>1. "loading" \notin Rows BY DEF Rows
  <2> QED BY <1>4, <1>5, <1>9, <1>14, <2>1 DEF Inv, Loading
<1>18. \A w \in Tasks' : w.page \notin S BY <1>6, <1>9, <1>11 DEF Steady
<1> QED BY <1>6, <1>7, <1>8, <1>10, <1>12, <1>13, <1>15, <1>16, <1>17, <1>18, PublishesKeeps

LEMMA CompletionTakes ==
  ASSUME Inv, NEW kind, Completion(kind)
  PROVE  /\ 1 \in DOMAIN done /\ Head(done) = done[1] /\ done[1] \in Done /\ done[1].kind = kind
         /\ done' \in Seq(Done) /\ Taken /\ UNCHANGED <<worker, reads, app, inbox, inputs>>
         /\ \A p : Reading(p)' => Reading(p)
<1>1. done \in Seq(Done) BY DEF Inv, Typed, TypeOK
<1>2. done # << >> /\ Head(done).kind = kind /\ done' = Tail(done)
      /\ UNCHANGED <<worker, reads, app, inbox, inputs>>
  BY DEF Completion
<1>3. /\ 1 \in DOMAIN done /\ Head(done) = done[1] /\ done' \in Seq(Done)
      /\ \A i \in DOMAIN done' : i + 1 \in DOMAIN done /\ done'[i] = done[i + 1]
  BY <1>1, <1>2, TailAt
<1>4. \A p : Reading(p)' => Reading(p) BY <1>2, <1>3 DEF Reading
<1>5. done[1] \in Done BY <1>1, <1>3
<1> QED BY <1>2, <1>3, <1>4, <1>5, NotTaken

\* The rows of a read are shown, or kept for their page; other pages are redrawn.
LEMMA CompleteReadKeeps ==
  ASSUME Inv, Fresh, CompleteRead
  PROVE  Inv'
<1> DEFINE p == Head(done).page
           rows == IF p \in DOMAIN views THEN {p} ELSE {}
<1>1. TypeOK /\ OneTask /\ Results BY DEF Inv, Typed
<1>2. Completion("read") /\ job' = job BY DEF CompleteRead
<1>3. PICK S0 \in SUBSET Status : Publish(S0 \cup rows, [q \in S0 \cup rows |->
        IF q = p THEN Turned[views[q].body] ELSE views[q].body])
  BY DEF CompleteRead
<1> DEFINE S == S0 \cup rows
           b == [q \in S |-> IF q = p THEN Turned[views[q].body] ELSE views[q].body]
<1>4. Publish(S, b) BY <1>3
<1>5. /\ 1 \in DOMAIN done /\ Head(done) = done[1] /\ done[1].kind = "read"
      /\ done' \in Seq(Done) /\ Taken /\ UNCHANGED <<worker, reads, app, inbox, inputs>>
      /\ \A q : Reading(q)' => Reading(q)
  BY <1>2, CompletionTakes
<1>6. Reading(p) BY <1>5 DEF Reading
<1>7. p \in DOMAIN views => views[p].body \in Rows BY <1>6 DEF Inv, RowReads
<1>8. S \in SUBSET DOMAIN views /\ \A q \in S : views[q].body \in Plain
  BY <1>7 DEF Status, Plain
<1>9. \A q \in S : b[q] \in Plain /\ (views[q].body \in Rows => b[q] \in Rows)
  <2> SUFFICES ASSUME NEW q \in S
               PROVE  b[q] \in Plain /\ (views[q].body \in Rows => b[q] \in Rows)
    OBVIOUS
  <2>1. CASE q = p
    <3>1. b[q] = Turned[views[p].body] BY <2>1
    <3>2. views[p].body \in Rows BY <1>7, <1>8, <2>1
    <3> HIDE DEF b
    <3> QED BY <3>1, <3>2, Turns DEF Plain
  <2>2. CASE q # p
    <3>1. b[q] = views[q].body BY <2>2
    <3> HIDE DEF b
    <3> QED BY <1>8, <3>1
  <2> QED BY <2>1, <2>2
<1> HIDE DEF S, b
<1>10. \A q \in S : b[q] \in Bodies BY <1>9 DEF Bodies
<1>11. (\A w \in Tasks : w.page \notin S) /\ (browser.page \in S => Settled(browser.page))
  BY <1>8, PlainIsFree
<1>12. Publishes(S, b) BY <1>4, <1>8, <1>11, PublishPublishes
<1>13. done \in Seq(Done) /\ done # << >> /\ done' = Tail(done) BY <1>1, <1>2 DEF TypeOK, Completion
<1>14. Steady BY <1>1, <1>2, <1>5, <1>13, TaskAfterRead
<1>15. Beside BY <1>5, <1>14, TakenMessages DEF Steady, Beside, Working
<1>16. BesideTyped BY <1>1, <1>2, <1>5 DEF TypeOK, BesideTyped, Taken, Inv, Typed
<1>17. /\ DOMAIN views' \subseteq DOMAIN views /\ host'.view = host.view /\ (Shared' <=> Shared)
       /\ \A q \in DOMAIN views' :
            IF q \in S THEN views'[q].body = b[q] ELSE views'[q] = views[q]
  BY <1>8, <1>10, <1>12, PublishesPages
<1>18. Messages' BY <1>5, <1>17, TakenMessages
<1>19. RowReads'
  <2> SUFFICES ASSUME NEW q \in DOMAIN views', Reading(q)' PROVE views'[q].body \in Rows
    BY DEF RowReads
  <2>1. q \in DOMAIN views /\ views[q].body \in Rows BY <1>5, <1>17 DEF Inv, RowReads
  <2> QED BY <1>9, <1>17, <2>1
<1>20. Loading'
  <2>1. "loading" \notin Plain BY DEF Plain, Rows
  <2> QED BY <1>2, <1>9, <1>17, <2>1 DEF Inv, Loading
<1>21. \A w \in Tasks' : w.page \notin S BY <1>11, <1>14 DEF Steady
<1> QED BY <1>8, <1>10, <1>11, <1>12, <1>15, <1>16, <1>18, <1>19, <1>20, <1>21, PublishesKeeps

\* The status of a connection has changed: pages that show it are redrawn.
LEMMA StatusChangesKeeps ==
  ASSUME Inv, Fresh, StatusChanges
  PROVE  Inv'
<1>1. TypeOK /\ OneTask /\ Results BY DEF Inv, Typed
<1>2. UNCHANGED <<job, worker, reads, done, app, inbox>> BY DEF StatusChanges
<1>3. PICK S \in SUBSET Status : Publish(S, [q \in S |-> views[q].body])
  BY DEF StatusChanges
<1> DEFINE b == [q \in S |-> views[q].body]
<1>4. Publish(S, b) BY <1>3
<1>5. \A q \in S : b[q] = views[q].body OBVIOUS
<1> HIDE DEF b
<1>6. S \in SUBSET DOMAIN views /\ \A q \in S : views[q].body \in Plain BY DEF Status
<1>7. \A q \in S : b[q] \in Bodies BY <1>5, <1>6 DEF Bodies
<1>8. (\A w \in Tasks : w.page \notin S) /\ (browser.page \in S => Settled(browser.page))
  BY <1>6, PlainIsFree
<1>9. Publishes(S, b) BY <1>4, <1>6, <1>8, PublishPublishes
<1>10. Taken BY BoundAssumption DEF StatusChanges, Taken, Inv, Typed, TypeOK
<1>11. Steady BY <1>1, <1>2, TaskStays
<1>12. Beside BY <1>2, <1>10, <1>11, TakenMessages DEF Steady, Beside, Working
<1>13. BesideTyped BY <1>1, <1>2, <1>10 DEF TypeOK, BesideTyped, Taken, Inv, Typed
<1>14. /\ DOMAIN views' \subseteq DOMAIN views /\ host'.view = host.view /\ (Shared' <=> Shared)
       /\ \A q \in DOMAIN views' :
            IF q \in S THEN views'[q].body = b[q] ELSE views'[q] = views[q]
  BY <1>6, <1>7, <1>9, PublishesPages
<1>15. \A q \in DOMAIN views' : views'[q].body = views[q].body BY <1>5, <1>14
<1>16. Messages' BY <1>10, <1>14, TakenMessages
<1>17. RowReads'
  <2>1. \A q : Reading(q)' <=> Reading(q) BY <1>2 DEF Reading
  <2> QED BY <1>14, <1>15, <2>1 DEF Inv, RowReads
<1>18. Loading' BY <1>2, <1>14, <1>15 DEF Inv, Loading
<1>19. \A w \in Tasks' : w.page \notin S BY <1>8, <1>11 DEF Steady
<1> QED BY <1>6, <1>7, <1>8, <1>9, <1>12, <1>13, <1>16, <1>17, <1>18, <1>19, PublishesKeeps

\* What the end of a complete value finds: its page, if it is kept, is as it was.
LEMMA TaskFound ==
  ASSUME Inv, Completion("full"), job' = NoJob
  PROVE  /\ OneTask' /\ Results' /\ Tasks = {Task(Head(done))} /\ Tasks' = {}
         /\ Head(done).page = job.page /\ Fits(Head(done)) /\ ~Working /\ ~Working'
         /\ Head(done).page \in DOMAIN views => Current(Head(done))
<1>1. TypeOK /\ OneTask /\ Results BY DEF Inv, Typed
<1>2. done \in Seq(Done) /\ done # << >> /\ Head(done).kind = "full" /\ worker' = worker
      /\ done' = Tail(done)
  BY <1>1 DEF TypeOK, Completion
<1>3. /\ OneTask' /\ Results' /\ Tasks = {Task(Head(done))} /\ Tasks' = {}
      /\ Head(done).page = job.page
  BY <1>1, <1>2, TaskEnds
<1>4. Fits(Head(done))
  <2>1. Fits(Task(Head(done))) BY <1>3 DEF Inv, AllFit
  <2> QED BY <2>1 DEF Fits, Task
<1>5. ~Working' BY <1>3 DEF Tasks
<1>6. ~Working BY <1>2, <1>5 DEF Working
<1> QED BY <1>3, <1>4, <1>5, <1>6 DEF Current, Fits

\* A page whose value did not come is a preview again.
LEMMA LoadFailedKeeps ==
  ASSUME Inv, Fresh, LoadFailed
  PROVE  Inv'
<1> DEFINE p == Head(done).page
           S == IF Current(Head(done)) /\ views[p].body = "loading" THEN {p} ELSE {}
           b == [q \in S |-> "value"]
           gone == p = browser.page /\ ~Shared
<1>1. TypeOK BY DEF Inv, Typed
<1>2. /\ Completion("full") /\ job' = NoJob /\ Head(done).result = Hidden
      /\ IF gone THEN Quiet ELSE Publish(S, b)
  BY DEF LoadFailed, Quiet
<1>3. /\ OneTask' /\ Results' /\ Tasks = {Task(Head(done))} /\ Tasks' = {} /\ p = job.page
      /\ ~Working /\ ~Working' /\ (p \in DOMAIN views => Current(Head(done)))
  BY <1>2, TaskFound
<1>4. /\ done' \in Seq(Done) /\ Taken /\ UNCHANGED <<worker, reads, app, inbox, inputs>>
      /\ \A q : Reading(q)' => Reading(q)
  BY <1>2, CompletionTakes
<1>5. Settled(browser.page) BY <1>2, <1>3 DEF Settled, Task
<1>6. Beside
  <2>1. \A w \in Tasks \ Tasks' : w.result = Hidden BY <1>2, <1>3 DEF Task
  <2> QED BY <1>3, <1>4, <2>1, TakenMessages DEF Beside
<1>7. BesideTyped
  BY <1>1, <1>2, <1>4 DEF TypeOK, BesideTyped, Taken, Inv, Typed, NoJob, JobType
<1>8. CASE gone
  <2>1. Quiet BY <1>2, <1>8
  <2>2. Messages' BY <1>4, <2>1, TakenMessages DEF Quiet
  <2>3. Loading' BY <1>8, <2>1 DEF Loading, Quiet, Shared
  <2> QED BY <1>4, <1>6, <1>7, <2>1, <2>2, <2>3, QuietKeeps
<1>9. CASE ~gone
  <2>1. S \in SUBSET DOMAIN views BY DEF Current
  <2>2. \A q \in S : b[q] = "value" OBVIOUS
  <2>3. \A q \in S : q = p /\ views[q].body = "loading" OBVIOUS
  <2>4. \A q \in DOMAIN views : q = p /\ views[q].body = "loading" => q \in S BY <1>3
  <2>5. Publish(S, b) BY <1>2, <1>9
  <2> HIDE DEF S, b
  <2>6. \A q \in S : b[q] \in Bodies BY <2>2 DEF Bodies, Plain
  <2>7. Publishes(S, b) BY <1>5, <2>1, <2>5, PublishPublishes
  <2>8. /\ DOMAIN views' \subseteq DOMAIN views /\ host'.view = host.view /\ (Shared' <=> Shared)
        /\ \A q \in DOMAIN views' :
             IF q \in S THEN views'[q].body = b[q] ELSE views'[q] = views[q]
    BY <2>1, <2>6, <2>7, PublishesPages
  <2>9. Messages' BY <1>4, <2>8, TakenMessages
  <2>10. RowReads'
    <3> SUFFICES ASSUME NEW q \in DOMAIN views', Reading(q)' PROVE views'[q].body \in Rows
      BY DEF RowReads
    <3>1. q \in DOMAIN views /\ views[q].body \in Rows BY <1>4, <2>8 DEF Inv, RowReads
    <3>2. q \notin S BY <2>3, <3>1 DEF Rows
    <3> QED BY <2>8, <3>1, <3>2
  <2>11. Loading'
    <3> SUFFICES ASSUME NEW q \in DOMAIN views', views'[q].body = "loading", Shared'
                 PROVE  FALSE
      BY DEF Loading
    <3>1. q \notin S BY <2>2, <2>8
    <3>2. q \in DOMAIN views /\ views[q].body = "loading" /\ Shared BY <2>8, <3>1
    <3>3. q = p BY <1>3, <3>2 DEF Inv, Loading
    <3> QED BY <2>4, <3>1, <3>2, <3>3
  <2>12. \A w \in Tasks' : w.page \notin S BY <1>3
  <2> QED BY <1>5, <1>6, <1>7, <2>1, <2>6, <2>7, <2>9, <2>10, <2>11, <2>12, PublishesKeeps
<1> QED BY <1>8, <1>9

\* The document has been installed: the application learns its revision.
LEMMA LoadedKeeps ==
  ASSUME Inv, Fresh, Loaded
  PROVE  Inv'
<1> DEFINE d == Head(done)
<1>1. TypeOK /\ NoConflict /\ PagesTyped(views) BY DEF Inv, Typed
<1>2. /\ Completion("full") /\ d.result # Hidden /\ job' = NoJob /\ host' = host
      /\ refused' = refused
      /\ browser' = IF browser.page = d.page THEN [browser EXCEPT !.revision = d.result]
                                             ELSE browser
      /\ views' = IF Current(d)
                  THEN [views EXCEPT ![d.page].body = d.body, ![d.page].revision = d.result]
                  ELSE views
  BY DEF Loaded
<1>3. /\ OneTask' /\ Results' /\ Tasks = {Task(d)} /\ Tasks' = {} /\ d.page = job.page
      /\ Fits(d) /\ ~Working' /\ (d.page \in DOMAIN views => Current(d))
  BY <1>2, TaskFound
<1>4. /\ d \in Done /\ done' \in Seq(Done) /\ Taken
      /\ UNCHANGED <<worker, reads, app, inbox, inputs>>
      /\ \A q : Reading(q)' => Reading(q)
  BY <1>2, CompletionTakes
<1>5. Current(d) <=> d.page \in DOMAIN views BY <1>3 DEF Current
<1>6. d.body \in Documents /\ d.result \in Revisions /\ d.page \in Pages
  BY <1>2, <1>3, <1>4 DEF Fits, Done
<1>7. PICK page, result, body : page = d.page /\ result = d.result /\ body = d.body
  OBVIOUS
<1>8. DOMAIN views' = DOMAIN views BY <1>2
<1>9. ASSUME NEW q \in DOMAIN views
      PROVE  /\ IF q = page THEN views'[q].body = body /\ views'[q].revision = result
                ELSE views'[q] = views[q]
             /\ views'[q].position = views[q].position
             /\ IsView(views'[q])
  <2>1. views[q] \in View /\ IsView(views[q]) BY <1>1 DEF PagesTyped, IsView
  <2>2. CASE q = page
    <3>1. views' = [views EXCEPT ![page].body = body, ![page].revision = result]
      BY <1>2, <1>5, <1>7, <2>2
    <3>2. views'[q] = [views[q] EXCEPT !.body = body, !.revision = result] BY <2>2, <3>1
    <3>3. body \in Bodies /\ result \in Revisions BY <1>6, <1>7 DEF Bodies
    <3>4. /\ views'[q] \in View /\ views'[q].body = body /\ views'[q].revision = result
          /\ views'[q].position = views[q].position
      BY <2>1, <3>2, <3>3 DEF View
    <3> QED BY <2>1, <2>2, <3>4 DEF IsView
  <2>3. CASE q # page
    <3>1. views'[q] = views[q] BY <1>2, <1>7, <2>3
    <3> QED BY <2>1, <2>3, <3>1
  <2> QED BY <2>2, <2>3
<1>10. /\ browser' \in BrowserType
       /\ browser'.view = browser.view /\ browser'.page = browser.page
       /\ IF browser.page = page THEN browser'.revision = result ELSE browser' = browser
  <2>1. browser \in BrowserType
    BY <1>1 DEF TypeOK
  <2>2. CASE browser.page = page
    <3>1. browser' = [browser EXCEPT !.revision = result] BY <1>2, <1>7, <2>2
    <3> QED BY <1>6, <1>7, <2>1, <2>2, <3>1 DEF BrowserType
  <2>3. CASE browser.page # page BY <1>2, <1>7, <2>1, <2>3
  <2> QED BY <2>2, <2>3
<1>11. Shared' <=> Shared BY <1>2, <1>10 DEF Shared
<1>12. Typed'
  <2>1. PagesTyped(views') BY <1>1, <1>8, <1>9 DEF PagesTyped
  <2>2. \A q \in DOMAIN views' : views'[q] \in View /\ Cardinality(views'[q].position) <= 1
    BY <1>8, <1>9, ViewSmall
  <2>3. host' = host /\ refused' = refused
        /\ job' \in JobType
    BY <1>2 DEF NoJob, JobType
  <2>4. DOMAIN views' \subseteq Pages BY <1>1, <1>8 DEF TypeOK
  <2>5. TypeOK' BY <1>1, <1>4, <1>10, <2>2, <2>3, <2>4 DEF TypeOK, Taken
  <2> QED BY <1>4, <2>1, <2>5 DEF Inv, Typed
<1>13. AllFit' /\ Attached' BY <1>3 DEF AllFit, Attached
<1>14. Buffer'
  <2>1. browser.view = NoView => browser.page # page
    BY <1>6, <1>7, NothingAssumption DEF Inv, Buffer, NoBrowser
  <2> QED BY <1>2, <1>8, <1>10, <2>1 DEF Inv, Buffer
<1>15. Messages' BY <1>2, <1>4, TakenMessages
<1>16. Mirrored'
  <2>1. SUFFICES ASSUME Shared
                 PROVE  browser.page \in DOMAIN views' /\ host'.revision # Hidden /\ Mirrors'
    BY <1>10, <1>11 DEF Mirrored
  <2>2. browser.page \in DOMAIN views /\ host.revision # Hidden BY <2>1 DEF Inv, Mirrored
  <2>3. CASE browser.page = page
    <3>1. host.page = page /\ host.revision = result /\ host.body = body
      BY <1>2, <1>3, <1>7, <2>1, <2>2, <2>3 DEF Fits
    <3> QED BY <1>2, <1>8, <1>9, <1>10, <2>2, <2>3, <3>1 DEF Mirrors
  <2>4. CASE browser.page # page
    <3>1. Settled(browser.page) BY <1>3, <1>7, <2>4 DEF Settled, Task
    <3>2. Mirrors BY <2>1, <3>1 DEF Inv, Mirrored
    <3> QED BY <1>2, <1>8, <1>9, <1>10, <2>2, <2>4, <3>2 DEF Mirrors
  <2> QED BY <2>3, <2>4
<1>17. RowReads'
  <2> SUFFICES ASSUME NEW q \in DOMAIN views, Reading(q) PROVE views'[q].body \in Rows
    BY <1>4, <1>8 DEF RowReads
  <2>1. views[q].body \in Rows BY DEF Inv, RowReads
  <2>2. q # page BY <1>3, <1>7, <2>1 DEF Fits, Rows, Documents
  <2> QED BY <1>9, <2>1, <2>2
<1>18. Agree'
  <2>1. IsStamp(result, page, body)
    <3>1. Task(d) \in Tasks /\ Task(d).result = result /\ Task(d).page = page
          /\ Task(d).body = body
      BY <1>3, <1>7 DEF Task
    <3> QED BY <1>2, <1>7, <3>1 DEF IsStamp
  <2>2. ASSUME NEW r, NEW q, NEW c, IsStamp(r, q, c)' PROVE IsStamp(r, q, c)
    <3>1. r # Hidden BY <2>2 DEF IsStamp
    <3>2. CASE q \in DOMAIN views' /\ r = views'[q].revision /\ c = views'[q].body
      BY <1>8, <1>9, <2>1, <3>1, <3>2 DEF IsStamp
    <3>3. CASE q \in DOMAIN views' /\ [revision |-> r, body |-> c] \in views'[q].position
      BY <1>8, <1>9, <3>1, <3>3 DEF IsStamp
    <3>4. CASE r = host'.revision /\ q = host'.page /\ c = host'.body
      BY <1>2, <3>1, <3>4 DEF IsStamp
    <3>5. CASE \E i \in DOMAIN inbox' :
                 r = inbox'[i].revision /\ q = inbox'[i].page /\ c = inbox'[i].body
      BY <1>4, <3>1, <3>5 DEF IsStamp
    <3> QED BY <1>3, <2>2, <3>2, <3>3, <3>4, <3>5 DEF IsStamp
  <2>3. Agree BY DEF Inv
  <2> QED BY <2>2, <2>3 DEF Agree
<1>19. Suspended' BY <1>4, <1>10 DEF Inv, Suspended
<1>20. Pruning' BY <1>4, <1>8, PruningStays
<1>21. Loading'
  <2> SUFFICES ASSUME NEW q \in DOMAIN views', views'[q].body = "loading", Shared'
               PROVE  FALSE
    BY DEF Loading
  <2>1. q # page BY <1>6, <1>7, <1>8, <1>9 DEF Documents
  <2>2. q \in DOMAIN views /\ views[q].body = "loading" /\ Shared BY <1>8, <1>9, <1>11, <2>1
  <2>3. q = page BY <1>3, <1>7, <2>2 DEF Inv, Loading
  <2> QED BY <2>1, <2>3
<1>22. NoConflict' BY <1>1, <1>2 DEF NoConflict
<1> QED BY <1>3, <1>12, <1>13, <1>14, <1>15, <1>16, <1>17, <1>18, <1>19, <1>20, <1>21, <1>22
        DEF Inv

-----------------------------------------------------------------------------
(* The host installs the document; the other form of one is asked for.     *)

LEMMA CommitKeeps ==
  ASSUME Inv, Fresh, Commit
  PROVE  Inv'
<1>1. TypeOK /\ OneTask /\ Results BY DEF Inv, Typed
<1>2. worker.at = "committing" /\ UNCHANGED <<browser, views, job, reads, app, inbox, inputs, done>>
  BY DEF Commit, Worker
<1>3. refused' = refused BY <1>2, StageAgrees DEF Commit
<1>4. CASE ~(host.view = worker.view /\ host.revision = worker.expected)
  <2>1. worker' = [worker EXCEPT !.at = "ended"] /\ host' = host BY <1>4 DEF Commit
  <2> QED BY <1>2, <1>3, <2>1, WorkerMoves DEF Quiet
<1>5. CASE host.view = worker.view /\ host.revision = worker.expected
  <2>1. /\ Shared /\ browser.page = worker.page /\ worker.page \in DOMAIN views
        /\ Mirrors /\ Tasks = {Task(worker)}
    BY <1>2, <1>5, WorkerAgrees
  <2>2. NewRevision \in Revisions /\ NewRevision # Hidden /\ \A q, b : ~IsStamp(NewRevision, q, b)
    BY FreshRevision
  <2>3. Fits(Task(worker)) BY <2>1 DEF Inv, AllFit
  <2>4. worker.body \in Documents /\ worker.body \in Bodies BY <2>3 DEF Fits, Task, Bodies
  <2>5. /\ host' = [host EXCEPT !.revision = NewRevision, !.body = worker.body]
        /\ worker' = [worker EXCEPT !.at = "ended", !.result = NewRevision]
    BY <1>5 DEF Commit
  <2>6. /\ host' \in HostType
        /\ host'.view = host.view /\ host'.page = host.page
        /\ host'.revision = NewRevision /\ host'.body = worker.body
    BY <1>1, <2>2, <2>4, <2>5 DEF TypeOK, HostType
  <2>7. /\ worker' \in WorkerType
        /\ worker'.at = "ended" /\ worker'.result = NewRevision /\ worker'.page = worker.page
        /\ worker'.view = worker.view /\ worker'.expected = worker.expected
        /\ worker'.body = worker.body
    BY <1>1, <2>2, <2>5 DEF TypeOK, WorkerType
  <2>8. Working /\ Working' /\ Fulls = {} /\ Fulls' = {}
    BY <1>1, <1>2, <2>7 DEF Working, OneTask, Fulls
  <2>9. Tasks' = {Task(worker')} BY <2>8 DEF Tasks
  <2>10. OneTask' BY <1>1, <1>2, <2>7, <2>8 DEF OneTask
  <2>11. Results' BY <1>1, <1>2, <2>7, <2>8 DEF Results
  <2>12. Shared' /\ Shared BY <1>2, <2>1, <2>6 DEF Shared
  <2>13. Typed'
    <3>1. TypeOK' BY <1>1, <1>2, <1>3, <2>6, <2>7 DEF TypeOK
    <3> QED BY <1>2, <3>1 DEF Inv, Typed
  <2>14. AllFit'
    <3>1. SUFFICES ASSUME NEW w \in Tasks' PROVE Fits(w)' BY DEF AllFit
    <3>2. /\ w.page = worker.page /\ w.expected = worker.expected /\ w.body = worker.body
          /\ w.result = NewRevision
      BY <2>7, <2>9, <3>1 DEF Task
    <3>3. host.page = worker.page BY <2>1 DEF Mirrors
    <3> QED BY <1>2, <2>1, <2>3, <2>6, <3>2, <3>3 DEF Fits, Task
  <2>15. Attached' BY <1>2, <2>1, <2>7 DEF Attached
  <2>16. Buffer' BY <1>2, <2>1, <2>6 DEF Inv, Buffer, Shared
  <2>17. Messages' BY <1>2, <2>6 DEF Inv, Messages
  <2>18. Mirrored'
    <3>1. ~Settled(browser.page)'
      BY <1>2, <2>1, <2>2, <2>7, <2>9 DEF Settled, Task
    <3> QED BY <1>2, <2>1, <2>2, <2>6, <3>1 DEF Mirrored
  <2>19. RowReads' BY <1>2 DEF Inv, RowReads, Reading
  <2>20. Agree'
    <3>1. ASSUME NEW r, NEW q, NEW c, IsStamp(r, q, c)'
          PROVE  IsStamp(r, q, c) \/ (r = NewRevision /\ q = worker.page /\ c = worker.body)
      <4>1. host.page = worker.page BY <2>1 DEF Mirrors
      <4>2. (\E w \in Tasks' : r = w.result /\ q = w.page /\ c = w.body) =>
              r = NewRevision /\ q = worker.page /\ c = worker.body
        BY <2>7, <2>9 DEF Task
      <4> QED BY <1>2, <2>6, <3>1, <4>1, <4>2 DEF IsStamp
    <3>2. Agree BY DEF Inv
    <3> QED BY <2>2, <3>1, <3>2 DEF Agree
  <2>21. Suspended' BY <1>2 DEF Inv, Suspended
  <2>22. Pruning' BY <1>2, PruningStays
  <2>23. Loading' BY <1>2, <2>12 DEF Inv, Loading
  <2>24. NoConflict' BY <1>3 DEF Inv, NoConflict
  <2> QED BY <2>10, <2>11, <2>13, <2>14, <2>15, <2>16, <2>17, <2>18, <2>19, <2>20, <2>21, <2>22,
             <2>23, <2>24 DEF Inv
<1> QED BY <1>4, <1>5

\* What an accepted invocation says of the page that is shown.
LEMMA AcceptedPage ==
  ASSUME Inv, NEW m, Invocation(m), Accepts(m)
  PROVE  /\ browser.view # NoView /\ browser.page \in DOMAIN views /\ browser.page \in Pages
         /\ browser.revision = views[browser.page].revision
         /\ browser.revision \in Revisions /\ browser.revision # Hidden
<1>1. inbox \in Seq(Message) /\ inbox # << >> /\ m = Head(inbox) /\ m.kind = "invoke"
  BY DEF Inv, Typed, TypeOK, Invocation
<1>2. 1 \in DOMAIN inbox /\ m = inbox[1] BY <1>1, TailAt
<1>3. m.revision # Hidden /\ m \in Message BY <1>1, <1>2 DEF Inv, Messages
<1> QED BY <1>3 DEF Accepts, Message, Inv, Typed, TypeOK

LEMMA ToggleKeeps ==
  ASSUME Inv, Fresh, NEW m, Toggle(m)
  PROVE  Inv'
<1> DEFINE page == browser.page
           turned == Turned[views[browser.page].body]
<1>1. TypeOK /\ OneTask /\ Results BY DEF Inv, Typed
<1>2. /\ Invocation(m) /\ Accepts(m) /\ Free /\ views[page].body \in Documents
      /\ UNCHANGED <<host, browser, views, reads, done, app, refused>>
      /\ Begin(page, views[page].revision, turned)
  BY DEF Toggle
<1>3. Taken BY <1>2, InvocationTakes
<1>4. /\ browser.view # NoView /\ page \in DOMAIN views /\ page \in Pages
      /\ browser.revision = views[page].revision
      /\ browser.revision \in Revisions /\ browser.revision # Hidden
  BY <1>2, AcceptedPage
<1>5. turned \in Documents BY <1>2, Turns
<1> HIDE DEF turned
<1>6. /\ OneTask' /\ Results' /\ Working' /\ Tasks' = {Task(worker')}
      /\ worker'.page = page /\ worker'.expected = views[page].revision
      /\ worker'.body = turned /\ worker'.result = Hidden /\ worker'.view = browser.view
      /\ job'.page = page
  BY <1>1, <1>2, <1>4, TaskBegins
<1>7. /\ job' \in JobType
      /\ worker' \in WorkerType
  <2>1. turned \in Bodies /\ browser'.view \in HostViews
    BY <1>1, <1>2, <1>4, <1>5 DEF Bodies, TypeOK, BrowserType
  <2>2. views[page].revision \in Revisions BY <1>4
  <2> QED BY <1>2, <1>4, <2>1, <2>2 DEF Begin, JobType, WorkerType
<1>8. Typed'
  <2>1. TypeOK' BY <1>1, <1>2, <1>3, <1>7 DEF TypeOK, Taken
  <2> QED BY <1>2, <2>1 DEF Inv, Typed
<1>9. AllFit'
  <2>1. SUFFICES ASSUME NEW w \in Tasks' PROVE Fits(w)' BY DEF AllFit
  <2>2. w.page = page /\ w.expected = views[page].revision /\ w.body = turned
        /\ w.result = Hidden
    BY <1>6, <2>1 DEF Task
  <2> QED BY <1>2, <1>4, <1>5, <2>2, NothingAssumption DEF Fits
<1>10. Attached' BY <1>2, <1>6 DEF Attached
<1>11. Buffer' BY <1>2 DEF Inv, Buffer
<1>12. Messages' BY <1>2, <1>3, TakenMessages
<1>13. job.page = NoPage /\ Tasks = {} BY <1>1, <1>2, NoTask DEF Free
<1>14. Mirrored'
  <2>1. Settled(page) BY <1>13 DEF Settled
  <2> QED BY <1>2, <2>1 DEF Inv, Mirrored, Mirrors, Shared
<1>15. RowReads' BY <1>2 DEF Inv, RowReads, Reading
<1>16. Agree'
  <2>1. ASSUME NEW r, NEW q, NEW c, IsStamp(r, q, c)' PROVE IsStamp(r, q, c)
    <3>1. \A w \in Tasks' : w.result = Hidden BY <1>6 DEF Task
    <3>2. \A i \in DOMAIN inbox' : inbox'[i].revision # Hidden =>
            IsStamp(inbox'[i].revision, inbox'[i].page, inbox'[i].body)
      BY <1>3, TakenMessages
    <3> QED BY <1>2, <2>1, <3>1, <3>2 DEF IsStamp
  <2>2. Agree BY DEF Inv
  <2> QED BY <2>1, <2>2 DEF Agree
<1>17. Suspended' BY <1>2 DEF Inv, Suspended
<1>18. Pruning' BY <1>2, PruningStays
<1>19. Loading'
  <2>1. \A q \in DOMAIN views : views[q].body = "loading" => ~Shared
    BY <1>1, <1>13, NothingAssumption DEF Inv, Loading, TypeOK
  <2> QED BY <1>2, <2>1 DEF Loading, Shared
<1>20. NoConflict' BY <1>2 DEF Inv, NoConflict
<1> QED BY <1>6, <1>8, <1>9, <1>10, <1>11, <1>12, <1>14, <1>15, <1>16, <1>17, <1>18, <1>19, <1>20
        DEF Inv

\* The page of a complete value is a sibling of the preview it was asked from.
Moved(g, p, up) == [g EXCEPT ![p].parent = up]

LEMMA MovedPages ==
  ASSUME NEW g, PagesTyped(g), Stamped(g), NEW p \in DOMAIN g, NEW up \in Pages \cup {NoPage}
  PROVE  /\ DOMAIN Moved(g, p, up) = DOMAIN g
         /\ PagesTyped(Moved(g, p, up)) /\ Stamped(Moved(g, p, up))
         /\ \A q \in DOMAIN g : /\ Moved(g, p, up)[q].body = g[q].body
                                /\ Moved(g, p, up)[q].revision = g[q].revision
<1> DEFINE h == Moved(g, p, up)
<1>1. DOMAIN h = DOMAIN g /\ \A q \in DOMAIN g : q # p => h[q] = g[q] BY DEF Moved
<1>2. h[p] = [g[p] EXCEPT !.parent = up] BY DEF Moved
<1>3. g[p] \in View BY DEF PagesTyped, IsView
<1> HIDE DEF h
<1>4. h[p] \in View /\ h[p].position = g[p].position /\ h[p].body = g[p].body
      /\ h[p].revision = g[p].revision
  BY <1>2, <1>3 DEF View
<1>5. PagesTyped(h) BY <1>1, <1>4 DEF PagesTyped, IsView
<1>6. Stamped(h) BY <1>1, <1>4 DEF Stamped
<1>7. \A q \in DOMAIN g : h[q].body = g[q].body /\ h[q].revision = g[q].revision
  BY <1>1, <1>4
<1> QED BY <1>1, <1>5, <1>6, <1>7 DEF h

\* Without a job no page is loading in a buffer that is open.
LEMMA NoLoading ==
  ASSUME Inv, Free, Shared
  PROVE  \A q \in DOMAIN views : views[q].body # "loading"
BY NothingAssumption DEF Inv, Typed, TypeOK, Loading, Free

LEMMA ShowFullKeeps ==
  ASSUME Inv, Fresh, NEW m, ShowFull(m)
  PROVE  Inv'
<1> DEFINE p == NewPage
           from == views[browser.page]
           up == IF from.body = "value" THEN from.parent ELSE browser.page
           made == Add(views, p, Page("loading", browser.page))
           f == Captured(made, browser.page)
           g == Pruned([f EXCEPT ![p].revision = NewRevision], p)
<1>1. TypeOK /\ OneTask /\ Results /\ PagesTyped(views) BY DEF Inv, Typed
<1>2. Invocation(m) /\ Accepts(m) /\ Free /\ UNCHANGED <<reads, done, app, refused>>
  BY DEF ShowFull
<1>3. IF Shared
      THEN \/ /\ host' = [host EXCEPT !.revision = NewRevision, !.page = p, !.body = "loading"]
              /\ browser' = [browser EXCEPT !.revision = NewRevision, !.page = p]
              /\ views' = [g EXCEPT ![p].parent = up]
              /\ Begin(p, NewRevision, "text")
           \/ /\ views' = Remove(f, p)
              /\ UNCHANGED <<host, browser, job, worker>>
      ELSE UNCHANGED <<host, browser, views, job, worker>>
  BY DEF ShowFull
<1>4. Taken /\ app.at = "idle" /\ app' = Idle
  BY <1>2, InvocationTakes DEF Inv, Suspended
<1>5. /\ browser.view # NoView /\ browser.page \in DOMAIN views /\ browser.page \in Pages
  BY <1>2, AcceptedPage
<1>6. job.page = NoPage /\ Tasks = {} /\ ~Working BY <1>1, <1>2, NoTask DEF Free
<1>7. Settled(browser.page) BY <1>6 DEF Settled
<1>8. /\ p \in Pages /\ p # NoPage /\ p \notin DOMAIN views
      /\ NewRevision \in Revisions /\ NewRevision # Hidden
  BY FreshPage, FreshRevision
<1>9. Grown(made, p, TRUE) /\ p \in DOMAIN made /\ made[p].body = "loading"
  BY <1>4, <1>5, NewGrown DEF Bodies
<1>10. /\ DOMAIN made = DOMAIN views \cup {p}
       /\ \A q \in DOMAIN views : made[q] = views[q]
  BY <1>4, <1>9 DEF Grown
<1> HIDE DEF made
<1>11. /\ DOMAIN f = DOMAIN made /\ PagesTyped(f) /\ Stamped(f)
       /\ \A q \in DOMAIN made : f[q].body = made[q].body /\ f[q].revision = made[q].revision
  BY <1>7, <1>9, CapturedPages
<1> HIDE DEF f
<1>12. up \in Pages \cup {NoPage}
  BY <1>1, <1>5 DEF PagesTyped, IsView, View
<1> HIDE DEF up
<1>13. CASE ~Shared
  <2>1. Quiet /\ UNCHANGED <<job, worker>> BY <1>2, <1>3, <1>13 DEF Quiet
  <2>2. JobStays BY <1>1, <2>1 DEF TypeOK, JobStays
  <2> QED BY <1>1, <1>2, <1>4, <2>1, <2>2, CommandQuiet DEF TypeOK, Inv, Typed
<1>14. CASE /\ Shared
            /\ host' = [host EXCEPT !.revision = NewRevision, !.page = p, !.body = "loading"]
            /\ browser' = [browser EXCEPT !.revision = NewRevision, !.page = p]
            /\ views' = [g EXCEPT ![p].parent = up]
            /\ Begin(p, NewRevision, "text")
  <2> DEFINE shown == Revised(f, p)
  <2>1. /\ DOMAIN shown = DOMAIN f /\ PagesTyped(shown) /\ Stamped(shown)
        /\ \A q \in DOMAIN f :
             /\ shown[q].body = f[q].body
             /\ shown[q].revision = IF q = p THEN NewRevision ELSE f[q].revision
    BY <1>8, <1>9, <1>11, RevisedPages
  <2>2. g = Pruned(shown, p) BY DEF Revised
  <2> HIDE DEF g, shown
  <2>3. p \in DOMAIN shown BY <1>9, <1>11, <2>1
  <2>4. /\ DOMAIN g \subseteq DOMAIN shown /\ p \in DOMAIN g
        /\ \A q \in DOMAIN g : g[q] = shown[q]
        /\ Cardinality(DOMAIN g) <= MaxPages
    BY <2>2, <2>3, PrunedPages
  <2>5. PagesTyped(g) /\ Stamped(g) BY <2>1, <2>4, Fewer
  <2>6. views' = Moved(g, p, up) BY <1>14 DEF Moved
  <2>7. /\ DOMAIN views' = DOMAIN g /\ PagesTyped(views') /\ Stamped(views')
        /\ \A q \in DOMAIN g : views'[q].body = g[q].body /\ views'[q].revision = g[q].revision
    BY <1>12, <2>4, <2>5, <2>6, MovedPages
  <2>8. \A q \in DOMAIN views' :
          /\ q \in DOMAIN made /\ views'[q].body = made[q].body
          /\ views'[q].revision = IF q = p THEN NewRevision ELSE made[q].revision
    BY <1>11, <2>1, <2>4, <2>7
  <2>9. /\ browser' = [view |-> browser.view, revision |-> NewRevision, page |-> p]
        /\ host' = [view |-> browser.view, revision |-> NewRevision, page |-> p,
                    body |-> "loading"]
    BY <1>1, <1>14 DEF TypeOK, Shared, HostType, BrowserType
  <2>10. Shows(made, p)
    BY <1>9, <1>14, <2>4, <2>7, <2>8, <2>9 DEF Shows
  <2>11. Presents(made, p, TRUE) BY <1>2, <2>4, <2>7, <2>10 DEF Presents
  <2>12. /\ OneTask' /\ Results' /\ Working' /\ Tasks' = {Task(worker')}
         /\ worker'.page = p /\ worker'.expected = NewRevision /\ worker'.body = "text"
         /\ worker'.result = Hidden /\ worker'.view = browser'.view /\ job'.page = p
    <3>1. browser'.view # NoView BY <1>5, <2>9
    <3> QED BY <1>1, <1>2, <1>8, <1>14, <3>1, TaskBegins
  <2>13. /\ job' \in JobType
         /\ worker' \in WorkerType
    <3>1. browser'.view \in HostViews BY <1>1, <1>5, <2>9 DEF TypeOK, BrowserType
    <3>2. "text" \in Bodies BY DEF Bodies, Documents
    <3>3. Begin(p, NewRevision, "text") BY <1>14
    <3> HIDE DEF p
    <3> QED BY <1>8, <3>1, <3>2, <3>3 DEF Begin, JobType, WorkerType
  <2>14. \A w \in Tasks' : w.page = p /\ w.expected = NewRevision /\ w.body = "text"
                           /\ w.result = Hidden
    BY <2>12 DEF Task
  <2>15. AllFit'
    <3>1. SUFFICES ASSUME NEW w \in Tasks' PROVE Fits(w)' BY DEF AllFit
    <3>2. "text" \in Documents /\ views'[p].body = "loading" /\ views'[p].revision = NewRevision
      BY <1>9, <2>4, <2>7, <2>8 DEF Documents
    <3>3. browser'.page = p /\ browser'.revision = NewRevision BY <2>9
    <3>4. /\ w.page = p /\ w.expected = NewRevision /\ w.body = "text" /\ w.result = Hidden
      BY <2>14, <3>1
    <3> QED BY <1>8, <3>2, <3>3, <3>4 DEF Fits
  <2>16. Attached' BY <2>9, <2>12 DEF Attached
  <2>17. Loading'
    <3>1. SUFFICES ASSUME NEW q \in DOMAIN views', views'[q].body = "loading"
                   PROVE  job'.page = q
      BY DEF Loading
    <3>2. q \in DOMAIN views => FALSE
      BY <1>2, <1>8, <1>10, <1>14, <2>8, <3>1, NoLoading
    <3>3. q = p BY <1>10, <2>8, <3>1, <3>2
    <3> QED BY <2>12, <3>3
  <2>18. job.page = NoPage \/ job.page # browser.page BY <1>6
  <2>19. \A w \in Tasks' : w.result = Hidden \/ w \in Tasks BY <2>14
  <2> QED BY <1>2, <1>4, <1>9, <2>11, <2>12, <2>13, <2>15, <2>16, <2>17, <2>18, <2>19,
             PresentsRest
<1>15. CASE Shared /\ views' = Remove(f, p) /\ UNCHANGED <<host, browser, job, worker>>
  <2>1. /\ DOMAIN views' = DOMAIN made \ {p}
        /\ \A q \in DOMAIN views' : views'[q] = f[q]
    BY <1>11, <1>15 DEF Remove, Restrict
  <2>2. PagesTyped(views') /\ Stamped(views') BY <1>11, <2>1, Fewer
  <2>3. Stays(made, p, TRUE) BY <1>5, <1>11, <1>15, <2>1 DEF Stays
  <2>4. Presents(made, p, TRUE) BY <1>2, <2>1, <2>2, <2>3 DEF Presents
  <2>5. Steady BY <1>1, <1>2, <1>15, TaskStays
  <2>6. OneTask' /\ Results' /\ Tasks' = {} BY <1>6, <2>5 DEF Steady
  <2>7. AllFit' BY <2>6 DEF AllFit
  <2>8. Attached' BY <1>6, <1>15 DEF Attached, Working
  <2>9. Loading'
    <3>1. \A q \in DOMAIN views' : q \in DOMAIN views /\ views'[q].body = views[q].body
      BY <1>10, <1>11, <2>1
    <3> QED BY <1>2, <1>15, <3>1, NoLoading DEF Loading
  <2>10. job.page = NoPage \/ job.page # browser.page BY <1>6
  <2> QED BY <1>1, <1>2, <1>4, <1>9, <1>15, <2>4, <2>6, <2>7, <2>8, <2>9, <2>10, PresentsRest
          DEF TypeOK
<1> QED BY <1>3, <1>13, <1>14, <1>15

-----------------------------------------------------------------------------
(* The buffer is closed.                                                   *)

LEMMA UserClosesKeeps ==
  ASSUME Inv, Fresh, UserCloses
  PROVE  Inv'
<1> DEFINE m == [kind |-> "closed", view |-> host.view, revision |-> Hidden, page |-> NoPage,
                 body |-> "loading"]
<1>1. TypeOK /\ OneTask /\ Results BY DEF Inv, Typed
<1>2. host.view # NoView /\ host' = Closed /\ inbox' = Append(inbox, m) /\ inputs < MaxInputs
      /\ inputs' = inputs + 1
      /\ UNCHANGED <<browser, views, job, worker, reads, done, app, refused>>
  BY DEF UserCloses
<1>3. host.view \in HostViews BY <1>1, <1>2 DEF TypeOK, HostType
<1>4. m \in Message /\ inbox \in Seq(Message) BY <1>1, <1>3 DEF TypeOK, Message, Bodies
<1>5. m.kind = "closed" /\ m.view = host.view /\ m.revision = Hidden OBVIOUS
<1> HIDE DEF m
<1>6. /\ DOMAIN inbox' = DOMAIN inbox \cup {Len(inbox) + 1}
      /\ \A i \in DOMAIN inbox : inbox'[i] = inbox[i]
      /\ inbox'[Len(inbox) + 1] = m
  BY <1>2, <1>4, AppendAt
<1>7. inbox' \in Seq(Message) /\ inputs' \in 0 .. MaxInputs
  BY <1>1, <1>2, <1>4, BoundAssumption DEF TypeOK
<1>8. Steady BY <1>1, <1>2, TaskStays
<1>9. ~Shared' /\ host'.view = NoView /\ host'.revision = Hidden
  BY <1>2 DEF Shared, Closed
<1>10. Typed'
  <2>1. host' \in HostType
    BY <1>2 DEF Closed, Bodies, HostType
  <2>2. TypeOK' BY <1>1, <1>2, <1>7, <2>1 DEF TypeOK
  <2> QED BY <1>2, <2>2 DEF Inv, Typed
<1>11. AllFit' BY <1>2, <1>8, <1>9 DEF Inv, AllFit, Fits, Steady
<1>12. Attached' BY <1>2 DEF Inv, Attached, Working
<1>13. Buffer' BY <1>2, <1>9 DEF Inv, Buffer
<1>14. Messages'
  <2>1. \A i \in DOMAIN inbox : inbox[i].view \in HostViews
    <3>1. \A i \in DOMAIN inbox : inbox[i] \in Message BY <1>4
    <3> QED BY <3>1 DEF Message
  <2> QED BY <1>3, <1>5, <1>6, <1>9, <2>1, NothingAssumption DEF Inv, Messages
<1>15. Mirrored' BY <1>9 DEF Mirrored
<1>16. RowReads' BY <1>2 DEF Inv, RowReads, Reading
<1>17. Agree'
  <2>1. ASSUME NEW r, NEW q, NEW c, IsStamp(r, q, c)' PROVE IsStamp(r, q, c)
    BY <1>2, <1>5, <1>6, <1>8, <1>9, <2>1 DEF IsStamp, Steady
  <2>2. Agree BY DEF Inv
  <2> QED BY <2>1, <2>2 DEF Agree
<1>18. Suspended' BY <1>2 DEF Inv, Suspended
<1>19. Pruning' BY <1>2, PruningStays
<1>20. Loading' BY <1>9 DEF Loading
<1>21. NoConflict' BY <1>2 DEF Inv, NoConflict
<1> QED BY <1>8, <1>10, <1>11, <1>12, <1>13, <1>14, <1>15, <1>16, <1>17, <1>18, <1>19, <1>20,
           <1>21 DEF Inv, Steady

\* The application learns of it.
LEMMA TakeClosedKeeps ==
  ASSUME Inv, Fresh, TakeClosed
  PROVE  Inv'
<1>1. TypeOK /\ OneTask /\ Results BY DEF Inv, Typed
<1>2. /\ app.at = "idle" /\ inbox # << >> /\ Head(inbox).kind = "closed" /\ inbox' = Tail(inbox)
      /\ UNCHANGED <<host, worker, reads, done, app, refused, inputs>>
  BY DEF TakeClosed
<1>3. /\ inbox \in Seq(Message) /\ 1 \in DOMAIN inbox /\ Head(inbox) = inbox[1]
      /\ inbox' \in Seq(Message)
      /\ \A i \in DOMAIN inbox' : i + 1 \in DOMAIN inbox /\ inbox'[i] = inbox[i + 1]
  <2>1. inbox \in Seq(Message) BY <1>1 DEF TypeOK
  <2> QED BY <1>2, <2>1, TailAt
<1>4. Taken BY <1>1, <1>2, <1>3 DEF Taken, TypeOK
<1>5. CASE Head(inbox).view # browser.view
  <2>1. Quiet /\ job' = job BY <1>2, <1>5 DEF TakeClosed, Quiet
  <2>2. JobStays BY <1>1, <2>1 DEF TypeOK, JobStays
  <2> QED BY <1>1, <1>2, <1>4, <2>1, <2>2, CommandQuiet DEF TypeOK, Inv, Typed
<1>6. CASE Head(inbox).view = browser.view
  <2>1. Forget BY <1>6 DEF TakeClosed
  <2>2. browser' = NoBrowser /\ views' = << >>
        /\ job' = [job EXCEPT !.cancelled = (job.page # NoPage)]
    BY <2>1 DEF Forget
  <2>3. DOMAIN views' = {} /\ browser'.view = NoView /\ ~Shared' BY <2>2 DEF NoBrowser, Shared
  <2>4. inbox[1].view # host.view BY <1>2, <1>3 DEF Inv, Messages
  <2>5. host.view = NoView BY <1>3, <1>6, <2>4 DEF Inv, Buffer
  <2>6. JobStays
    <3>1. (job.page # NoPage) \in BOOLEAN OBVIOUS
    <3> QED BY <1>1, <2>2, <3>1, JobKept
  <2>7. Steady BY <1>1, <1>2, <2>6, TaskStays DEF JobStays
  <2>8. PagesTyped(views') BY <2>3, FS_EmptySet DEF PagesTyped
  <2>9. Typed'
    <3>1. browser' \in BrowserType
      BY <2>2 DEF NoBrowser, BrowserType
    <3>2. DOMAIN views' \subseteq Pages
          /\ \A q \in DOMAIN views' : views'[q] \in View /\ Cardinality(views'[q].position) <= 1
      BY <2>3
    <3>3. job' \in JobType BY <2>6 DEF JobStays
    <3>4. TypeOK' BY <1>1, <1>2, <1>3, <3>1, <3>2, <3>3 DEF TypeOK
    <3> QED BY <1>2, <2>8, <3>4 DEF Inv, Typed
  <2>10. AllFit' BY <2>3, <2>7 DEF Inv, AllFit, Fits, Steady
  <2>11. Attached' BY <1>1, <1>2, <2>3 DEF Attached, Working, Results
  <2>12. Buffer' BY <1>2, <2>2, <2>3, <2>5 DEF Inv, Buffer
  <2>13. Messages' BY <1>2, <1>4, TakenMessages
  <2>14. Mirrored' /\ RowReads' /\ Loading' BY <2>3 DEF Mirrored, RowReads, Loading
  <2>15. Agree'
    <3>1. ASSUME NEW r, NEW q, NEW c, IsStamp(r, q, c)' PROVE IsStamp(r, q, c)
      BY <1>2, <1>3, <2>3, <2>7, <3>1 DEF IsStamp, Steady
    <3>2. Agree BY DEF Inv
    <3> QED BY <3>1, <3>2 DEF Agree
  <2>16. Suspended' BY <1>2 DEF Inv, Suspended
  <2>17. Pruning' BY <1>2, <2>3, PruningStays
  <2>18. NoConflict' BY <1>2 DEF Inv, NoConflict
  <2> QED BY <2>7, <2>9, <2>10, <2>11, <2>12, <2>13, <2>14, <2>15, <2>16, <2>17, <2>18
          DEF Inv, Steady
<1> QED BY <1>5, <1>6

-----------------------------------------------------------------------------
(* The invariant is inductive.                                             *)

LEMMA InvInit == Init => Inv
<1> SUFFICES ASSUME Init PROVE Inv OBVIOUS
<1>1. /\ host = Closed /\ browser = NoBrowser /\ views = << >> /\ job = NoJob
      /\ worker = Stopped /\ reads = {} /\ done = << >> /\ app = Idle /\ inbox = << >>
      /\ refused = FALSE /\ inputs = 0
  BY DEF Init
<1>2. DOMAIN views = {} /\ DOMAIN done = {} /\ DOMAIN inbox = {} BY <1>1
<1>3. IsFiniteSet({}) /\ Cardinality({}) = 0 BY FS_EmptySet
<1>4. TypeOK
  <2>1. "text" \in Bodies /\ "loading" \in Bodies BY DEF Bodies, Documents
  <2>2. done \in Seq(Done) /\ inbox \in Seq(Message) BY <1>1
  <2>3. /\ host \in HostType
        /\ browser \in BrowserType
    BY <1>1, <2>1 DEF Closed, NoBrowser, HostType, BrowserType
  <2>4. /\ worker \in WorkerType
        /\ job \in JobType
        /\ app \in AppType
    BY <1>1, <2>1 DEF Stopped, NoJob, Idle, WorkerType, JobType, AppType
  <2>5. inputs \in 0 .. MaxInputs /\ refused \in BOOLEAN
    <3>1. inputs \in 0 .. MaxInputs BY <1>1, BoundAssumption
    <3>2. refused \in BOOLEAN BY <1>1, Zenon
    <3> QED BY <3>1, <3>2
  <2> QED BY <1>1, <1>2, <2>2, <2>3, <2>4, <2>5 DEF TypeOK
<1>5. Typed BY <1>1, <1>2, <1>3, <1>4 DEF Typed, PagesTyped
<1>6. ~Working /\ Fulls = {} /\ Tasks = {} BY <1>1, <1>2 DEF Working, Stopped, Fulls, Tasks
<1>7. OneTask /\ Results /\ AllFit /\ Attached
  BY <1>1, <1>2, <1>6 DEF OneTask, Results, AllFit, Attached, NoJob
<1>8. ~Shared /\ Buffer BY <1>1, <1>2 DEF Shared, Buffer, NoBrowser, Closed
<1>9. Messages /\ Mirrored /\ RowReads /\ Loading
  BY <1>2, <1>8 DEF Messages, Mirrored, RowReads, Loading
<1>10. Agree
  <2>1. ASSUME NEW r, NEW p, NEW b PROVE ~IsStamp(r, p, b)
    BY <1>1, <1>2, <1>6 DEF IsStamp, Closed
  <2> QED BY <2>1 DEF Agree
<1>11. Suspended /\ NoConflict
  <2>1. Suspended BY <1>1 DEF Suspended, Idle
  <2>2. NoConflict BY <1>1, Zenon DEF NoConflict
  <2> QED BY <2>1, <2>2
<1>12. Pruning
  <2>1. DOMAIN views \ (IF app.created THEN {app.page} ELSE {}) = {} BY <1>2
  <2> QED BY <1>3, <2>1, PageAssumption DEF Pruning
<1> QED BY <1>5, <1>7, <1>8, <1>9, <1>10, <1>11, <1>12 DEF Inv

LEMMA CommandKeeps ==
  ASSUME Inv, Fresh, Command
  PROVE  Inv'
<1>1. PICK m : \/ Refuse(m) \/ Descend(m) \/ Ascend(m) \/ Turn(m) \/ Refresh(m)
               \/ ShowFull(m) \/ Toggle(m) \/ CancelJob(m)
  BY DEF Command
<1> QED BY <1>1, RefuseKeeps, DescendKeeps, AscendKeeps, TurnKeeps, RefreshKeeps, ShowFullKeeps,
           ToggleKeeps, CancelJobKeeps

LEMMA InvNext == Endless /\ Inv /\ [Next]_vars => Inv'
<1> SUFFICES ASSUME Endless, Inv, [Next]_vars PROVE Inv' OBVIOUS
<1>1. Fresh BY FreshNames DEF Inv
<1>2. CASE Command BY <1>1, <1>2, CommandKeeps
<1>3. CASE Elsewhere BY <1>1, <1>3, ElsewhereKeeps
<1>4. CASE TakeClosed BY <1>1, <1>4, TakeClosedKeeps
<1>5. CASE Resume BY <1>1, <1>5, ResumeKeeps
<1>6. CASE Load \/ Stage \/ Written \/ Abandon BY <1>1, <1>6, WorksKeeps
<1>7. CASE Commit BY <1>1, <1>7, CommitKeeps
<1>8. CASE Report BY <1>1, <1>8, ReportKeeps
<1>9. CASE \E p \in reads : ReadEnds(p) BY <1>1, <1>9, ReadEndsKeeps
<1>10. CASE CompleteRead BY <1>1, <1>10, CompleteReadKeeps
<1>11. CASE Loaded BY <1>1, <1>11, LoadedKeeps
<1>12. CASE LoadFailed BY <1>1, <1>12, LoadFailedKeeps
<1>13. CASE Invoke BY <1>1, <1>13, InvokeKeeps
<1>14. CASE UserCloses BY <1>1, <1>14, UserClosesKeeps
<1>15. CASE HostCancels BY <1>1, <1>15, HostCancelsKeeps
<1>16. CASE StatusChanges BY <1>1, <1>16, StatusChangesKeeps
<1>17. CASE UNCHANGED vars BY <1>1, <1>17, NothingKeeps
<1> QED BY <1>2, <1>3, <1>4, <1>5, <1>6, <1>7, <1>8, <1>9, <1>10, <1>11, <1>12, <1>13, <1>14,
           <1>15, <1>16, <1>17 DEF Next

-----------------------------------------------------------------------------
(* What it says.                                                           *)

LEMMA InvShown == Inv => Shown
<1> SUFFICES ASSUME Inv PROVE Shown OBVIOUS
<1>1. NoConflict BY DEF Inv
<1>2. PositionFits
  <2> SUFFICES ASSUME NEW p \in DOMAIN views, NEW q \in views[p].position,
                      q.revision = views[p].revision
               PROVE  q.body = views[p].body
    BY DEF PositionFits
  <2>1. q \in Position BY DEF Inv, Typed, PagesTyped, IsView
  <2>2. q = [revision |-> q.revision, body |-> q.body] /\ q.revision # Hidden
    BY <2>1, PageAssumption DEF Position, Hidden
  <2>3. IsStamp(q.revision, p, q.body) BY <2>2 DEF IsStamp
  <2>4. IsStamp(q.revision, p, views[p].body) BY <2>2 DEF IsStamp
  <2> QED BY <2>3, <2>4 DEF Inv, Agree
<1>3. ~Ended(browser.page) => Settled(browser.page)
  <2> SUFFICES ASSUME ~Ended(browser.page), NEW w \in Tasks, w.page = browser.page
               PROVE  w.result = Hidden
    BY DEF Settled
  <2>1. CASE Working /\ w = Task(worker) BY <2>1 DEF Ended, Task
  <2>2. CASE \E i \in Fulls : w = Task(done[i]) BY <2>2 DEF Ended, Task, Fulls
  <2> QED BY <2>1, <2>2 DEF Tasks
<1> QED BY <1>1, <1>2, <1>3 DEF Shown, Inv, Mirrored, Mirrors

LEMMA InvSeen == Inv => SeenIsActed
<1> SUFFICES ASSUME Inv, NEW i \in DOMAIN inbox, inbox[i].kind = "invoke", Accepts(inbox[i])
             PROVE  inbox[i].page = browser.page /\ inbox[i].body = views[browser.page].body
  BY DEF SeenIsActed
<1>1. inbox[i].revision # Hidden BY DEF Inv, Messages
<1>2. browser.page \in DOMAIN views /\ inbox[i].revision = views[browser.page].revision
  BY DEF Accepts
<1>3. IsStamp(inbox[i].revision, inbox[i].page, inbox[i].body) BY <1>1 DEF IsStamp
<1>4. IsStamp(inbox[i].revision, browser.page, views[browser.page].body)
  BY <1>1, <1>2 DEF IsStamp
<1> QED BY <1>3, <1>4 DEF Inv, Agree

LEMMA InvBounded == Inv => BoundedPages
<1> SUFFICES ASSUME Inv PROVE BoundedPages OBVIOUS
<1> DEFINE others == DOMAIN views \ (IF app.created THEN {app.page} ELSE {})
<1>1. TypeOK /\ IsFiniteSet(DOMAIN views) BY DEF Inv, Typed, PagesTyped
<1>2. Cardinality(others) <= MaxPages BY DEF Inv, Pruning
<1>3. IsFiniteSet(others)
  <2>1. others \in SUBSET DOMAIN views OBVIOUS
  <2> QED BY <1>1, <2>1, FS_Subset
<1>4. Cardinality(others) \in Nat BY <1>3, FS_CardinalityType
<1>5. CASE ~app.created
  <2>1. others = DOMAIN views BY <1>5
  <2> HIDE DEF others
  <2> QED BY <1>1, <1>2, <1>4, <1>5, <2>1, PageAssumption DEF BoundedPages
<1>6. CASE app.created
  <2>1. DOMAIN views \subseteq others \cup {app.page} BY <1>6
  <2> HIDE DEF others
  <2>2. IsFiniteSet(others \cup {app.page})
        /\ Cardinality(others \cup {app.page}) \in {Cardinality(others), Cardinality(others) + 1}
    BY <1>3, FS_AddElement
  <2>3. Cardinality(DOMAIN views) <= Cardinality(others \cup {app.page})
    BY <2>1, <2>2, FS_Subset
  <2>4. Cardinality(DOMAIN views) \in Nat BY <1>1, FS_CardinalityType
  <2>5. Cardinality(DOMAIN views) <= MaxPages + 1
    BY <1>2, <1>4, <2>2, <2>3, <2>4, PageAssumption
  <2> QED BY <1>1, <1>6, <2>5 DEF BoundedPages
<1> QED BY <1>5, <1>6

LEMMA InvLoading == Inv => LoadingEnds
<1> SUFFICES ASSUME Inv PROVE LoadingEnds OBVIOUS
<1>1. OneTask /\ Loading BY DEF Inv
<1>2. JobHasWorker
  <2> SUFFICES ASSUME job.page # NoPage
               PROVE  \/ worker.at # "stopped" /\ worker.page = job.page
                      \/ \E i \in DOMAIN done : done[i].kind = "full" /\ done[i].page = job.page
    BY DEF JobHasWorker
  <2>1. CASE Working BY <1>1, <2>1 DEF OneTask, Working
  <2>2. CASE Fulls # {} BY <1>1, <2>2 DEF OneTask, Fulls
  <2> QED BY <1>1, <2>1, <2>2 DEF OneTask
<1> QED BY <1>1, <1>2 DEF LoadingEnds, Loading

LEMMA InvHolds ==
  ASSUME Endless
  PROVE  Spec => []Inv
<1>1. Init => Inv BY InvInit
<1>2. Inv /\ [Next]_vars => Inv' BY InvNext
<1> QED BY <1>1, <1>2, PTL DEF Spec

\* The page in the user's buffer is the one the application would publish over, at
\* the revision it would name, but between the commit of a complete value and its
\* completion (full_value.rs commits without the application's task): so publish
\* never meets the conflict that would end the plugin, and show_page restores a
\* scroll position only to the content it was taken from.  The loop of run() takes
\* messages, completions and timers at random, so a completion may meet a buffer
\* whose view.closed is still queued, in the drain of show_page or out of it.
THEOREM BufferIsShown ==
  ASSUME Endless
  PROVE  Spec => []Shown
BY InvHolds, InvShown, PTL

\* resolve_browser_context and context_view accept an invocation only if its page
\* and content are what the user saw when giving it, through any number of
\* publications, closes and reopened buffers in between, by the worker, by commands
\* queued before it, or by completions and timers that run() takes before it.
THEOREM CommandsActOnWhatIsSeen ==
  ASSUME Endless
  PROVE  Spec => []SeenIsActed
BY InvHolds, InvSeen, PTL

\* prune_pages keeps MaxPages pages, and one more only while the command that
\* made it waits in show_page, whatever completions and closes drop meanwhile: the
\* types are right throughout.
THEOREM PagesAreBounded ==
  ASSUME Endless
  PROVE  Spec => []BoundedPages
BY InvHolds, InvBounded, PTL

\* App::full_jobs has a worker or its completion behind it, and a page that says
\* it is loading has that job, or a buffer that is closed, whose view.closed the
\* application may not have taken when it takes the completion.
THEOREM LoadingHasItsWorker ==
  ASSUME Endless
  PROVE  Spec => []LoadingEnds
BY InvHolds, InvLoading, PTL

=============================================================================
