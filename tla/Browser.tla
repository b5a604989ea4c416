------------------------------- MODULE Browser -------------------------------
(***************************************************************************)
(* The one native buffer of the plugin and its pages (app/browser.rs,      *)
(* create and publish in app/mod.rs), the reads that finish behind a page  *)
(* (app/lifecycle.rs), and the worker that loads a complete value and      *)
(* publishes it by itself, through a stage (app/full_value.rs).            *)
(*                                                                         *)
(* Application, worker, user and host run concurrently.  The host accepts  *)
(* a publication only against the revision it holds.  The application is   *)
(* one task: nothing of it changes while it awaits a reply, so a request,  *)
(* its processing by the host and the code that follows are one step.  The *)
(* exception is the drain in show_page, which takes completions.           *)
(***************************************************************************)
EXTENDS Integers, Sequences, FiniteSets, Functions

CONSTANTS
  Pages,        \* "page:n"
  HostViews,    \* the identities the host gives to native buffers
  Revisions,    \* the revisions the host gives to their models
  NoPage, NoView,
  MaxPages,     \* the twelve ancestors prune_pages keeps
  MaxReads,     \* bound: reads under way at once
  MaxInbox,     \* bound: messages of the host not yet taken
  MaxInputs     \* bound: what the user does, and timers and ends of leases

ASSUME NothingAssumption == NoPage \notin Pages /\ NoView \notin HostViews
ASSUME PageAssumption == MaxPages \in Nat \ {0} /\ 0 \notin Revisions
ASSUME BoundAssumption == MaxReads \in Nat /\ MaxInbox \in Nat /\ MaxInputs \in Nat

VARIABLES
  host,     \* the buffer the user sees: its identity, revision, page and body
  browser,  \* App::browser
  views,    \* App::views: the pages kept
  job,      \* App::full_jobs: the page of the complete value, if cancelled
  worker,   \* the task that loads and publishes it
  reads,    \* the pages whose database read is under way
  done,     \* the completion channel
  app,      \* the command suspended in show_page, if one is
  inbox,    \* messages of the host: invocations, and view.closed
  refused,  \* the host has refused a publication as a conflict
  inputs    \* counts what the user and the timers do

vars == <<host, browser, views, job, worker, reads, done, app, inbox, refused,
          inputs>>

(* What a page shows.  Rows have two variants, and so has a complete value *)
(* once it is no longer loading: formatted and raw text.                   *)
Rows == {"rows0", "rows1"}
Plain == Rows \cup {"value"}
Documents == {"text", "raw"}
Bodies == Plain \cup Documents \cup {"loading"}
Turned == [rows0 |-> "rows1", rows1 |-> "rows0", text |-> "raw", raw |-> "text"]

Hidden == 0   \* "hidden:n" and "unpublished:n": never a revision of the host
Closed == [view |-> NoView, revision |-> Hidden, page |-> NoPage,
           body |-> "loading"]
NoBrowser == [view |-> NoView, revision |-> Hidden, page |-> NoPage]
NoJob == [page |-> NoPage, cancelled |-> FALSE]
Stopped == [at |-> "stopped", page |-> NoPage, view |-> NoView,
            expected |-> Hidden, body |-> "text", result |-> Hidden]
Idle == [at |-> "idle", page |-> NoPage, created |-> FALSE, from |-> NoPage]

Shared == browser.view # NoView /\ host.view = browser.view
Position == [revision : Revisions, body : Bodies]

UsedPages ==
  DOMAIN views \cup {views[p].parent : p \in DOMAIN views} \cup reads
    \cup {job.page, worker.page, app.page, app.from, browser.page, host.page}
    \cup {done[i].page : i \in DOMAIN done} \cup {inbox[i].page : i \in DOMAIN inbox}
UsedRevisions ==
  {host.revision, browser.revision, worker.expected, worker.result}
    \cup {views[p].revision : p \in DOMAIN views}
    \cup {q.revision : q \in UNION {views[p].position : p \in DOMAIN views}}
    \cup {done[i].expected : i \in DOMAIN done}
    \cup {done[i].result : i \in DOMAIN done}
    \cup {inbox[i].revision : i \in DOMAIN inbox}
UsedViews == {host.view, browser.view, worker.view}
               \cup {inbox[i].view : i \in DOMAIN inbox}
NewPage == CHOOSE p \in Pages \ UsedPages : TRUE
NewRevision == CHOOSE r \in Revisions \ UsedRevisions : TRUE
NewView == CHOOSE v \in HostViews \ UsedViews : TRUE

Page(body, parent) == [revision |-> Hidden, body |-> body, parent |-> parent,
                       position |-> {}]
Add(f, p, page) == [q \in DOMAIN f \cup {p} |-> IF q = p THEN page ELSE f[q]]
Remove(f, p) == Restrict(f, DOMAIN f \ {p})

Init ==
  /\ host = Closed
  /\ browser = NoBrowser
  /\ views = << >>
  /\ job = NoJob /\ worker = Stopped
  /\ reads = {} /\ done = << >>
  /\ app = Idle /\ inbox = << >>
  /\ refused = FALSE /\ inputs = 0

-----------------------------------------------------------------------------
(* Pages.                                                                  *)

(* The page and its ancestors, up to the limit or a page that is gone.     *)
Chain(f, p) ==
  LET up[n \in 0 .. MaxPages] ==
        IF n = 0 THEN p
        ELSE IF up[n - 1] \in DOMAIN f THEN f[up[n - 1]].parent ELSE NoPage
  IN {up[n] : n \in 0 .. MaxPages - 1}

\* Mutant: the pages a new one does not descend from are kept.
PrunedNothing(f, p) == f

Pruned(f, p) == Restrict(f, DOMAIN f \cap Chain(f, p))

(* Pruning cancels the job of a page it drops. *)
Cancelled(f) ==
  job' = [job EXCEPT !.cancelled = @ \/ (job.page # NoPage /\ job.page \notin DOMAIN f)]

(* close_browser: the pages go, and the job of any of them is cancelled. *)
Forget == /\ browser' = NoBrowser
          /\ views' = << >>
          /\ job' = [job EXCEPT !.cancelled = job.page # NoPage]

(* capture_page_position: the selection of the pane, with the revision of  *)
(* the page that is shown.                                                 *)
Captured(f, from) ==
  IF from = browser.page /\ from \in DOMAIN f /\ Shared
  THEN [f EXCEPT ![from].position =
          {[revision |-> f[from].revision, body |-> host.body]}]
  ELSE f

(* The rest of show_page, once no job stands in the way.  `Kept` is what   *)
(* the caller does with the pages afterwards.                              *)
Present(f, p, created, from) ==
  LET g == Captured(f, from)
      shown == IF p \in DOMAIN g THEN [g EXCEPT ![p].revision = NewRevision] ELSE g
      failed == IF created THEN Remove(g, p) ELSE g
  IN
  \/ /\ p \in DOMAIN g /\ browser.view = NoView           \* view.create
     /\ host' = [view |-> NewView, revision |-> NewRevision, page |-> p,
                 body |-> g[p].body]
     /\ browser' = [view |-> NewView, revision |-> NewRevision, page |-> p]
     /\ views' = IF created THEN Pruned(shown, p) ELSE shown
     /\ Cancelled(views')
     /\ UNCHANGED refused
  \/ /\ p \in DOMAIN g /\ browser.view = NoView           \* pane.show fails
     /\ Forget
     /\ UNCHANGED <<host, refused>>
  \/ /\ p \in DOMAIN g /\ Shared /\ host.revision = browser.revision
     /\ host' = [host EXCEPT !.revision = NewRevision, !.page = p, !.body = g[p].body]
     /\ browser' = [browser EXCEPT !.revision = NewRevision, !.page = p]
     /\ views' = IF created THEN Pruned(shown, p) ELSE shown
     /\ Cancelled(views')
     /\ UNCHANGED refused
  \/ /\ browser.view # NoView \/ p \notin DOMAIN g        \* refused, or closed
     /\ views' = failed
     /\ refused' = (refused \/ (Shared /\ host.revision # browser.revision))
     /\ UNCHANGED <<host, browser, job>>

(* show_page.  The page that is left may have a job of its own: cancelled, *)
(* its end is awaited first.                                               *)
Show(f, p, created, from) ==
  \/ /\ job.page # NoPage /\ job.page = browser.page
     /\ job' = [job EXCEPT !.cancelled = TRUE]
     /\ views' = f
     /\ app' = [at |-> "drain", page |-> p, created |-> created, from |-> from]
     /\ UNCHANGED <<host, browser, refused>>
  \/ /\ job.page = NoPage \/ job.page # browser.page
     /\ app' = Idle
     /\ Present(f, p, created, from)

(* create. *)
Create(body, parent) ==
  Show(Add(views, NewPage, Page(body, parent)), NewPage, TRUE, parent)

(* App::back. *)
Back(p, from) ==
  IF p \in DOMAIN views THEN Show(views, p, FALSE, from) ELSE Create("rows0", from)

(* Drained: the command goes on. *)
Resume ==
  /\ app.at = "drain"
  /\ job.page = NoPage \/ job.page # browser.page
  /\ app' = Idle
  /\ Present(views, app.page, app.created, app.from)
  /\ UNCHANGED <<worker, reads, done, inbox, inputs>>

(* publish: the page that is shown gets a revision from the host, or is    *)
(* dropped when the host has closed the buffer; another is only updated.   *)
Published(S, b) ==
  LET lost == {p \in S : p = browser.page /\ host.view # browser.view}
      fresh == NewRevision
  IN [p \in DOMAIN views \ lost |->
        IF p \notin S THEN views[p]
        ELSE [views[p] EXCEPT !.body = b[p],
                !.revision = IF p = browser.page THEN fresh ELSE Hidden]]

\* Mutant: a result behind the page is published over the page that is shown.
PublishOverShown(S, b) ==
  /\ views' = Published(S, b)
  /\ UNCHANGED refused
  /\ IF S # {} /\ Shared
     THEN /\ host' = [host EXCEPT !.revision = NewRevision,
                                 !.body = b[CHOOSE p \in S : TRUE]]
          /\ browser' = [browser EXCEPT !.revision = NewRevision]
     ELSE UNCHANGED <<host, browser>>

(* The pages of S change to the bodies b.  A conflict ends the plugin.     *)
Publish(S, b) ==
  /\ views' = Published(S, b)
  /\ refused' = (refused \/ (browser.page \in S /\ Shared /\ host.revision # browser.revision))
  /\ IF browser.page \in S /\ Shared /\ host.revision = browser.revision
     THEN /\ host' = [host EXCEPT !.revision = NewRevision, !.body = b[browser.page]]
          /\ browser' = [browser EXCEPT !.revision = NewRevision]
     ELSE UNCHANGED <<host, browser>>

-----------------------------------------------------------------------------
(* Commands.                                                               *)

(* An invocation names the buffer and the revision it was made at.         *)
Invocation(m) ==
  /\ app.at = "idle" /\ inbox # << >> /\ m = Head(inbox)
  /\ m.kind = "invoke"
  /\ inbox' = Tail(inbox)
  /\ UNCHANGED inputs

\* Mutant: the revision of an invocation is not compared.
AcceptsAny(m) ==
  m.view = browser.view /\ m.view # NoView /\ browser.page \in DOMAIN views

(* resolve_browser_context and context_view.                               *)
Accepts(m) ==
  /\ m.view = browser.view /\ m.view # NoView
  /\ browser.page \in DOMAIN views
  /\ m.revision = browser.revision /\ m.revision = views[browser.page].revision

(* A stale invocation, or one the page does not allow, is only answered.    *)
Refuse(m) ==
  /\ Invocation(m)
  /\ UNCHANGED <<host, browser, views, job, worker, reads, done, app, refused>>

(* A child: the rows of a record, a preview, filters, a review.            *)
Descend(m) ==
  /\ Invocation(m) /\ Accepts(m)
  /\ \E body \in {"rows0", "value"} : Create(body, browser.page)
  /\ UNCHANGED <<worker, reads, done>>

Ascend(m) ==
  /\ Invocation(m) /\ Accepts(m)
  /\ Back(views[browser.page].parent, browser.page)
  /\ UNCHANGED <<worker, reads, done>>

(* Next, previous, a record.                                               *)
Turn(m) ==
  /\ Invocation(m) /\ Accepts(m)
  /\ views[browser.page].body \in Rows
  /\ Publish({browser.page}, [q \in {browser.page} |-> Turned[views[q].body]])
  /\ UNCHANGED <<job, worker, reads, done, app>>

(* A read, which another command does not wait for.                        *)
Refresh(m) ==
  /\ Invocation(m) /\ Accepts(m)
  /\ views[browser.page].body \in Rows
  /\ Cardinality(reads) < MaxReads
  /\ reads' = reads \cup {browser.page}
  /\ UNCHANGED <<host, browser, views, job, worker, done, app, refused>>

(* show_full_value: a new page, or the other form of the same one.         *)
Begin(p, revision, body) ==
  /\ job' = [page |-> p, cancelled |-> FALSE]
  /\ worker' = [at |-> "reading", page |-> p, view |-> browser'.view,
                expected |-> revision, body |-> body, result |-> Hidden]

Free == job.page = NoPage /\ worker.at = "stopped"

ShowFull(m) ==
  /\ Invocation(m) /\ Accepts(m) /\ Free
  /\ LET p == NewPage
         from == views[browser.page]
         up == IF from.body = "value" THEN from.parent ELSE browser.page
         f == Captured(Add(views, p, Page("loading", browser.page)), browser.page)
         g == Pruned([f EXCEPT ![p].revision = NewRevision], p)
     IN
     /\ from.body \in Plain
     /\ IF Shared
        THEN \/ /\ host' = [host EXCEPT !.revision = NewRevision, !.page = p,
                              !.body = "loading"]
                /\ browser' = [browser EXCEPT !.revision = NewRevision, !.page = p]
                /\ views' = [g EXCEPT ![p].parent = up]
                /\ Begin(p, NewRevision, "text")
             \/ /\ views' = Remove(f, p)          \* pane.show is refused
                /\ UNCHANGED <<host, browser, job, worker>>
        ELSE UNCHANGED <<host, browser, views, job, worker>>
  /\ UNCHANGED <<reads, done, app, refused>>

Toggle(m) ==
  /\ Invocation(m) /\ Accepts(m) /\ Free
  /\ views[browser.page].body \in Documents
  /\ UNCHANGED <<host, browser, views, reads, done, app, refused>>
  /\ Begin(browser.page, views[browser.page].revision, Turned[views[browser.page].body])

CancelJob(m) ==
  /\ Invocation(m) /\ Accepts(m)
  /\ job.page = browser.page
  /\ job' = [job EXCEPT !.cancelled = TRUE]
  /\ UNCHANGED <<host, browser, views, worker, reads, done, app, refused>>

(* Commands of an SQL buffer and answers to prompts: they name a page, or  *)
(* no page, without a revision of the buffer.  They share the queue of the *)
(* host with what is in the inbox: this one was sent before the rest.      *)
Elsewhere ==
  /\ app.at = "idle"
  /\ inputs < MaxInputs /\ inputs' = inputs + 1
  /\ \/ \E p \in DOMAIN views : Back(p, NoPage)
     \/ \E p \in DOMAIN views \cup {NoPage} : Create("rows0", p)
  /\ UNCHANGED <<worker, reads, done, inbox>>

(* view.closed. *)
TakeClosed ==
  /\ app.at = "idle" /\ inbox # << >> /\ Head(inbox).kind = "closed"
  /\ inbox' = Tail(inbox)
  /\ IF Head(inbox).view = browser.view THEN Forget
                                        ELSE UNCHANGED <<browser, views, job>>
  /\ UNCHANGED <<host, worker, reads, done, app, refused, inputs>>

Command == \E m \in {inbox[i] : i \in DOMAIN inbox} :
  \/ Refuse(m) \/ Descend(m) \/ Ascend(m) \/ Turn(m) \/ Refresh(m)
  \/ ShowFull(m) \/ Toggle(m) \/ CancelJob(m)

-----------------------------------------------------------------------------
(* The worker of a complete value.                                         *)

Worker(at) == worker.at = at /\ UNCHANGED <<browser, views, job, reads, app, inbox, inputs>>

(* The document is loaded and encoded, then offered to the host in a stage *)
(* that is bound to the revision of the page.                              *)
Load ==
  /\ Worker("reading")
  /\ worker' = [worker EXCEPT !.at = "staging"]
  /\ UNCHANGED <<host, done, refused>>

Stage ==
  /\ Worker("staging") /\ ~job.cancelled
  /\ IF host.view = worker.view /\ host.revision = worker.expected
     THEN worker' = [worker EXCEPT !.at = "writing"]
     ELSE worker' = [worker EXCEPT !.at = "ended"]
  /\ refused' = (refused \/ (host.view = worker.view /\ host.revision # worker.expected))
  /\ UNCHANGED <<host, done>>

Written ==
  /\ Worker("writing") /\ ~job.cancelled
  /\ worker' = [worker EXCEPT !.at = "committing"]
  /\ UNCHANGED <<host, done, refused>>

(* The host installs the document, or refuses it: the buffer is closed.    *)
Commit ==
  /\ Worker("committing")
  /\ IF host.view = worker.view /\ host.revision = worker.expected
     THEN /\ host' = [host EXCEPT !.revision = NewRevision, !.body = worker.body]
          /\ worker' = [worker EXCEPT !.at = "ended", !.result = NewRevision]
     ELSE /\ worker' = [worker EXCEPT !.at = "ended"]
          /\ UNCHANGED host
  /\ refused' = (refused \/ (host.view = worker.view /\ host.revision # worker.expected))
  /\ UNCHANGED done

(* The work fails: cancelled, too large, unreadable, or past its deadline. *)
(* A commit that has not been installed is withdrawn with its stage.       *)
Abandon ==
  /\ worker.at \in {"reading", "staging", "writing", "committing"}
  /\ Worker(worker.at)
  /\ worker' = [worker EXCEPT !.at = "ended"]
  /\ UNCHANGED <<host, done, refused>>

\* Mutant: a cancelled worker ends without a completion.
ReportUncancelled ==
  /\ Worker("ended")
  /\ done' = IF job.cancelled /\ worker.result = Hidden THEN done
             ELSE Append(done, [kind |-> "full", page |-> worker.page,
               expected |-> worker.expected, body |-> worker.body,
               result |-> worker.result])
  /\ worker' = Stopped
  /\ UNCHANGED <<host, refused>>

Report ==
  /\ Worker("ended")
  /\ done' = Append(done, [kind |-> "full", page |-> worker.page,
               expected |-> worker.expected, body |-> worker.body,
               result |-> worker.result])
  /\ worker' = Stopped
  /\ UNCHANGED <<host, refused>>

(* A database read ends.                                                   *)
ReadEnds(p) ==
  /\ p \in reads
  /\ reads' = reads \ {p}
  /\ done' = Append(done, [kind |-> "read", page |-> p, expected |-> Hidden,
                           body |-> "rows0", result |-> Hidden])
  /\ UNCHANGED <<host, browser, views, job, worker, app, inbox, refused, inputs>>

-----------------------------------------------------------------------------
(* Completions.  The loop of the application takes a completion, a message *)
(* or the timer at random, so a completion may overtake what the host has  *)
(* sent before it; the drain in show_page takes completions alone.         *)

Completion(kind) ==
  /\ done # << >> /\ Head(done).kind = kind
  /\ done' = Tail(done)
  /\ UNCHANGED <<worker, reads, app, inbox, inputs>>

(* refresh_status leaves complete values alone. *)
Status == {p \in DOMAIN views : views[p].body \in Plain}

(* The rows of a read replace those of their page; the status of the       *)
(* connection changes what any other page with its name shows.             *)
CompleteRead ==
  /\ Completion("read")
  /\ LET p == Head(done).page
         rows == IF p \in DOMAIN views THEN {p} ELSE {}
     IN \E S \in SUBSET Status :
          Publish(S \cup rows,
            [q \in S \cup rows |-> IF q = p THEN Turned[views[q].body] ELSE views[q].body])
  /\ UNCHANGED job

(* The status of a connection also changes by its timer, by the host that  *)
(* cancels its lease, and by commands: the loop takes these while no other *)
(* command is suspended, and pages that show the status are redrawn.       *)
StatusChanges ==
  /\ app.at = "idle"
  /\ inputs < MaxInputs /\ inputs' = inputs + 1
  /\ \E S \in SUBSET Status : Publish(S, [q \in S |-> views[q].body])
  /\ UNCHANGED <<job, worker, reads, done, app, inbox>>

(* complete_full_value: the page still shows what the worker started from. *)
Current(d) == d.page \in DOMAIN views /\ views[d.page].revision = d.expected

Loaded ==
  /\ Completion("full") /\ Head(done).result # Hidden
  /\ LET d == Head(done) IN
     /\ browser' = IF browser.page = d.page THEN [browser EXCEPT !.revision = d.result]
                                            ELSE browser
     /\ views' = IF Current(d)
                 THEN [views EXCEPT ![d.page].body = d.body, ![d.page].revision = d.result]
                 ELSE views
  /\ job' = NoJob
  /\ UNCHANGED <<host, refused>>

\* Mutant: a cancelled load leaves its page as it is.
LoadFailedCancelled ==
  /\ Completion("full") /\ Head(done).result = Hidden
  /\ LET p == Head(done).page
         S == IF Current(Head(done)) /\ views[p].body = "loading" /\ ~job.cancelled
              THEN {p} ELSE {}
     IN IF p = browser.page /\ ~Shared
        THEN UNCHANGED <<host, browser, views, refused>>
        ELSE Publish(S, [q \in S |-> "value"])
  /\ job' = NoJob

(* A page without a document becomes its preview again. *)
LoadFailed ==
  /\ Completion("full") /\ Head(done).result = Hidden
  /\ LET p == Head(done).page
         S == IF Current(Head(done)) /\ views[p].body = "loading" THEN {p} ELSE {}
     IN IF p = browser.page /\ ~Shared
        THEN UNCHANGED <<host, browser, views, refused>>
        ELSE Publish(S, [q \in S |-> "value"])
  /\ job' = NoJob

-----------------------------------------------------------------------------
(* The user and the host.                                                  *)

Invoke ==
  /\ host.view # NoView /\ Len(inbox) < MaxInbox
  /\ inputs < MaxInputs /\ inputs' = inputs + 1
  /\ inbox' = Append(inbox, [kind |-> "invoke", view |-> host.view,
       revision |-> host.revision, page |-> host.page, body |-> host.body])
  /\ UNCHANGED <<host, browser, views, job, worker, reads, done, app, refused>>

UserCloses ==
  /\ host.view # NoView /\ Len(inbox) < MaxInbox
  /\ inputs < MaxInputs /\ inputs' = inputs + 1
  /\ host' = Closed
  /\ inbox' = Append(inbox, [kind |-> "closed", view |-> host.view,
       revision |-> Hidden, page |-> NoPage, body |-> "loading"])
  /\ UNCHANGED <<browser, views, job, worker, reads, done, app, refused>>

(* job.cancel from the host, at any time. *)
HostCancels ==
  /\ job.page # NoPage /\ ~job.cancelled
  /\ job' = [job EXCEPT !.cancelled = TRUE]
  /\ UNCHANGED <<host, browser, views, worker, reads, done, app, inbox, refused, inputs>>

Next ==
  \/ Command \/ Elsewhere \/ TakeClosed \/ Resume
  \/ Load \/ Stage \/ Written \/ Commit \/ Abandon \/ Report
  \/ \E p \in reads : ReadEnds(p)
  \/ CompleteRead \/ StatusChanges \/ Loaded \/ LoadFailed
  \/ Invoke \/ UserCloses \/ HostCancels

(* The worker has a deadline of sixty seconds at every await, and the      *)
(* application task takes what is in its channels.                         *)
Fairness ==
  /\ WF_vars(Load \/ Stage \/ Written \/ Commit \/ Abandon \/ Report)
  /\ WF_vars(CompleteRead \/ Loaded \/ LoadFailed)
  /\ WF_vars(Resume)

Spec == Init /\ [][Next]_vars /\ Fairness

-----------------------------------------------------------------------------
(* Properties.                                                             *)

View == [revision : Revisions \cup {Hidden}, body : Bodies,
         parent : Pages \cup {NoPage}, position : SUBSET Position]
Done == [kind : {"full", "read"}, page : Pages, expected : Revisions \cup {Hidden},
         body : Bodies, result : Revisions \cup {Hidden}]
Message == [kind : {"invoke", "closed"}, view : HostViews,
            revision : Revisions \cup {Hidden}, page : Pages \cup {NoPage}, body : Bodies]

HostType == [view : HostViews \cup {NoView}, revision : Revisions \cup {Hidden},
             page : Pages \cup {NoPage}, body : Bodies]
BrowserType == [view : HostViews \cup {NoView}, revision : Revisions \cup {Hidden},
                page : Pages \cup {NoPage}]
JobType == [page : Pages \cup {NoPage}, cancelled : BOOLEAN]
WorkerType == [at : {"reading", "staging", "writing", "committing", "ended", "stopped"},
               page : Pages \cup {NoPage}, view : HostViews \cup {NoView},
               expected : Revisions \cup {Hidden}, body : Bodies,
               result : Revisions \cup {Hidden}]
AppType == [at : {"idle", "drain"}, page : Pages \cup {NoPage}, created : BOOLEAN,
            from : Pages \cup {NoPage}]

(* The types of the host's and the application's records.                  *)
TypeOK ==
  /\ host \in HostType /\ browser \in BrowserType
  /\ DOMAIN views \subseteq Pages
  /\ \A p \in DOMAIN views : views[p] \in View /\ Cardinality(views[p].position) <= 1
  /\ job \in JobType /\ worker \in WorkerType /\ app \in AppType
  /\ reads \subseteq Pages
  /\ done \in Seq(Done) /\ inbox \in Seq(Message)
  /\ refused \in BOOLEAN /\ inputs \in 0 .. MaxInputs

(* No publication meets a conflict, although the worker publishes to the   *)
(* revision of the application's buffer behind its back (browser.rs:67).   *)
(* A conflict in publish would end the plugin.                             *)
NoConflict == ~refused

Ended(p) == \/ worker.page = p /\ worker.result # Hidden
            \/ \E i \in DOMAIN done : done[i].page = p /\ done[i].result # Hidden

(* A saved scroll position that show_page would restore was taken from the *)
(* content the page still has.                                             *)
PositionFits == \A p \in DOMAIN views : \A q \in views[p].position :
  q.revision = views[p].revision => q.body = views[p].body

(* What the user sees is the page the application holds for the buffer,    *)
(* at the revision it would publish against, unless the document of that   *)
(* page has been installed and its completion is on the way; and whatever  *)
(* it shows next finds neither a conflict nor another content's position.  *)
Shown ==
  /\ NoConflict /\ PositionFits
  /\ Shared /\ ~Ended(browser.page) =>
       /\ host.page = browser.page /\ host.revision = browser.revision
       /\ browser.page \in DOMAIN views
       /\ views[browser.page].body = host.body
       /\ views[browser.page].revision = host.revision

(* A command is only accepted for the page and the content that the user   *)
(* saw when giving it, however the buffer has changed since: completions,  *)
(* timers and closes may all come between, at the random choice of run().  *)
SeenIsActed == \A i \in DOMAIN inbox :
  inbox[i].kind = "invoke" /\ Accepts(inbox[i]) =>
    /\ inbox[i].page = browser.page
    /\ inbox[i].body = views[browser.page].body

(* At most twelve pages are kept, and one more while it is being shown,    *)
(* though commands add and prune pages and completions and closes drop     *)
(* them, in any order.                                                     *)
BoundedPages ==
  /\ TypeOK
  /\ Cardinality(DOMAIN views) <= MaxPages + (IF app.created THEN 1 ELSE 0)

(* One display job: whoever has the job has the worker or its completion.  *)
JobHasWorker == job.page # NoPage =>
  \/ worker.at # "stopped" /\ worker.page = job.page
  \/ \E i \in DOMAIN done : done[i].kind = "full" /\ done[i].page = job.page

(* A page that says "loading" has the job, and so a worker or a completion *)
(* that will replace it, unless the buffer is closed under it: that        *)
(* completion may be taken while view.closed is still queued.              *)
LoadingEnds ==
  /\ JobHasWorker
  /\ \A p \in DOMAIN views : views[p].body = "loading" => job.page = p \/ ~Shared

(* A command that waits in show_page for the job of the page it leaves     *)
(* goes on: the drain ends.                                                *)
DrainEnds == app.at = "drain" ~> app.at = "idle"
=============================================================================
