# Specifications of ru-dbviewer

TLA+ modules for the database viewer plugin in `src/`: what a user relies on
when the plugin holds a write transaction open in somebody's database, and the
parts of the program that keep that promise; and what the user sees and answers
while it does.  TLC checks the modules on small instances; TLAPS proves most of
the safety properties for any number of profiles, captures, callers, operations,
prompts and connections.

Paths such as `app/work.rs` are relative to `src/src/`.

## The system

The plugin is a child process of a terminal host.  It speaks newline-delimited
JSON over its standard input and output.  One reader thread and one writer
thread move frames (`protocol.rs`); one actor task owns all state
(`app/mod.rs`, `App::run`) and takes one message, one completion or one timer
at a time; every database operation runs in a worker task of its own and
reports through a channel.

| component | state | operations | interacts with |
|---|---|---|---|
| transport, `protocol.rs` | output queue, pending requests, twelve request slots, tracked and early cancellations, `stopped` | `request`, `send`, `reply`, `track`, `untrack`, `stop`, reader, writer | host pipes; fires the tokens of workers without the actor |
| event loop, `app/mod.rs` | the `App` structure | `run`, `save`, `ready`, `job` | takes messages, completions and timers at random when several are ready |
| connections and transactions, `app/work.rs`, `lifecycle.rs`, `commands.rs`, `input.rs` | `connections`, `connecting`, leases, tokens, jobs | connect, disconnect, load, execute, settle, cancel, expire, complete | workers, host leases and jobs, saved document |
| recovery markers, `profiles.rs` | `saved.uncertain` in memory and in the host's document | marked before SQL, cleared after settlement, acknowledged by the user | `state.set`, `state.get` |
| prompts and SQL capture, `app/input.rs`, `work.rs` | the outstanding surface, buffer associations, generations | capture, review, confirm, submit | connections |
| browser pages, `app/browser.rs` | page tree, shared host view and revision | create, show, back, prune, publish | full-value documents, completions |
| full-value documents, `app/full_value.rs` | one slot, jobs by page | inspect, stage, publish, cancel | transport, browser |
| result storage, `result_storage.rs` | spool files, byte and file quotas | store, checkpoint, discard, read, drop | workers, full values |
| results, `results.rs` | rows, bounded | push | result storage |
| browsing, `browse.rs`, `app/browsing.rs` | filters, sort, columns, page size; a draft of other filters | pickers, paging, edits of the draft | connections, browser pages |
| database adapters, `db/` | a connection, its transaction, whether it is retired | open, catalog, browse, execute, settle | SQLite library, PostgreSQL client |
| SQL admission, `query.rs` | none | refuses transaction control and several statements | capture |
| path completion, `app/input.rs`, `paths.rs` | epoch, two slots | complete, validate | prompts |
| rendering, `views.rs`, `presentation.rs`, `help.rs`, `inspection.rs` | none | models for the host | all pages |

What is hard here is not any one handler but what may happen at its awaits.  A
writable execution saves a marker, acquires a lease, is admitted as a job and
only then runs SQL; between any two of these the process may die, the host may
refuse, or the user may cancel the lease or the job.  The reader thread fires
tokens while the actor is suspended.  A result may be queued when its operation
is cancelled; a job may be cancelled between the moment its transaction becomes
pending and the moment its success is acknowledged.  `PROJECT.json` lists these
hazards with their lines.

What makes the components correct:

- connections and transactions: one operation at a time per connection; a write
  never without marker, lease and connection; a cancelled operation leaves
  nothing pending; verdicts that are true; every operation and every pending
  transaction ends;
- recovery markers: marked in the stored document before the write begins,
  cleared only when it is known to be settled, across crashes;
- transport: ids reach the host in order; every request ends; a stop, whoever
  runs it, releases every caller, token and thread; no cancellation is lost;
- prompts: what is executed is what was reviewed, on the connection it was
  captured for; an answer to an old prompt changes nothing;
- result storage: quotas are respected and returned exactly once; retained
  values stay readable;
- browser and full values: a background result updates its own page only; no
  publication conflicts with another; a command acts on what the user saw; a
  page that says "loading" is going to be replaced;
- browsing: rows are shown with the options they were read with; one change does
  not undo another;
- path completion and saved profiles: a late completion changes nothing the user
  has moved on from; the document can be read at the next start;
- database adapters: what the caller is told is true of the database; nothing is
  left open for the next operation; a cancel packet hits its own operation.

## Modules

| module | what it is |
|---|---|
| `RecoveryMarker` | the abstract life of a profile: clear, marked, live, in doubt |
| `Transactions` | the actor, its workers, the database and the host, for connections and transactions |
| `DatabaseContract` | what `execute` and `settle` promise their caller, whatever the database |
| `Adapters` | one connection to PostgreSQL or SQLite under `execute` and `settle`: client, driver, server, cancel packets |
| `Prompts` | what the user is asked, and what the answers take effect on |
| `Browser` | the one native buffer, its pages, and the worker of a complete value that publishes behind the application |
| `Browsing` | a page of rows, a draft of its filters, the prompts that change either, and the read under way |
| `PathInput` | saved profiles, the prompts that add them, path workers, and the next start |
| `MCTransactions` | symmetry for model checking |
| `TransactionsProofs` | invariants of `Transactions`, its safety theorems, what the host is told, and that it implements `RecoveryMarker` |
| `ResultStorage` | spools, quotas and values, with the workers that fill them row by row |
| `MCResultStorage` | symmetry for model checking |
| `ResultStorageProofs` | invariant of `ResultStorage` and its safety theorems |
| `Transport` | the reader and writer threads, `request()`, `stop()`, tokens and early cancellations |
| `MCTransport` | symmetry for model checking |
| `TransportProofs` | invariant of `Transport` and its safety theorems |
| `AdaptersProofs` | invariants of `Adapters`: what may be on the wire while the caller stands where, whose transaction it is, what the caller is told of it, and that it implements `DatabaseContract` |
| `PromptsProofs` | invariant of `Prompts` and its safety theorems |
| `PathInputProofs` | invariant of `PathInput`, its safety theorems and its action property |
| `BrowsingProofs` | invariant of `Browsing`, its safety theorem and its action properties |
| `BrowserProofs` | invariant of `Browser` and its safety theorems |
| `MCAdapters`, `MCPrompts`, `MCBrowser`, `MCBrowsing`, `MCPathInput` | model values for model checking |

The components are checked apart, and meet where one assumes what another shows.

- `Transactions` assumes of the transport what `Transport` shows: a request ends,
  a cancellation fires the token of its operation before or after it is tracked,
  and once the transport stops every token fires, every caller returns and the
  process ends.
- It assumes of a database operation that a success leaves an open write, that a
  known failure leaves none and that anything else leaves a doubt, and that the
  next operation meets nothing of an earlier one.  `DatabaseContract` states such
  promises for any database, and `Adapters` is shown to implement it for both.
- It takes commands as they come.  `Prompts` shows which of them still mean what
  the user was shown, over an abstraction of the same connections in which an
  operation is begun and ended in one step each.
- `Browser` takes completions as pages and bodies; `Browsing` and `Prompts` say
  which options and which connection such a page has.  Path prompts and their
  workers concern no connection and are in `PathInput` alone.

### Transactions

**State.**  A connection is a name in the sets `connections`, `writable`,
`busy`, `pending` and `lease`: the fields of `struct Connection`.  `connecting`
is the map of attempts.  `saved` is `saved.uncertain` in memory and `stored`
the same list in the host's document.  `cancel` holds the connections (or
attempts) whose token has fired, `revoked` the leases whose cancellation event
is still queued for the actor, `job` the host's view of the latest SQL or read
job of a profile.  `worker` is what the spawned task does or has sent, and `tx`
the truth in the database: no write, an open write, or a write nobody has
confirmed (`doubt`).  A token or a lease event of a connection that no longer
exists names nothing, so it is removed with it.

**The actor.**  A handler is atomic between two awaits.  The record `actor`
says at which await it is suspended, for which profile, where it goes next,
which verdict it will report and whether the job it will finish is the
profile's latest one.  While it is suspended only workers, cancellations and a
crash move.  `Resting` is the head of the loop in `App::run`.

| await | code | ends with |
|---|---|---|
| `mark` | `save()` in `execute` | `MarkStored`, `MarkRefused` |
| `acquire` | `activity.acquire` | `LeaseGranted`, `LeaseRefused` |
| `admit` | `job.create` in `execute` | `Admit`, `AdmitRefused` |
| `load` | the first read of a new connection | `LoadFirst`, `LoadSkipped` |
| `rollback` | `db.settle(false)` in the actor | `RolledBack`, `RollbackLost` |
| `save` | `save()` after a marker was cleared | `SaveDone`, `SaveRefused` |
| `publish` | refreshing views | `Published` |
| `finish` | `job.finish` | `FinishAccepted`, `FinishRefused` |
| `close` | the second `job.finish` | `Close` |

Refused commands change nothing and are stuttering steps.  A command carries a
current generation: prompts and captured SQL belong to another module.
`show_page` may take completions while a command is suspended; a command's
checks and effects concern one profile and `ready()` excludes a completion of
that profile, so such a completion is equivalent to one taken before the
command.  Its errors, however, are reported by the command rather than ending
the process, which is why `SaveRefused` and `LoadSkipped` may come to rest; an
error that leaves `run` is `Crash`.  The idle timer is `Expire`, allowed
whenever the connection holds a lease and is not busy: time is not modelled, so
every moment is considered.  Several expired connections are several steps.
Host: a job that is being cancelled refuses success and failure, and nothing
else refuses `job.finish`.

**The database.**  `BeginWrite` is BEGIN and the statement; the `Execute...`
actions are the ends of `Database::execute` with the worker's `match` on its
result: success that nobody cancelled, known undone, or rollback unconfirmed.
A settlement succeeds, or its reply is lost and the outcome is in doubt.  A
crash leaves an open write in doubt; a shutdown may roll it back first.

### RecoveryMarker

Four phases per profile and six steps.  `Transactions` implements it with
`phase` read off `stored` and `tx` (operator `Phase`): a write outstanding
without its marker would have no phase at all.

### DatabaseContract

The caller of `execute` and `settle` is idle, runs an operation, has a write
open or settles it; `told` is what it knows of each operation, `durable` what is
in the database for good.  An operation has no effect of its own, whether it
succeeds, fails or is unknown.  Only a COMMIT the caller has asked for has one, at
any time from then on, also after the caller has given up waiting (`commits`).  A
known outcome is told only when nothing can change it any more, and a connection
whose operation failed or is uncertain takes no other: "a dropped response or
interrupted operation is never followed by a query on uncertain state"
(`lifecycle.rs:231`).  `Adapters` implements it with `phase` read off where the
caller stands (operator `Phase`) and with the COMMITs on the wire as `commits`.

### ResultStorage

**State.**  `bytes` and `spools` are the process-wide `Usage`.  `file` says of
each spool whether it is absent, open, or closed and still counted, for `Drop`
closes the descriptor before it takes the lock of the quota.  `size`, `length`
and `failed` are the `FileState`: the reserved bytes, and the real length of
the file, which a failed write leaves anywhere between.  A value is a record of
its spool, offset and length, as `CapturedValue` is; `row` and `kept` are those
of the row under way and of the rows kept.  Reference counts are not stored:
`Referenced` says who holds a spool, and every step that drops a reference ends
with `Dropped`.

**Steps.**  The locks decide: `store` releases the quota's lock between the
first check and the creation of the file, so `Reserve` and `Create` are two
steps and other captures run between them; a spool's lock is held during a
whole write.  `Data::push` decides on a row (`AcceptRow`, `RejectRow`) from
sizes of previews, which are not modelled: either answer is allowed.  A
refused `store` leaves the cell without its value and changes nothing.  The
adapters differ in one thing: PostgreSQL may drop an operation at its timeout
while a blocking worker still fills the capture (`Orphan`).  A page is dropped
at any moment, also while the full-value worker reads one of its values.

### Transport

**State.**  `stopped` is the flag, `stage` how far the one thread that set it
is with `stop()`.  `queue` is the bounded channel, `writing` the writer's frame
and `wire` the last request id the host received.  `order` is `request_order`,
`pending` the table of reply channels; `at`, `id` and `reply` are where each
thread is, its request and what became of its channel.  `op`, `fired` and
`early` are the operations, their tokens and the early cancellations.

**Steps.**  A step ends where a lock is released or the flag is read: `send`
reads the flag (`Check`) and then offers the frame (`Push`, `PushRefused`),
and `stop()` has three steps after the flag, between which all other threads
run.  A caller whose frame is refused runs `stop()` while it holds the order
lock.  Writing a frame in several chunks is one step or a failure.

**The host** is external.  It keeps at most `HostWindow` requests outstanding,
answers ours in any order or never, gives up path validations at their deadline
(`Retire`) and cancels an operation, which it created, once.

### Adapters

**State.**  `call` is the caller's operation: where it stands in `execute_bound`
or `settle`, its number, whether it writes and the request it has sent last.
`retired` and `driver` are the fields of `Postgres`; `asked` is the request whose
response the client's future waits for and `answer` that response.  `wire`,
`session` and `packets` are the database's side, external and modelled from how
the client uses it: a session serves requests in order, a failed transaction
refuses everything but its end, a cancel packet stops whatever runs when it
arrives.  `durable` is what the database keeps for good, `told` what the caller
has learnt of each operation, `struck` the operations stopped by another one's
packet.

**Steps.**  A request (`Advance`), the end of the `select!` by an answer
(`Answered`), by a row that cannot be captured, by a cancellation or timer, or
by a full capture (`Interrupted`, `Capped`), the packet within its 400 ms
(`SendCancel`), and the answer to a rollback or commit, or its absence after a
second (`Settled`).  A dropped future takes back nothing it has sent.  The
driver task ends when it is aborted or when the connection breaks, at any
moment, with any part of the wire lost.  SQLite's steps are those of its blocking
worker, which holds the connection's mutex; any of them may fail or panic.  The
caller is the worker of `Transactions`: one operation at a time, a write that
succeeded is settled, a connection is dropped after an error.

### Prompts

**State.**  `connection`, `attempt`, `generation`, `uncertain`, `buffer` and
`input` are the fields of `App` and `Saved`; `text` is what the SQL buffers hold
while the user types and `pages` the views with a generation, reviews with the
SQL they show.  `asked`, `enabled`, `replaced`, `reviewed` and `transaction`, and the number
in `uncertain`, are history: what the user was shown when a prompt was opened.
`wrong` is set when an answer takes effect on something else.

**Steps.**  One message of the host each: a command on a row, on a page or on an
SQL buffer, or the answer to a prompt with all that it calls (`submit`,
`password`, `connect`, `settle`, `execute`); or one completion.  The
interleavings inside a step are those of `Transactions`.

### Browser

**State.**  `host` is the buffer the user sees; `browser` and `views` are the
application's record of it and of its pages; `job` is `full_jobs`, of which
there is at most one, and `worker` the task behind it.  `reads` and `done` are
the reads under way and the channel of completions, `inbox` the messages of the
host not yet taken, which name the revision the user saw.

**Steps.**  The application is one task, so a command with its requests is one
step, except that `show_page` takes completions while the job of the page it
leaves ends (`app.at = "drain"`, `Resume`).  Otherwise the loop of `run` takes
the next message, a completion or a change of a connection's status (its timer,
a cancelled lease: `StatusChanges`) at random, as its `select!` does: each may
overtake an invocation or a `view.closed` that is queued.  `Elsewhere` stands
for the messages that name no revision of the buffer; they come through the same
queue, so one that is taken was sent before those still in `inbox`.  The host is
external: it accepts a publication against the revision it holds and refuses
another, commits a stage or withdraws it, and is closed by its user at any
moment.  Page ids, revisions and buffer identities of the code only grow; the
model takes one that nothing names any more, which no step can tell from a new
one.

### Browsing

**State.**  `rows` is a page of rows: its `Browse`, the visible columns, and as
history the options its data was read with.  `draft` is `Content::Filters`,
`input` the prompt, `load` the read under way with the options it captured.

**Steps.**  The commands and answers of `app/browsing.rs`, `load` and its
completion, and the ends of either page.  The direction of a sort and the
operator and value of a filter are abstracted: no property tells them apart.

### PathInput

**State.**  `profiles` and `document` are the saved profiles in memory and in
the host; `input`, `epoch` and `pending` are `input`, `input_epoch` and
`path_pending` of `App`; `offered` the prompts the user can still answer.
`waiting` is the task that waits for a path, at most eight seconds, `blocking`
the workers in the file system, which nothing can stop, and `validating` those
that validate a form in the same slots.

**Steps.**  Prompts and their answers, the completion of a path (`CompletePath`:
choices, a file that is saved, or an error), the end of the plugin at any moment
and its next start, which validates the document (`Saved::validate`).

## Runs

| run | specification | instance | what it shows |
|---|---|---|---|
| `transactions` | `Spec` | three profiles, two connections, symmetric | the safety invariants, `OwnCancellation`, and the refinement `ImplementsMarker` |
| `transactions_live` | `LiveSpec` | two profiles, of which one is watched | `OperationsEnd` and `RevokedReleased` without the timer; `PendingEnds` with it |
| `result_storage` | `Spec` | three results, three spools of which two may be counted, values of one or two bytes, three bytes a result, four in all | quotas, accounting, and values that stay whole |
| `transport` | `Spec` | two callers, three requests, windows of one and two, one late reply | order of ids, release of callers, room in the queue |
| `transport_tokens` | `Spec` | one caller, three operations, two early cancellations kept | stop and cancellation of tokens |
| `transport_live` | `FairSpec` | one caller, two requests, a late reply and no headroom | every request and every thread ends (`NothingHangs`) |
| `adapters` | `Spec` | three operations, either database | what is told is true, nothing is left open, packets hit their own operation, every call returns, and the refinement `ImplementsContract` |
| `prompts` | `Spec` | two profiles, one with a password, two connections, three generations, two writes, an SQL buffer and a page | answers take effect on what was asked about; what is written was reviewed |
| `browser` | `Spec` | six inputs, two messages queued, two ancestors kept, two reads and one complete value at once | the buffer shows what is acted on, without conflicts; pages are bounded; loads and drains end |
| `browsing` | `Spec` | two columns, two filters, two page sizes, two pages, three changes | rows keep the options they were read with; one change does not undo another |
| `browsing_edits` | `Spec` | the same, four changes | a finding: `EditsSelected` is violated |
| `path_input` | `Spec` | two names, room for two profiles, three prompts, two slots | the document stays readable; one path at a time, answered; late ones are ignored |

The finding.  `edit-filter` is described as "Edit selected filter"
(`app/mod.rs:113`), but the ordinal it remembers is only compared with the
length of the list when the answer is stored (`app/browsing.rs:315`).  A
`remove-filter` that the host lets through while the prompt is open moves
another filter to that ordinal, and the answer replaces it.

The type invariants of `Transactions`, `ResultStorage` and `Transport`, and
`DiscardPossible`, are proved and no longer run.  Those of the other modules are
conjuncts of a property that a run checks (`BoundedPages`, `OnePath`, `Paired`,
`WritesReviewed`, `Isolated`).

Bounds of `Transactions`.  Three profiles with two connections is the least instance in which the
limit refuses something (two live, a third asked for, one of the two replaced);
no handler relates more than two profiles, and the actor serves one at a time.
Two profiles are enough for the liveness properties, which speak of one profile
(`Watched`; no handler treats profiles differently) while another keeps the
actor busy; symmetry is not used for them.  `PendingEnds` has the fairness of
the timer as its antecedent, so that the other two hold without it.
No counter is bounded: the sets and the phases of workers are finite, and
profiles may connect, crash and restart without limit.

Bounds of `ResultStorage`.  Three results with two countable files make the
last file contended; two bytes in a value and three in a result leave a second
value of a file sometimes room and sometimes not; four bytes in all let two
first values pass the first check and only one the second.  A third spool
identity is a file that is being dropped while the next is created.  Nothing
else is bounded: results and files are used again and again.

Bounds of `Transport`.  Two callers contend for the order lock, and a third
request begins when the first has ended.  The windows are one and two, and the
headroom is one with at most one late reply, as the code's four cover two; the
queue is then filled exactly.  `MaxSerial` bounds the requests of a behaviour,
`MaxLate` the replies to requests given up.  With three operations and two
early cancellations kept the oldest is evicted.  `transport_live` has no
headroom, so that the queue overflows under the order lock.  Deadlock is not
checked there, because the process ends.

Bounds of `Adapters`.  A third operation is one whose connection was kept twice,
and one that a packet of the first can still meet; nothing else is bounded.

Bounds of `Prompts`.  A connection is replaced twice by three generations, so
that a prompt may outlive it and meet another one of its profile; two profiles
contend for nothing but the limit.  A second write is one an acknowledgement or
settlement of the first must not reach.  One prompt is outstanding in the code.
One buffer with two texts is edited after its capture; of two reviews either is
as old as the one that is kept.

Bounds of `Browser`. With two ancestors kept a third page prunes the first,
whose read or complete value may be under way; seven page ids and nine revisions
are more than any state names at once. Six inputs, of the user or of the timers
and leases behind a change of status, let the user leave a page that is loading,
return, close the buffer, open another and act on it. With two messages in the
queue of the host a `view.closed` waits behind an invocation, or an invocation
behind another that changes what it will meet, while completions, with or
without a change of status, overtake both; only a change of status without a
completion counts as an input.

Bounds of `Browsing`.  Two columns, filters and sizes are the least that tell a
kept option from a default one; three changes are a filter, a sort or size and
one more before the first is read.  `browsing_edits` needs a fourth: two filters,
a removal and the edit.

Bounds of `PathInput`.  Two names fill the room for two profiles.  Three prompts
are one whose path is on its way, one opened since and one more that is offered;
six in all let a path be superseded in each of its states.  Two slots are one
for a worker that does not return and one for the next path or validation.

Fairness of `Transactions`.  `WF(Resume)`: a request of the actor is answered, or the transport
gives up after eight seconds (`protocol.rs:174`) and the process ends.
`WF(Work)`: workers run under the query timeout.  `SF(Complete)`,
`SF(LeaseEvent)`, `SF(Expire)`: `tokio::select!` picks a random ready branch, so
a completion, an event or an expired timer that is ready again and again while
commands keep coming is eventually taken.  Nothing is assumed of the user, of
cancellations, of refusals or of crashes.

Fairness of `Transport`.  Threads run, and every one of their waits ends: the
writer's pipe after two seconds, a caller's answer after eight, the reader's
poll when `stop()` writes to the wake socket, the actor's loop when it sees the
flag or the end of its channel, which the reader drops.  Only a stopped reader
or actor is fair; nothing is assumed of the host, which may answer nothing and
send nothing.

Fairness of `Adapters`.  The client's timers (the query's, the packet's 400 ms,
a settlement's second) and SQLite's progress handler, which the deadline stops;
nothing of the server or the network.  Of `Browser`: each await of the worker
has the load's deadline of sixty seconds, and the application takes what is in
its channel of completions: in the drain nothing else, in the loop at a random
choice among what is ready, which does not pass one over for ever.  Of
`PathInput`: the waiting task has its timeout and completions are taken; nothing
of workers in the file system. `Prompts` and `Browsing` state no liveness: their
operations are those of `Transactions`.

## Proofs

`TransactionsProofs` proves `TypeOK`, `CrashSafe`, `Protected`,
`InDoubtNotReused`, `OneOperation` and `LimitedConnections` of `Spec` for any
set of profiles and any positive limit, from the two assumptions of
`Transactions` (the resting actor's name is no profile; the limit is a positive
number).  `CrashSafe` is not inductive: a write has its marker because it has a
lease, the lease because its worker was admitted with one, and that because the
actor stood between two awaits of `execute` for the same profile.  `Inv` states
the chain: `Marked` and `Leased` for the documents and leases, `Working` for
whose each worker is, `Outcome` for what each worker's state says of the
database, `Suspended` for where the actor may stand.  One lemma per action
proves the seven parts; `NextInv` joins them.

A second invariant, `Inv2`, adds what the actor knows between taking a result and
finishing its job (`Reported`): with it `HonestVerdict` and
`NothingCancelledIsPending` hold, and the action property `OwnCancellation`: a
read has no lease and is no attempt, so only its own job can fire its token.
`Refinement` proves that each step of `Transactions` is a step of
`RecoveryMarker` or a stutter under `Phase`.

`ResultStorageProofs` proves `TypeOK`, `Quotas`, `Retained` and
`DiscardPossible` for any number of results and files and any limits.  The
quota holds because it counts files present and files being created (`Counted`),
so an open file is always counted.  Values stay whole because every held value
lies below its file's reserved bytes (`Written`, `Files`), spans are apart
(`Apart`), a file has one capture (`Private`), and while a row is under way the
values beyond its checkpoint are that row's alone (`Stages`): truncation to the
checkpoint, after the row is dropped, reaches nobody.

`QuotaExact` proves that the bytes of the quota are the sum of the files' sizes
(`Accounted`).  The sum is a recursive function over a finite set, and no
induction theorem of the library can be used here; the proof takes a smallest
set on which the sum is not the number of reserved places, in the order of strict
inclusion, and removes an element of it.  What is left is about the cardinality
of a set of pairs (file, place), to which a row adds and from which a discard or a
truncation removes.

`TransportProofs` proves `TypeOK`, `OrderedIds`, `StopCancels`, `StopReleases`
and `CancelReaches` for any callers, operations and windows.  The order lock is
held by one caller, whose id is the last (`Locked`), and every id on its way is
below it (`Ordered`).  A caller without an answer has its channel in the table,
unless `stop()` has emptied it and the caller has yet to read the flag
(`Waiting`, `Released`): since the flag is set before the table is emptied, no
caller can pass both.  Early cancellations are distinct (`Early`), so one that
was evicted is older than `MaxEarly` others (`Kept`).

`QueueHasRoom` proves `QueueFits` where `MaxLate <= Headroom`, the code's own
reckoning (`protocol.rs:38-44`: besides the two windows the queue has room for
replies to requests that the host has given up).  `Room` bounds what a running
transport has queued: a queued request is that of a caller that waits for its
answer with one of the `PluginWindow` permits (`Owned`), and replies, queued, being
written or still owed, are no more than the requests of the host that are
outstanding or given up (`Owed`).  The hypothesis is needed: `transport_live` has no
headroom, and there the queue overflows.

`AdaptersProofs` proves `Isolated` for any number of operations: nothing is left
open for the next one, and a packet hits its own (`OwnPacket`).  Both rest on what the answer to a ROLLBACK or COMMIT means: the
session serves in order, so it is the answer to everything sent before, and an
operation that waits for it has nothing behind it on the wire (`InStep`,
`Settlement`).  An operation whose future was dropped has retired the connection
(`Retirement`), so what it leaves on the wire meets no later operation
(`OneOperation`, `Rest`); a packet is sent only then (`OwnPacket` follows), and
an open write is idle on the server (`Waiting`).  `Inv2` follows the
transaction itself: it is the operation's (`OwnTransaction`, `InTransaction`),
only a COMMIT under way or told to be unknown can still end it in the database
(`OwnRequests`, `Awaiting`, `NotYet`), and so what is told stays true (`Truth`,
`OutcomesTrue`).  `ContractKept` proves that each step of `Adapters` is a step of
`DatabaseContract` or a stutter.  Beyond the two invariants it needs that a
connection is kept until its operation has returned (`Held`) and that a work which
succeeded and is rolled back was a read (`Cleaned`).

`PromptsProofs` proves `Fenced`, `WritableConfirmed` and `WritesReviewed` for any
profiles, buffers, texts and limits.  A step changes one profile and leaves it
sound (`Sound`): a writable connection has its confirmation, a write its review
and its mark, and a profile in doubt neither attempt nor read.  There is at most one
prompt, and it was asked of the generation it names and of the write its profile
is uncertain of, if there still is one (`About`).  The last part holds because a
write begins only with the answer to a prompt, after which there is none.

`PathInputProofs` proves `StartsAgain`, `OnePath` and the action property
`Superseded` for any names and limits.  None is inductive: `sqlite_destination`
adds a profile without looking at the names again, so what was valid when the
path was submitted has to be valid still.  It is, because no prompt that could
add a profile is open while a path of the current epoch is on its way (`Fresh`):
the one that submitted it is gone, at most one can be answered (`OnePrompt`), and
opening another begins an epoch.  `OneWay` says where the path is, `InStore`
that the profiles in memory are those stored.

`BrowsingProofs` proves `Paired` and the action properties `SelectionKept` and
`OneChange` for any columns, operators, sizes and limits.  A read carries the
options it was started with while the user goes on with the page, its prompts
and its draft.  `OneRead` says how they may differ from those of the page it will
replace: in filters, in sort or in size, and then from the first page.

`BrowserProofs` proves `Shown`, `SeenIsActed`, `BoundedPages` and `LoadingEnds`.
A revision is the number of one content of one page, wherever it is recorded: at
the application, at the host, in a message, in a read or at the worker (`Agree`,
over all the stamps of a state), so a message whose revision is still that of
its page was given for what the page still holds, whatever was taken before it.
The host and the application agree on the buffer (`Mirrored`) except from the
commit of a complete value to its completion.  `Fits` says what holds then: the
page of the value, if kept, is the page of the buffer at the revision the value
was asked for.  There is one value at a time, with the worker or in the channel
(`OneTask`), and a page that is loading has it, unless the user has closed the
buffer (`Loading`); `Suspended` and `Pruning` say where the application stands
between two calls of the host.  The theorems assume `Endless`: ids of pages,
views and revisions are counted up and never used again. The only use of it is
that there always is a new one (`FreshNames`).  The finite sets of the run are
large enough for that: TLC would stop with an error at a `CHOOSE` that finds
none.  `BoundedPages` rests on the chain of parents, a recursive function again;
that it has a solution is shown by a shortest prefix on which it has none.  No
part of the invariant and no step of its proof needs to know what the queue of
the host holds when a completion or a change of status is taken.

With these every invariant and every action property of the runs but one is a
theorem.  The one is `EditsSelected`, which does not hold: it is the finding.  Only
model-checked are the liveness properties `OperationsEnd`, `RevokedReleased`,
`PendingEnds`, `NothingHangs`, `DrainEnds`, `PathAnswered` and `Returns`: they
rest on fairness, that is on `ENABLED`, which the prover does not reason about.

## Not modelled

- SQL admission (`query.rs`) and what paging sends to the database: functions of
  text without state.  Whether SQL is admitted is an outcome in `Prompts`; the
  page that is asked for is one in `Browsing`.
- Rendering (`views.rs`, `presentation.rs`, `help.rs`, `inspection.rs`), the
  layout of forms and of complete values, the preview of a cell: layout of text.
- `documents.rs` creates one temporary file; `main.rs` parses arguments and
  starts the runtime.
- Opening a session, TLS and SQLite's authorizer: one request to a library, whose
  failure is `unopened` in `Transactions`.
- The database engines appear only through what an operation leaves behind,
  frames only through their kind and order, values only through where they lie.
- No module composes `Transport` with `Transactions` step by step: the second
  uses what the first shows of tokens, callers and the end of the process.

## Plan

1. A module that composes `Transport` with the operations of `Transactions`, to
   check the tokens that the two share instead of assuming them.
2. An abstract buffer (one page, one revision, one writer at a time) that
   `Browser` implements.
3. SQL admission as a function over tokens, against a reference definition.
