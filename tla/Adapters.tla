------------------------------ MODULE Adapters ------------------------------
(***************************************************************************)
(* One database connection behind the facade Database (src/src/db): what   *)
(* execute and settle do to the database, and what they tell their caller. *)
(* The caller is the worker and the actor of module Transactions: it runs  *)
(* one operation at a time, settles a write that succeeded, and drops the  *)
(* connection after an error (Work::Failed).                               *)
(*                                                                         *)
(* PostgreSQL: the client's requests pass through a driver task and a      *)
(* socket to the session, which serves them in order.  A dropped future    *)
(* takes back nothing it has sent.  A cancel packet takes another way, is  *)
(* about whatever the session runs when it arrives, and may arrive late.   *)
(* SQLite: a blocking worker that holds the connection's mutex.            *)
(***************************************************************************)
EXTENDS Naturals, Sequences

CONSTANT MaxOps   \* bound: operations executed on the connection

ASSUME OpsAssumption == MaxOps \in Nat \ {0}

VARIABLES
  engine,    \* the variant of Database: "postgres" or "sqlite"
  writable,  \* Sqlite::writable
  call,      \* the caller's operation: where it stands (at), its number (op),
             \* write, the request sent last (step), the outcome of its work
  kept,      \* the caller has not dropped the connection
  retired,   \* Postgres::retired
  driver,    \* Postgres::task: "running", "aborting" or "ended"
  asked,     \* the request whose response the client waits for
  answer,    \* that response, received and not yet taken
  wire,      \* requests sent and not yet served
  session,   \* the database's side of the connection: its transaction (tx,
             \* the operation that began it), what that has written, and the
             \* statement it runs
  packets,   \* cancel packets on their way, by the operation they are for
  durable,   \* operations whose changes are in the database for good
  told,      \* what the caller knows of each operation
  struck     \* operations that the packet of another one has cancelled

client == <<call, kept, retired, told>>
link   == <<driver, asked, answer, wire>>
server == <<session, packets, durable, struck>>
vars   == <<engine, writable, client, link, server>>

-----------------------------------------------------------------------------
(* States *)

Ops   == 1 .. MaxOps
Steps == <<"begin", "set", "prepare", "query">>   \* the requests of one operation
Kinds == {"begin", "set", "prepare", "query", "commit", "rollback"}

\* cancel: an interrupted or capped operation, before its packet is sent.
\* undo, clean: the rollback of that one and of any other.  end: SQLite's
\* worker after its statement.  open: a write that succeeded, to be settled.
Places == {"idle", "work", "cancel", "undo", "clean", "end", "open", "commit", "rollback"}

\* lost: the connection broke.  stopped: the worker panicked.
Outcomes == {"none", "ok", "truncated", "failed", "lost", "interrupted", "stopped"}

\* unknown: an error that work.rs:314 or a failed settlement takes as uncertain.
Told == {"nothing", "read", "open", "committed", "undone", "unknown"}

NoRequest == [kind |-> "none", op |-> 0, write |-> FALSE]
Request(kind) == [kind |-> kind, op |-> call.op, write |-> call.write]

NoTransaction == [tx |-> 0, write |-> FALSE, failed |-> FALSE, effects |-> {}]
Closed  == [tx |-> 0, write |-> FALSE, failed |-> FALSE, effects |-> {}, running |-> 0,
            open |-> FALSE]
Fresh   == [Closed EXCEPT !.open = TRUE]

Init ==
  /\ engine \in {"postgres", "sqlite"} /\ writable \in BOOLEAN
  /\ call = [at |-> "idle", op |-> 0, write |-> FALSE, step |-> 0, outcome |-> "none"]
  /\ kept = TRUE /\ retired = FALSE /\ told = [o \in Ops |-> "nothing"]
  /\ driver = (IF engine = "postgres" THEN "running" ELSE "ended")
  /\ asked = NoRequest /\ answer = "none" /\ wire = <<>>
  /\ session = Fresh /\ packets = {} /\ durable = {} /\ struck = {}

-----------------------------------------------------------------------------
(* The client: execute and settle.                                         *)

\* A request enters the driver's channel, also of one that is being aborted;
\* the channel of one that has ended is closed.
Send(kind) ==
  /\ asked' = Request(kind)
  /\ IF driver = "ended"
       THEN answer' = "closed" /\ UNCHANGED wire
       ELSE answer' = "none" /\ wire' = Append(wire, Request(kind))

\* A future is dropped, or has ended: a response will reach nobody.
Forget == asked' = NoRequest /\ answer' = "none" /\ UNCHANGED wire

\* Mutant: a driver whose abort has been asked for is usable until it ends.
UsableUntilEnded == (engine = "sqlite") \/ (driver # "ended")

Usable == \/ engine = "sqlite"
          \/ ~retired /\ driver # "ended"

\* The caller gets its answer.  A connection it drops, or execute has retired,
\* aborts its driver; one without a driver closes its session.
Abort(keep) ==
  /\ kept' = keep
  /\ driver' = IF driver = "running" /\ (~keep \/ call.at = "undo")
                 THEN "aborting" ELSE driver
  /\ session' = IF engine = "sqlite" /\ ~keep THEN Closed ELSE session
Return(tells, keep) ==
  /\ told' = [told EXCEPT ![call.op] = tells]
  /\ call' = [call EXCEPT !.at = IF tells = "open" THEN "open" ELSE "idle",
                          !.step = 0, !.outcome = "none"]
  /\ Abort(keep)

\* execute: an operation begins, unless the connection is retired or a write
\* is asked of a read-only one.  The caller takes a refusal as any error.
Execute(write) ==
  /\ call.at = "idle" /\ kept /\ call.op < MaxOps
  /\ LET op == call.op + 1 IN
     IF Usable /\ ~(engine = "sqlite" /\ write /\ ~writable)
       THEN /\ call' = [call EXCEPT !.at = "work", !.op = op, !.write = write]
            /\ UNCHANGED <<kept, driver, session, told>>
       ELSE /\ call' = [call EXCEPT !.op = op, !.write = write]
            /\ told' = [told EXCEPT ![op] = IF write THEN "undone" ELSE "read"]
            /\ Abort(FALSE)
  /\ UNCHANGED <<engine, writable, retired, asked, answer, wire, packets, durable, struck>>

Working == engine = "postgres" /\ call.at = "work"

\* The next request is sent: at first, or when the last one is answered.
Advance ==
  /\ Working /\ call.step < Len(Steps)
  /\ call.step = 0 \/ answer = "ok"
  /\ call' = [call EXCEPT !.step = @ + 1]
  /\ Send(Steps[call.step + 1])
  /\ UNCHANGED <<engine, writable, kept, retired, told, driver, server>>

\* Mutant: a read that succeeded is not rolled back.
FinishedUnlessFailed(outcome) ==
  IF outcome = "ok"
    THEN Forget /\ Return(IF call.write THEN "open" ELSE "read", TRUE)
    ELSE /\ call' = [call EXCEPT !.at = "clean", !.outcome = outcome]
         /\ Send("rollback")
         /\ UNCHANGED <<kept, told, driver, session>>

\* The work has ended by itself: all but a successful write is rolled back.
Finished(outcome) ==
  IF outcome = "ok" /\ call.write
    THEN Forget /\ Return("open", TRUE)
    ELSE /\ call' = [call EXCEPT !.at = "clean", !.outcome = outcome]
         /\ Send("rollback")
         /\ UNCHANGED <<kept, told, driver, session>>

\* The statement is complete, a request is refused or the connection broke.
Answered ==
  /\ Working
  /\ \/ call.step = Len(Steps) /\ answer = "ok" /\ Finished("ok")
     \/ answer = "error" /\ Finished("failed")
     \/ answer = "closed" /\ Finished("lost")
  /\ UNCHANGED <<engine, writable, retired, packets, durable, struck>>

\* The rows of a statement that runs, or has ended, reach the client.
Streaming == Working /\ call.step = Len(Steps)
             /\ (session.running = call.op \/ answer \in {"ok", "error"})

\* A row cannot be captured: its guard has expired, or its text is not UTF-8.
CaptureFails ==
  /\ Streaming /\ Finished("failed")
  /\ UNCHANGED <<engine, writable, retired, packets, durable, struck>>

\* The select's cancellation or timer, before an answer that is there as well;
\* or the capture has its rows or bytes.  The work is dropped.
Retire(outcome) ==
  /\ call' = [call EXCEPT !.at = "cancel", !.outcome = outcome]
  /\ retired' = TRUE
  /\ Forget
  /\ UNCHANGED <<engine, writable, kept, told, driver, server>>

Interrupted == Working /\ Retire("interrupted")
Capped      == Streaming /\ Retire("truncated")

\* The cancel packet is sent, or refused, or its 400 ms are over.
SendCancel ==
  /\ call.at = "cancel"
  /\ packets' \in {packets, packets \cup {call.op}}
  /\ call' = [call EXCEPT !.at = "undo"]
  /\ Send("rollback")
  /\ UNCHANGED <<engine, writable, kept, retired, told, driver, session, durable, struck>>

\* settle of the caller: Commit or Rollback, of the user, a cancelled worker,
\* a lease or a timer.
Settle(commit) ==
  /\ engine = "postgres" /\ call.at = "open"
  /\ call' = [call EXCEPT !.at = IF commit THEN "commit" ELSE "rollback"]
  /\ Send(IF commit THEN "commit" ELSE "rollback")
  /\ UNCHANGED <<engine, writable, kept, retired, told, driver, server>>

\* Mutant: a settlement without an answer is taken as done.
VerdictUnlessRefused(response) ==
  IF ~call.write THEN "read"
  ELSE IF response = "error" THEN "unknown"
  ELSE IF call.at = "commit" THEN "committed" ELSE "undone"

\* What the caller learns when a COMMIT or ROLLBACK is answered, or not
\* (within one second, or because the connection broke).
Verdict(response) ==
  IF ~call.write THEN "read"
  ELSE IF response # "ok" THEN "unknown"
  ELSE IF call.at = "commit" THEN "committed" ELSE "undone"

\* Mutant: an operation that has failed leaves its connection to the next one.
SucceededOnceClean(response) ==
  \/ call.at \in {"commit", "rollback", "clean"} /\ response = "ok"
  \/ call.at = "undo" /\ call.outcome = "truncated" /\ ~call.write /\ Usable

\* Whether execute or settle returned Ok, and the connection stays usable.
Succeeded(response) ==
  \/ call.at \in {"commit", "rollback"} /\ response = "ok"
  \/ call.at = "clean" /\ response = "ok" /\ call.outcome = "ok"
  \/ call.at = "undo" /\ call.outcome = "truncated" /\ ~call.write /\ Usable

\* Mutant: a settlement waits for its answer.
SettledAnswered ==
  /\ call.at \in {"undo", "clean", "commit", "rollback"} /\ engine = "postgres"
  /\ answer # "none"
  /\ Return(Verdict(answer), Succeeded(answer))
  /\ Forget
  /\ UNCHANGED <<engine, writable, retired, packets, durable, struck>>

Settled ==
  /\ call.at \in {"undo", "clean", "commit", "rollback"} /\ engine = "postgres"
  /\ \E response \in IF answer = "none" THEN {"late"} ELSE {answer} :
       Return(Verdict(response), Succeeded(response))
  /\ Forget
  /\ UNCHANGED <<engine, writable, retired, packets, durable, struck>>

-----------------------------------------------------------------------------
(* The driver, the session and the network, from how the client uses them. *)

Respond(request, response) ==
  answer' = IF asked = request THEN response ELSE answer

\* The session serves the next request.  A statement that begins a second
\* transaction stays in the first; a failed transaction refuses everything but
\* its end, which a COMMIT turns into a rollback without an error.
ServeBegin(r) ==
  /\ r.kind = "begin"
  /\ session' = IF session.tx = 0
                  THEN [session EXCEPT !.tx = r.op, !.write = r.write]
                  ELSE session
  /\ Respond(r, IF session.failed THEN "error" ELSE "ok")
  /\ UNCHANGED durable

ServeSetting(r) ==
  /\ r.kind \in {"set", "prepare"}
  /\ \E fails \in {session.failed, TRUE} :
       /\ session' = [session EXCEPT !.failed = session.tx # 0 /\ fails]
       /\ Respond(r, IF fails THEN "error" ELSE "ok")
  /\ UNCHANGED durable

ServeQuery(r) ==
  /\ r.kind = "query"
  /\ IF session.failed
       THEN Respond(r, "error") /\ UNCHANGED session
       ELSE session' = [session EXCEPT !.running = r.op] /\ UNCHANGED answer
  /\ UNCHANGED durable

Ended == [Closed EXCEPT !.open = session.open]
ServeRollback(r) ==
  /\ r.kind = "rollback"
  /\ session' = Ended /\ Respond(r, "ok") /\ UNCHANGED durable

\* A COMMIT may be refused, by a constraint checked at the end.
ServeCommit(r) ==
  /\ r.kind = "commit"
  /\ session' = Ended
  /\ \/ /\ durable' = durable \cup IF session.failed THEN {} ELSE session.effects
        /\ Respond(r, "ok")
     \/ Respond(r, "error") /\ UNCHANGED durable

Serve ==
  /\ session.open /\ session.running = 0 /\ wire # <<>>
  /\ wire' = Tail(wire)
  /\ LET r == Head(wire) IN
       ServeBegin(r) \/ ServeSetting(r) \/ ServeQuery(r) \/ ServeRollback(r) \/ ServeCommit(r)
  /\ UNCHANGED <<engine, writable, client, driver, asked, packets, struck>>

\* The statement fails, by itself or by a cancel packet.
StatementFails ==
  /\ session' = [session EXCEPT !.running = 0, !.failed = session.tx # 0]
  /\ answer' = IF asked.kind = "query" /\ asked.op = session.running THEN "error" ELSE answer

\* It succeeds; without a transaction of its own, or in one that may write,
\* its changes count, also those of a read.
StatementEnds ==
  /\ session.running # 0
  /\ \/ StatementFails /\ UNCHANGED durable
     \/ /\ session' = [session EXCEPT !.running = 0,
                         !.effects = IF session.write THEN @ \cup {session.running} ELSE @]
        /\ durable' = IF session.tx = 0 THEN durable \cup {session.running} ELSE durable
        /\ answer' = IF asked.kind = "query" /\ asked.op = session.running
                       THEN "ok" ELSE answer
  /\ UNCHANGED <<engine, writable, client, driver, asked, wire, packets, struck>>

\* A cancel packet arrives.
PacketArrives(op) ==
  /\ op \in packets
  /\ packets' = packets \ {op}
  /\ IF session.running = 0
       THEN UNCHANGED <<session, answer, struck>>
       ELSE /\ StatementFails
            /\ struck' = struck \cup ({session.running} \ {op})
  /\ UNCHANGED <<engine, writable, client, driver, asked, wire, durable>>

\* The driver ends: aborted, or because the connection breaks.  What it has
\* not written is lost, and so may be a response it has not passed on.
DriverEnds ==
  /\ engine = "postgres" /\ driver # "ended"
  /\ driver' = "ended"
  /\ \E n \in 0 .. Len(wire) : wire' = SubSeq(wire, 1, n)
  /\ answer' \in IF asked = NoRequest THEN {answer}
                 ELSE {"closed"} \cup ({answer} \ {"none"})
  /\ UNCHANGED <<engine, writable, client, asked, server>>

\* The session ends: the socket is closed, or the server closes it, such as
\* when a transaction has been idle for five minutes.
SessionEnds ==
  /\ engine = "postgres" /\ session.open /\ driver = "ended"
  /\ session.running = 0 /\ wire = <<>>
  /\ session' = Closed
  /\ UNCHANGED <<engine, writable, client, link, packets, durable, struck>>
SessionClosed ==
  /\ engine = "postgres" /\ session.open /\ driver # "ended"
  /\ session' = Closed /\ driver' = "ended" /\ wire' = <<>>
  /\ answer' = IF asked # NoRequest /\ answer = "none" THEN "closed" ELSE answer
  /\ UNCHANGED <<engine, writable, client, asked, packets, durable, struck>>

-----------------------------------------------------------------------------
(* SQLite: each step of the blocking worker, under the mutex.              *)

SqliteFrame == UNCHANGED <<engine, writable, retired, asked, answer, wire, packets, struck>>
SqliteEnd(outcome) == call' = [call EXCEPT !.at = "end", !.outcome = outcome]

\* BEGIN, unless the operation is cancelled already.
SqliteBegin ==
  /\ engine = "sqlite" /\ call.at = "work" /\ call.step = 0
  /\ \/ /\ session' = [session EXCEPT !.tx = call.op, !.write = call.write]
        /\ call' = [call EXCEPT !.step = 1]
     \/ SqliteEnd("failed") /\ UNCHANGED session
  /\ UNCHANGED <<kept, told, driver, durable>> /\ SqliteFrame

\* The statement runs to its end or to the capture's limit, or fails, which
\* may undo the whole transaction; a cancellation seen afterwards is a failure.
SqliteRun ==
  /\ engine = "sqlite" /\ call.at = "work" /\ call.step = 1
  /\ \E outcome \in {"ok", "truncated", "failed"}, undone \in BOOLEAN :
       /\ undone => outcome = "failed"
       /\ SqliteEnd(IF outcome = "truncated" /\ call.write THEN "failed" ELSE outcome)
       /\ session' = IF undone THEN Ended
                     ELSE IF call.write
                     THEN [session EXCEPT !.effects = {call.op}]
                     ELSE session
  /\ UNCHANGED <<kept, told, driver, durable>> /\ SqliteFrame

\* All but a successful write is rolled back, if there is a transaction.
SqliteRest ==
  /\ engine = "sqlite" /\ call.at = "end"
  /\ LET succeeds == call.outcome # "failed" IN
     \/ /\ succeeds /\ call.write
        /\ Return("open", TRUE)
     \/ /\ ~(succeeds /\ call.write)
        /\ told' = [told EXCEPT ![call.op] = IF call.write THEN "undone" ELSE "read"]
        /\ call' = [call EXCEPT !.at = "idle", !.step = 0, !.outcome = "none"]
        /\ kept' = succeeds /\ UNCHANGED driver
        /\ session' = IF succeeds THEN Ended ELSE Closed
  /\ UNCHANGED durable /\ SqliteFrame

\* The rollback fails, or the worker panics in any of its steps: the caller is
\* told that the outcome is unknown.
SqliteStops ==
  /\ engine = "sqlite" /\ call.at \in {"work", "end", "open"}
  /\ Return(IF call.write THEN "unknown" ELSE "read", FALSE)
  /\ UNCHANGED durable /\ SqliteFrame

\* Nothing is done, and reported as done, if there is no transaction.
SqliteSettle(commit) ==
  /\ engine = "sqlite" /\ call.at = "open"
  /\ \/ /\ told' = [told EXCEPT ![call.op] = IF commit THEN "committed" ELSE "undone"]
        /\ call' = [call EXCEPT !.at = "idle"]
        /\ durable' = durable \cup IF commit THEN session.effects ELSE {}
        /\ session' = Ended /\ UNCHANGED <<kept, driver>>
     \/ /\ session.tx # 0
        /\ Return("unknown", FALSE) /\ UNCHANGED durable
  /\ SqliteFrame

-----------------------------------------------------------------------------
Client == Advance \/ Answered \/ CaptureFails \/ Interrupted \/ Capped \/ SendCancel \/ Settled
Worker == SqliteBegin \/ SqliteRun \/ SqliteRest \/ SqliteStops

Next ==
  \/ \E write \in BOOLEAN : Execute(write)
  \/ \E commit \in BOOLEAN : Settle(commit) \/ SqliteSettle(commit)
  \/ Client \/ Worker
  \/ Serve \/ StatementEnds \/ \E op \in Ops : PacketArrives(op)
  \/ DriverEnds \/ SessionEnds \/ SessionClosed

\* The timers of execute and settle, the 400 ms of the packet, and SQLite's
\* progress handler; nothing is expected of the server or the network.
Spec == Init /\ [][Next]_vars /\ WF_vars(Client) /\ WF_vars(Worker)

-----------------------------------------------------------------------------
(* Properties *)

TypeOK ==
  /\ call \in [at : Places, op : 0 .. MaxOps, write : BOOLEAN, step : 0 .. Len(Steps),
               outcome : Outcomes]
  /\ driver \in {"running", "aborting", "ended"}
  /\ wire \in Seq([kind : Kinds, op : Ops, write : BOOLEAN])
  /\ answer \in {"none", "ok", "error", "closed"}
  /\ told \in [Ops -> Told] /\ packets \subseteq Ops /\ durable \subseteq Ops

\* What the caller is told of an operation is true of the database, then and
\* later, however requests, responses and the connection were lost: a write
\* told to be committed is kept, one told to be undone never is, nor is a
\* read; and one that awaits its settlement is in its transaction, unless the
\* session has ended (execute_bound, settle).
OutcomesTrue ==
  /\ \A o \in Ops :
       /\ told[o] = "committed" => o \in durable
       /\ told[o] \in {"read", "undone"} => o \notin durable
  /\ call.at = "open" =>
       /\ call.op \notin durable
       /\ session.open => session.effects = {call.op} /\ ~session.failed

\* No operation begins in what another one has left: a connection that takes
\* the next operation has no transaction open, no statement running and no
\* request under way (execute_bound).
NothingLeftOpen ==
  call.at = "idle" /\ kept /\ Usable =>
    session.tx = 0 /\ session.running = 0 /\ wire = <<>>

\* A late cancel packet never cancels a later operation (postgres.rs:340).
OwnPacket == struck = {}

\* No operation meets what another one has left on the connection.
Isolated == TypeOK /\ NothingLeftOpen /\ OwnPacket

\* Every execution and settlement returns, whatever the server does.
Returns == call.at \notin {"idle", "open"} ~> call.at \in {"idle", "open"}

-----------------------------------------------------------------------------
(* The contract of the facade.                                             *)

\* Where the caller stands, and the COMMITs that can still be served.
Phase == IF call.at \in {"idle", "open"} THEN call.at
         ELSE IF call.at = "commit" THEN "committing"
         ELSE IF call.at = "rollback" THEN "rolling" ELSE "running"
Commits == {o \in Ops : \E i \in 1 .. Len(wire) : wire[i].op = o /\ wire[i].kind = "commit"}

Contract == INSTANCE DatabaseContract
              WITH phase <- Phase, op <- call.op, write <- call.write, commits <- Commits

\* Every step of either database is one of the contract: nothing but a COMMIT
\* the caller has asked for changes the database, no later step makes false
\* what the caller is told, and a connection whose operation failed or is
\* uncertain takes no other (work.rs:314, lifecycle.rs:231).
ImplementsContract == Contract!Spec
=============================================================================
