---------------------------- MODULE Transactions ----------------------------
(***************************************************************************)
(* Connections, transactions and recovery markers of the database viewer:  *)
(* the App actor (src/src/app), the workers it spawns, the database each   *)
(* worker talks to, and the host that keeps leases, jobs and the saved     *)
(* state.                                                                  *)
(*                                                                         *)
(* The actor is one task.  It takes one command, one completion or one     *)
(* timer at a time, and each handler suspends at its awaits: there the     *)
(* variable actor says where it stands, and only the workers, the host's   *)
(* cancellations and a crash can move.  Between two awaits a handler is    *)
(* one atomic step.                                                        *)
(*                                                                         *)
(* A connection is a member of the sets below (the fields of struct        *)
(* Connection): its generation, its views and the prompts that capture SQL *)
(* are left to other modules, so a command here is one whose captured      *)
(* generation is still current; a stale one is refused and changes nothing.*)
(***************************************************************************)
EXTENDS Naturals, FiniteSets

CONSTANTS Names,           \* database profiles, by name
          NoName,          \* no profile: the resting actor's
          MaxConnections,  \* live databases allowed at once (2 in the source)
          Watched          \* those the liveness properties are about

ASSUME NamesAssumption == NoName \notin Names
ASSUME LimitAssumption == MaxConnections \in Nat \ {0}
ASSUME WatchedAssumption == Watched \subseteq Names

VARIABLES
  up,           \* the plugin process runs
  saved,        \* saved.uncertain: the markers in memory
  stored,       \* the markers in the state document the host keeps
  connections,  \* profiles with a live connection
  connecting,   \* profiles whose connection is being opened
  writable,     \* those connected, or being connected, READ AND WRITE
  busy,         \* connections with an operation or settlement running
  pending,      \* connections awaiting Commit or Rollback
  lease,        \* connections that hold an activity lease
  revoked,      \* leases the host cancelled, their event still queued
  cancel,       \* cancelled tokens, of an operation or a connection attempt
  job,          \* the host's view of each connection's latest SQL or read job
  worker,       \* what the spawned worker of a profile is doing or has sent
  tx,           \* ground truth: the write transaction in the database
  actor         \* where the actor stands

marks == <<saved, stored>>
live  == <<connections, connecting, writable, busy, pending>>
held  == <<lease, revoked>>
vars  == <<up, marks, live, held, cancel, job, worker, tx, actor>>

-----------------------------------------------------------------------------
(* States *)

Running  == {"opening", "reading", "executing", "committing", "rolling"}

\* Completions a worker has sent and the actor has not taken (enum Work).
\* "failed" is Work::Failed of an operation known to be undone, "unknown" of
\* one that is not, "unsettled" the Work::Failed of a settlement.
Results  == {"opened", "unopened", "catalog", "data", "settled",
             "failed", "unknown", "unsettled"}
Workers  == {"none"} \union Running \union Results

\* "doubt": nobody has confirmed whether the write was kept or undone.
Outcomes == {"none", "open", "doubt"}

Verdicts == {"succeeded", "failed", "cancelled", "outcome_unknown"}
Jobs     == {"none", "running", "cancelling"} \union Verdicts

\* at: the await the handler is suspended at.  next: where it goes from a
\* rollback or a save: "reply" ends a command, "event" a lease event, a timer or
\* a completion already reported, the others are a completion's next step.  state: the verdict it will report.
\* own: the job it finishes is the one the variable job describes.
Points   == {"idle", "mark", "acquire", "admit", "load", "rollback", "save",
             "publish", "finish", "close"}
Nexts    == {"reply", "event", "publish", "finish", "close"}
Actors   == [at : Points, name : Names \union {NoName}, next : Nexts,
             state : Verdicts, own : BOOLEAN]

Idle == [at |-> "idle", name |-> NoName, next |-> "reply",
         state |-> "succeeded", own |-> FALSE]

At(point, n, next, state, own) ==
  [at |-> point, name |-> n, next |-> next, state |-> state, own |-> own]

\* The step a completed rollback or save leads to.
After(a) == IF a.next \in {"reply", "event"} THEN Idle
            ELSE [a EXCEPT !.at = a.next]

TypeOK ==
  /\ up \in BOOLEAN
  /\ saved \subseteq Names /\ stored \subseteq Names
  /\ connections \subseteq Names /\ connecting \subseteq Names
  /\ writable \subseteq Names /\ busy \subseteq Names /\ pending \subseteq Names
  /\ lease \subseteq Names /\ revoked \subseteq Names /\ cancel \subseteq Names
  /\ job \in [Names -> Jobs]
  /\ worker \in [Names -> Workers]
  /\ tx \in [Names -> Outcomes]
  /\ actor \in Actors

Init ==
  /\ up = TRUE
  /\ saved = {} /\ stored = {}
  /\ connections = {} /\ connecting = {} /\ writable = {}
  /\ busy = {} /\ pending = {}
  /\ lease = {} /\ revoked = {} /\ cancel = {}
  /\ job = [n \in Names |-> "none"]
  /\ worker = [n \in Names |-> "none"]
  /\ tx = [n \in Names |-> "none"]
  /\ actor = Idle

-----------------------------------------------------------------------------
(* Helpers of the actor *)

Resting == up /\ actor = Idle
Standing(point) == up /\ actor.at = point

\* ready(): no connection attempt, no marker of an earlier operation, and a
\* connection that is neither busy nor pending.
Ready(n) ==
  /\ n \notin connecting
  /\ n \in saved => n \in pending
  /\ n \in connections
  /\ n \notin busy \union pending

\* connections.remove(name): the fields go with the connection.
Drop(n) ==
  /\ connections' = connections \ {n}
  /\ writable' = writable \ {n}
  /\ busy' = busy \ {n}
  /\ pending' = pending \ {n}

\* release(): the lease leaves the connection and is given back to the host.
\* Its queued cancellation then names no connection, so it is dropped here.
Release(n) ==
  /\ lease' = lease \ {n}
  /\ revoked' = revoked \ {n}

\* A pending connection whose shared cancellation token has fired.
LateCancelled(n) == n \in pending /\ n \in lease /\ n \in cancel

-----------------------------------------------------------------------------
(* Commands that open and close connections *)

\* The attempt replaces the connection, and its worker is spawned.
Open(n, write) ==
  /\ connections' = connections \ {n}
  /\ connecting' = connecting \union {n}
  /\ writable' = IF write THEN writable \union {n} ELSE writable \ {n}
  /\ cancel' = cancel \ {n}
  /\ worker' = [worker EXCEPT ![n] = "opening"]
  /\ job' = [job EXCEPT ![n] = "none"]
  /\ UNCHANGED <<up, marks, busy, pending, held, tx, actor>>

\* Mutant: the marker of an earlier operation is not looked at.
ConnectUnreviewed(n, write) ==
  /\ Resting
  /\ \/ Cardinality(connections) + Cardinality(connecting) < MaxConnections
     \/ n \in connections
  /\ n \notin connecting \union busy \union pending
  /\ Open(n, write)

\* Mutant: attempts still running are not counted.
ConnectUncounted(n, write) ==
  /\ Resting
  /\ Cardinality(connections) < MaxConnections \/ n \in connections
  /\ n \notin connecting \union busy \union pending \union saved
  /\ Open(n, write)

Connect(n, write) ==
  /\ Resting
  /\ \/ Cardinality(connections) + Cardinality(connecting) < MaxConnections
     \/ n \in connections
  /\ n \notin connecting
  /\ n \notin busy \union pending
  /\ n \notin saved
  /\ Open(n, write)

\* Mutant: a running operation does not refuse the disconnect.
DisconnectRunning(n) ==
  /\ Resting
  /\ n \in connections \ pending
  /\ Drop(n)
  /\ job' = [job EXCEPT ![n] = "none"]
  /\ UNCHANGED <<up, marks, connecting, held, cancel, worker, tx, actor>>

\* "disconnect" on a connection that is neither busy nor pending.
Disconnect(n) ==
  /\ Resting
  /\ n \in connections
  /\ n \notin busy \union pending
  /\ Drop(n)
  /\ job' = [job EXCEPT ![n] = "none"]
  /\ UNCHANGED <<up, marks, connecting, held, cancel, worker, tx, actor>>

\* The confirmed disconnect of a connection that was pending when asked.
ConfirmDisconnect(n) ==
  /\ Resting
  /\ n \in connections \ busy
  /\ actor' = At("rollback", n, "reply", "cancelled", FALSE)
  /\ UNCHANGED <<up, marks, live, held, cancel, job, worker, tx>>

\* The user has reviewed the database: the outcome is no longer in doubt.
Acknowledge(n) ==
  /\ Resting
  /\ n \in saved
  /\ n \notin busy \union pending
  /\ saved' = saved \ {n}
  /\ tx' = [tx EXCEPT ![n] = IF @ = "doubt" THEN "none" ELSE @]
  /\ actor' = At("save", n, "reply", "succeeded", FALSE)
  /\ UNCHANGED <<up, stored, live, held, cancel, job, worker>>

-----------------------------------------------------------------------------
(* Reading and executing *)

Load(n) ==
  /\ Resting
  /\ Ready(n)
  /\ busy' = busy \union {n}
  /\ cancel' = cancel \ {n}
  /\ job' = [job EXCEPT ![n] = "running"]
  /\ worker' = [worker EXCEPT ![n] = "reading"]
  /\ UNCHANGED <<up, marks, connections, connecting, writable, pending, held,
                 tx, actor>>

\* Mutant: the lease is asked for before the marker is saved.
ExecuteUnsaved(n) ==
  /\ Resting
  /\ Ready(n)
  /\ saved' = IF n \in writable THEN saved \union {n} ELSE saved
  /\ actor' = At(IF n \in writable THEN "acquire" ELSE "admit", n, "reply",
                 "succeeded", TRUE)
  /\ cancel' = cancel \ {n}
  /\ UNCHANGED <<up, stored, live, held, job, worker, tx>>

\* A writable execution first marks the profile, in memory and then in the
\* host's document, and acquires a lease; any execution then needs a job.
Execute(n) ==
  /\ Resting
  /\ Ready(n)
  /\ saved' = IF n \in writable THEN saved \union {n} ELSE saved
  /\ actor' = At(IF n \in writable THEN "mark" ELSE "admit", n, "reply",
                 "succeeded", TRUE)
  /\ cancel' = cancel \ {n}
  /\ UNCHANGED <<up, stored, live, held, job, worker, tx>>

MarkStored ==
  /\ Standing("mark")
  /\ stored' = saved
  /\ actor' = [actor EXCEPT !.at = "acquire"]
  /\ UNCHANGED <<up, saved, live, held, cancel, job, worker, tx>>

MarkRefused ==
  /\ Standing("mark")
  /\ saved' = saved \ {actor.name}
  /\ actor' = Idle
  /\ UNCHANGED <<up, stored, live, held, cancel, job, worker, tx>>

LeaseGranted ==
  /\ Standing("acquire")
  /\ lease' = lease \union {actor.name}
  /\ actor' = [actor EXCEPT !.at = "admit"]
  /\ UNCHANGED <<up, marks, live, revoked, cancel, job, worker, tx>>

\* Mutant: the execution goes on without the lease it was refused.
LeaseOptional ==
  /\ Standing("acquire")
  /\ actor' = [actor EXCEPT !.at = "admit"]
  /\ UNCHANGED <<up, marks, live, held, cancel, job, worker, tx>>

\* The lease is refused, or was cancelled before it could be tracked and is
\* released at once: no SQL runs and the marker is taken back.
LeaseRefused ==
  /\ Standing("acquire")
  /\ saved' = saved \ {actor.name}
  /\ actor' = [actor EXCEPT !.at = "save"]
  /\ UNCHANGED <<up, stored, live, held, cancel, job, worker, tx>>

Admit ==
  /\ Standing("admit")
  /\ busy' = busy \union {actor.name}
  /\ job' = [job EXCEPT ![actor.name] = "running"]
  /\ worker' = [worker EXCEPT ![actor.name] = "executing"]
  /\ actor' = Idle
  /\ UNCHANGED <<up, marks, connections, connecting, writable, pending, held,
                 cancel, tx>>

AdmitRefused ==
  /\ Standing("admit")
  /\ Release(actor.name)
  /\ IF actor.name \in writable
       THEN /\ saved' = saved \ {actor.name}
            /\ actor' = [actor EXCEPT !.at = "save"]
       ELSE UNCHANGED saved /\ actor' = Idle
  /\ cancel' = cancel \ {actor.name}
  /\ UNCHANGED <<up, stored, live, job, worker, tx>>

\* "commit" and "rollback".
Settle(n, commit) ==
  /\ Resting
  /\ n \in connections
  /\ n \in pending \ busy
  /\ busy' = busy \union {n}
  /\ worker' = [worker EXCEPT ![n] = IF commit THEN "committing" ELSE "rolling"]
  /\ UNCHANGED <<up, marks, connections, connecting, writable, pending, held,
                 cancel, job, tx, actor>>

-----------------------------------------------------------------------------
(* Workers and the database they use *)

OpenDone(n) ==
  /\ worker[n] = "opening"
  /\ \E r \in {"opened", "unopened"} :
       /\ r = "opened" => n \notin cancel
       /\ worker' = [worker EXCEPT ![n] = r]
  /\ UNCHANGED <<up, marks, live, held, cancel, job, tx, actor>>

ReadDone(n) ==
  /\ worker[n] = "reading"
  /\ \E r \in {"catalog", "data", "failed"} : worker' = [worker EXCEPT ![n] = r]
  /\ UNCHANGED <<up, marks, live, held, cancel, job, tx, actor>>

\* BEGIN and the statement itself: from here the write is in the database.
BeginWrite(n) ==
  /\ worker[n] = "executing"
  /\ n \in writable
  /\ tx[n] = "none"
  /\ tx' = [tx EXCEPT ![n] = "open"]
  /\ UNCHANGED <<up, marks, live, held, cancel, job, worker, actor>>

\* The statement succeeded and nobody cancelled it: a write stays open.
ExecuteOk(n) ==
  /\ worker[n] = "executing"
  /\ n \notin cancel
  /\ n \in writable => tx[n] = "open"
  /\ worker' = [worker EXCEPT ![n] = "data"]
  /\ UNCHANGED <<up, marks, live, held, cancel, job, tx, actor>>

\* It failed and was undone, or succeeded but was cancelled and rolled back.
ExecuteUndone(n) ==
  /\ worker[n] = "executing"
  /\ worker' = [worker EXCEPT ![n] = "failed"]
  /\ tx' = [tx EXCEPT ![n] = "none"]
  /\ UNCHANGED <<up, marks, live, held, cancel, job, actor>>

\* Either way, the rollback itself could not be confirmed.
ExecuteUnknown(n) ==
  /\ worker[n] = "executing"
  /\ worker' = [worker EXCEPT ![n] = "unknown"]
  /\ tx' = [tx EXCEPT ![n] = IF @ = "open" THEN "doubt" ELSE @]
  /\ UNCHANGED <<up, marks, live, held, cancel, job, actor>>

\* A commit or rollback is acknowledged, or its reply is lost.
SettleDone(n) ==
  /\ worker[n] \in {"committing", "rolling"}
  /\ \/ /\ worker' = [worker EXCEPT ![n] = "settled"]
        /\ tx' = [tx EXCEPT ![n] = "none"]
     \/ /\ worker' = [worker EXCEPT ![n] = "unsettled"]
        /\ tx' = [tx EXCEPT ![n] = "doubt"]
  /\ UNCHANGED <<up, marks, live, held, cancel, job, actor>>

Work(n) ==
  \/ OpenDone(n) \/ ReadDone(n)
  \/ BeginWrite(n) \/ ExecuteOk(n) \/ ExecuteUndone(n) \/ ExecuteUnknown(n)
  \/ SettleDone(n)

-----------------------------------------------------------------------------
(* Cancellation, at any moment: the reader task fires tokens by itself *)

\* The token of a connection attempt, by "cancel" or by its job.
CancelAttempt(n) ==
  /\ up
  /\ n \in connecting
  /\ cancel' = cancel \union {n}
  /\ UNCHANGED <<up, marks, live, held, job, worker, tx, actor>>

\* The host's user cancels the job; from here a success is refused.
HostCancelsJob(n) ==
  /\ up
  /\ job[n] = "running"
  /\ job' = [job EXCEPT ![n] = "cancelling"]
  /\ UNCHANGED <<up, marks, live, held, cancel, worker, tx, actor>>

\* job.cancel_requested reaches the reader, which fires the tracked token.
JobCancelArrives(n) ==
  /\ up
  /\ job[n] = "cancelling"
  /\ n \in connections
  /\ cancel' = cancel \union {n}
  /\ UNCHANGED <<up, marks, live, held, job, worker, tx, actor>>

\* activity.cancel_requested: the reader fires the same token and queues the
\* event for the actor.
LeaseCancelArrives(n) ==
  /\ up
  /\ n \in lease
  /\ revoked' = revoked \union {n}
  /\ cancel' = cancel \union {n}
  /\ UNCHANGED <<up, marks, live, lease, job, worker, tx, actor>>

\* The "cancel" command: the connection's token, and its job if it has one (a
\* settlement runs without one).
UserCancel(n) ==
  /\ Resting
  /\ n \in busy \union pending
  /\ cancel' = cancel \union {n}
  /\ job' = IF n \in busy /\ job[n] = "running"
              THEN [job EXCEPT ![n] = "cancelling"] ELSE job
  /\ UNCHANGED <<up, marks, live, held, worker, tx, actor>>

-----------------------------------------------------------------------------
(* Rolling back in the actor: lease events, the idle timer, late cancels *)

\* Mutant: the event only fires the token, which no pending connection reads.
LeaseEventTokenOnly(n) ==
  /\ Resting
  /\ n \in revoked
  /\ revoked' = revoked \ {n}
  /\ cancel' = cancel \union {n}
  /\ UNCHANGED <<up, marks, live, lease, job, worker, tx, actor>>

\* cancel_lease(): a running operation sees the token, a pending one is rolled
\* back here.
LeaseEvent(n) ==
  /\ Resting
  /\ n \in revoked
  /\ revoked' = revoked \ {n}
  /\ cancel' = cancel \union {n}
  /\ actor' = IF n \in busy THEN actor
              ELSE At("rollback", n, "event", "cancelled", FALSE)
  /\ UNCHANGED <<up, marks, live, lease, job, worker, tx>>

\* Mutant: only a connection somebody cancelled expires.
ExpireCancelled(n) ==
  /\ Resting
  /\ n \in (lease \ busy) \intersect cancel
  /\ actor' = At("rollback", n, "event", "cancelled", FALSE)
  /\ UNCHANGED <<up, marks, live, held, cancel, job, worker, tx>>

\* expire(): five idle minutes, or the lease's own ten, are over.
Expire(n) ==
  /\ Resting
  /\ n \in lease \ busy
  /\ actor' = At("rollback", n, "event", "cancelled", FALSE)
  /\ UNCHANGED <<up, marks, live, held, cancel, job, worker, tx>>

\* db.settle(false) succeeds: the connection goes, its lease is released and
\* the marker is cleared and saved.  A read that was cancelled had no marker.
RolledBack ==
  /\ Standing("rollback")
  /\ LET n == actor.name IN
       /\ tx' = [tx EXCEPT ![n] = "none"]
       /\ Release(n)
       /\ Drop(n)
       /\ cancel' = cancel \ {n}
       /\ IF n \in lease \/ actor.next # "publish"
            THEN /\ saved' = saved \ {n}
                 /\ actor' = [actor EXCEPT !.at = "save", !.state = "cancelled"]
            ELSE /\ UNCHANGED saved
                 /\ actor' = After([actor EXCEPT !.state = "cancelled"])
  /\ UNCHANGED <<up, stored, connecting, job, worker>>

\* Mutant: a rollback that failed is reported like one that succeeded.
RollbackLostQuietly ==
  /\ Standing("rollback")
  /\ tx' = [tx EXCEPT ![actor.name] = IF @ = "open" THEN "doubt" ELSE @]
  /\ Release(actor.name)
  /\ Drop(actor.name)
  /\ cancel' = cancel \ {actor.name}
  /\ actor' = After([actor EXCEPT !.state = "cancelled"])
  /\ UNCHANGED <<up, marks, connecting, job, worker>>

\* It fails: the connection goes all the same and the marker stays.
RollbackLost ==
  /\ Standing("rollback")
  /\ LET n == actor.name IN
       /\ tx' = [tx EXCEPT ![n] = IF @ = "open" THEN "doubt" ELSE @]
       /\ Release(n)
       /\ Drop(n)
       /\ cancel' = cancel \ {n}
       /\ actor' = After([actor EXCEPT !.state =
                     IF n \in lease THEN "outcome_unknown" ELSE "cancelled"])
  /\ UNCHANGED <<up, marks, connecting, job, worker>>

\* save() after a marker was cleared in memory.
SaveDone ==
  /\ Standing("save")
  /\ stored' = saved
  /\ actor' = After(actor)
  /\ UNCHANGED <<up, saved, live, held, cancel, job, worker, tx>>

\* The document is refused.  A command reports it; for a completion taken while
\* a page was being replaced the command that did so reports it; elsewhere the
\* error ends the process (Crash).
SaveRefused ==
  /\ Standing("save")
  /\ actor.next # "event"
  /\ actor' = Idle
  /\ UNCHANGED <<up, marks, live, held, cancel, job, worker, tx>>

-----------------------------------------------------------------------------
(* complete(): the results of workers *)

Taken(n) == [worker EXCEPT ![n] = "none"]

CompleteConnect(n) ==
  /\ Resting
  /\ worker[n] \in {"opened", "unopened"}
  /\ worker' = Taken(n)
  /\ connecting' = connecting \ {n}
  /\ IF worker[n] = "opened" /\ n \notin cancel
       THEN /\ connections' = connections \union {n}
            /\ actor' = At("load", n, "publish", "succeeded", FALSE)
            /\ UNCHANGED writable
       ELSE /\ writable' = writable \ {n}
            /\ actor' = At("publish", n, "publish", "failed", FALSE)
            /\ UNCHANGED connections
  /\ cancel' = cancel \ {n}
  /\ UNCHANGED <<up, marks, busy, pending, held, job, tx>>

\* The first catalog of a new connection, if its page is still there.
LoadFirst ==
  /\ Standing("load")
  /\ Ready(actor.name)
  /\ busy' = busy \union {actor.name}
  /\ job' = [job EXCEPT ![actor.name] = "running"]
  /\ worker' = [worker EXCEPT ![actor.name] = "reading"]
  /\ actor' = After(actor)
  /\ UNCHANGED <<up, marks, connections, connecting, writable, pending, held,
                 cancel, tx>>

\* The page is gone, or its job was refused while a page was being replaced:
\* then the command that replaced it reports the error.
LoadSkipped ==
  /\ Standing("load")
  /\ actor' \in {After(actor), Idle}
  /\ UNCHANGED <<up, marks, live, held, cancel, job, worker, tx>>

\* Mutant: the connection stays busy.
CompleteCatalogBusy(n) ==
  /\ Resting
  /\ worker[n] = "catalog"
  /\ worker' = Taken(n)
  /\ actor' = At("publish", n, "publish", "succeeded", TRUE)
  /\ UNCHANGED <<up, marks, live, held, cancel, job, tx>>

CompleteCatalog(n) ==
  /\ Resting
  /\ worker[n] = "catalog"
  /\ worker' = Taken(n)
  /\ busy' = busy \ {n}
  /\ actor' = At("publish", n, "publish",
                 IF n \in cancel THEN "cancelled" ELSE "succeeded", TRUE)
  /\ UNCHANGED <<up, marks, connections, connecting, writable, pending, held,
                 cancel, job, tx>>

\* A result whose operation was cancelled is rolled back and its connection
\* retired; otherwise a connection that holds a lease becomes pending, and one
\* the driver can no longer use is dropped.
CompleteData(n) ==
  /\ Resting
  /\ worker[n] = "data"
  /\ worker' = Taken(n)
  /\ IF n \in cancel
       THEN /\ actor' = At("rollback", n, "publish", "cancelled", TRUE)
            /\ UNCHANGED live
       ELSE /\ actor' = At("publish", n, "publish", "succeeded", TRUE)
            /\ UNCHANGED connecting
            /\ \/ /\ busy' = busy \ {n}
                  /\ pending' = IF n \in lease THEN pending \union {n}
                                ELSE pending \ {n}
                  /\ UNCHANGED <<connections, writable>>
               \/ n \notin lease /\ Drop(n)
  /\ UNCHANGED <<up, marks, held, cancel, job, tx>>

CompleteSettled(n) ==
  /\ Resting
  /\ worker[n] = "settled"
  /\ worker' = Taken(n)
  /\ busy' = busy \ {n}
  /\ pending' = pending \ {n}
  /\ Release(n)
  /\ cancel' = cancel \ {n}     \* the token stays, but nothing reads it again
  /\ saved' = saved \ {n}
  /\ actor' = At("save", n, "publish", "succeeded", FALSE)
  /\ UNCHANGED <<up, stored, connections, connecting, writable, job, tx>>

\* Mutant: the marker goes whether or not the write is known to be undone.
CompleteFailedForgets(n) ==
  /\ Resting
  /\ worker[n] \in {"failed", "unknown", "unsettled"}
  /\ worker' = Taken(n)
  /\ Release(n)
  /\ Drop(n)
  /\ cancel' = cancel \ {n}
  /\ saved' = saved \ {n}
  /\ actor' = At("save", n, "publish", "failed", worker[n] # "unsettled")
  /\ UNCHANGED <<up, stored, connecting, job, tx>>

\* Every failed connection is retired; the marker is cleared only if a write
\* is known to be undone.
CompleteFailed(n) ==
  /\ Resting
  /\ worker[n] \in {"failed", "unknown", "unsettled"}
  /\ worker' = Taken(n)
  /\ Release(n)
  /\ Drop(n)
  /\ cancel' = cancel \ {n}
  /\ LET uncertain == worker[n] # "failed"
         state == IF uncertain /\ n \in lease THEN "outcome_unknown"
                  ELSE IF n \in cancel THEN "cancelled" ELSE "failed"
         own == worker[n] # "unsettled"
     IN IF n \in lease /\ ~uncertain
          THEN /\ saved' = saved \ {n}
               /\ actor' = At("save", n, "publish", state, own)
          ELSE /\ UNCHANGED saved
               /\ actor' = At("publish", n, "publish", state, own)
  /\ UNCHANGED <<up, stored, connecting, job, tx>>

\* Views are refreshed; then the first look for a cancellation that came late.
Published ==
  /\ Standing("publish")
  /\ actor' = [actor EXCEPT
       !.at = IF LateCancelled(actor.name) THEN "rollback" ELSE "finish",
       !.next = "finish"]
  /\ UNCHANGED <<up, marks, live, held, cancel, job, worker, tx>>

\* job.finish is accepted: never a success or failure of a job being cancelled.
FinishAccepted ==
  /\ Standing("finish")
  /\ (actor.own /\ job[actor.name] = "cancelling")
       => actor.state \in {"cancelled", "outcome_unknown"}
  /\ job' = IF actor.own THEN [job EXCEPT ![actor.name] = actor.state] ELSE job
  /\ actor' = IF LateCancelled(actor.name)
                THEN [actor EXCEPT !.at = "rollback", !.next = "event"]
                ELSE Idle
  /\ UNCHANGED <<up, marks, live, held, cancel, worker, tx>>

\* Mutant: the refusal is not passed on to a pending transaction.
FinishRefusedIgnored ==
  /\ Standing("finish")
  /\ actor.state \in {"succeeded", "failed"}
  /\ actor.own => job[actor.name] = "cancelling"
  /\ actor' = [actor EXCEPT !.at = "close", !.next = "close"]
  /\ UNCHANGED <<up, marks, live, held, cancel, job, worker, tx>>

\* Mutant: it is passed on to whatever now runs on the connection.
FinishRefusedAnyway ==
  /\ Standing("finish")
  /\ actor.state \in {"succeeded", "failed"}
  /\ actor.own => job[actor.name] = "cancelling"
  /\ cancel' = cancel \union ({actor.name} \intersect connections)
  /\ actor' = [actor EXCEPT
       !.at = IF LateCancelled(actor.name) THEN "rollback" ELSE "close",
       !.next = "close"]
  /\ UNCHANGED <<up, marks, live, held, job, worker, tx>>

\* It is refused because the job was cancelled: a pending transaction takes the
\* cancellation and is rolled back before the job is finished again.
FinishRefused ==
  /\ Standing("finish")
  /\ actor.state \in {"succeeded", "failed"}
  /\ actor.own => job[actor.name] = "cancelling"
  /\ LET n == actor.name
         caught == n \in pending /\ n \in lease
     IN /\ cancel' = IF caught THEN cancel \union {n} ELSE cancel
        /\ actor' = [actor EXCEPT !.at = IF caught THEN "rollback" ELSE "close",
                                  !.next = "close"]
  /\ UNCHANGED <<up, marks, live, held, job, worker, tx>>

\* The second job.finish, its reply ignored.
Close ==
  /\ Standing("close")
  /\ job' = IF actor.own
              THEN [job EXCEPT ![actor.name] =
                      IF actor.state = "outcome_unknown" THEN "outcome_unknown"
                      ELSE "cancelled"]
              ELSE job
  /\ actor' = Idle
  /\ UNCHANGED <<up, marks, live, held, cancel, worker, tx>>

-----------------------------------------------------------------------------
(* The process ends and starts again *)

\* Every connection, worker and lease goes with the process.  The writes in
\* undone were rolled back for certain; the others nobody has seen settle.
Exit(undone) ==
  /\ up' = FALSE
  /\ saved' = {}
  /\ connections' = {} /\ connecting' = {} /\ writable' = {}
  /\ busy' = {} /\ pending' = {}
  /\ lease' = {} /\ revoked' = {} /\ cancel' = {}
  /\ job' = [n \in Names |-> "none"]
  /\ worker' = [n \in Names |-> "none"]
  /\ tx' = [n \in Names |-> IF tx[n] # "open" THEN tx[n]
                            ELSE IF n \in undone THEN "none" ELSE "doubt"]
  /\ actor' = Idle
  /\ UNCHANGED stored

\* A kill, or an error that leaves run().
Crash == up /\ Exit({})

\* EOF or a closed transport: settle(false) on each connection that is not
\* busy, for one second each.  No marker is cleared.
Shutdown == Resting /\ \E undone \in SUBSET (pending \ busy) : Exit(undone)

Restart ==
  /\ ~up
  /\ up' = TRUE
  /\ saved' = stored
  /\ UNCHANGED <<stored, live, held, cancel, job, worker, tx, actor>>

-----------------------------------------------------------------------------
Command(n) ==
  \/ \E write \in BOOLEAN : Connect(n, write)
  \/ Disconnect(n) \/ ConfirmDisconnect(n) \/ Acknowledge(n)
  \/ Load(n) \/ Execute(n)
  \/ \E commit \in BOOLEAN : Settle(n, commit)
  \/ UserCancel(n)

Cancellation(n) ==
  \/ CancelAttempt(n) \/ HostCancelsJob(n) \/ JobCancelArrives(n)
  \/ LeaseCancelArrives(n)

Complete(n) ==
  \/ CompleteConnect(n) \/ CompleteCatalog(n) \/ CompleteData(n)
  \/ CompleteSettled(n) \/ CompleteFailed(n)

\* What ends the await the actor is suspended at.
Resume ==
  \/ MarkStored \/ MarkRefused
  \/ LeaseGranted \/ LeaseRefused
  \/ Admit \/ AdmitRefused
  \/ LoadFirst \/ LoadSkipped
  \/ RolledBack \/ RollbackLost
  \/ SaveDone \/ SaveRefused
  \/ Published \/ FinishAccepted \/ FinishRefused \/ Close

Next ==
  \/ \E n \in Names :
       \/ Command(n) \/ Work(n) \/ Cancellation(n)
       \/ LeaseEvent(n) \/ Expire(n) \/ Complete(n)
  \/ Resume
  \/ Crash \/ Shutdown \/ Restart

Spec == Init /\ [][Next]_vars

-----------------------------------------------------------------------------
(* Safety *)

\* A write that is in the database and not known to be settled has its marker
\* in the host's document, so that no crash, at any step of execute(),
\* complete() or a rollback, leaves it without one.
CrashSafe == \A n \in Names : tx[n] # "none" => n \in stored

\* Until it is settled or its outcome is lost, a write belongs to a connection
\* that holds its activity lease, and so to the timer and the host's cancel:
\* a lease is released only after the rollback or settlement (PLAN.md:240).
Protected ==
  up => \A n \in Names : tx[n] = "open" => n \in lease \intersect connections

\* A database whose outcome is unknown is not reused, in this process or after
\* a restart, before the user acknowledges it: no connection is opened to it
\* and no operation or settlement runs on it (README.md:211).
InDoubtNotReused ==
  \A n \in Names : tx[n] = "doubt" =>
    /\ n \notin connecting
    /\ worker[n] \notin Running

\* One operation at a time on each connection: whatever a worker does or has
\* sent belongs to a connection that is marked busy (or is being opened), so
\* nobody can use, settle, replace or drop it before its result is taken.
OneOperation ==
  \A n \in Names :
    /\ worker[n] \in {"opening", "opened", "unopened"} <=> n \in connecting
    /\ worker[n] \notin {"none", "opening", "opened", "unopened"}
         => n \in busy \intersect connections
    /\ actor = Idle /\ n \in busy => worker[n] # "none"

\* At most MaxConnections databases are live, counting the attempts that may
\* still succeed, however attempts and completions interleave.
LimitedConnections ==
  /\ connections \intersect connecting = {}
  /\ Cardinality(connections) + Cardinality(connecting) <= MaxConnections

\* A transaction left to the user belongs to a job the host saw succeed: a job
\* cancelled while its result was published or its finish was under way leaves
\* nothing to commit (APP-009).
NothingCancelledIsPending ==
  \A n \in Names : actor = Idle /\ n \in pending => job[n] = "succeeded"

\* What the host is told of a job is true of the database: a job reported
\* cancelled or failed left no write behind, neither open nor in doubt.
HonestVerdict ==
  \A n \in Names : job[n] \in {"cancelled", "failed"} => tx[n] = "none"

-----------------------------------------------------------------------------
(* Action properties *)

\* A read in progress is cancelled only through its own job or command: the
\* refused finish of the job that opened the connection, or of an earlier
\* operation, does not fire the token of the read that followed it.
OwnCancellation ==
  [][\A n \in Names :
       worker[n] \in {"reading", "catalog"} /\ n \in cancel' \ cancel
         => "cancelling" \in {job[n], job'[n]}]_vars

\* The promise of the recovery markers, kept by this module: the phase of a
\* profile is what the stored document and the database say together.  A write
\* outstanding without its marker has no phase.
Phase(n) == IF tx[n] = "none"
              THEN IF n \in stored THEN "marked" ELSE "clear"
              ELSE IF n \notin stored THEN "unmarked"
              ELSE IF tx[n] = "open" THEN "live" ELSE "doubt"

Marker == INSTANCE RecoveryMarker WITH phase <- [n \in Names |-> Phase(n)]

\* Every behaviour of the plugin, its workers and its crashes is one of the
\* abstract life cycle: marked before live, and out of doubt only by the user.
ImplementsMarker == Marker!Spec

-----------------------------------------------------------------------------
(* Liveness, of the profiles in Watched; all are alike, so one stands for all. *)

\* The host answers every request or closes the transport (protocol.rs:176
\* ends a request after eight seconds), a worker ends within its deadline, and
\* tokio::select! chooses at random among what is ready, so that no ready
\* completion, event or timer is passed over for ever.
Progress ==
  /\ WF_vars(Resume)
  /\ \A n \in Names : WF_vars(Work(n)) /\ SF_vars(Complete(n))
                      /\ SF_vars(LeaseEvent(n))

Timer == \A n \in Names : SF_vars(Expire(n))

LiveSpec == Spec /\ Progress

\* No transaction stays pending for ever, whatever the user does or omits: it
\* is settled, or rolled back by the timer, or lost with its process.
PendingEnds == Timer => \A n \in Watched : n \in pending ~> n \notin pending

\* Every operation and every connection attempt is answered.
OperationsEnd ==
  \A n \in Watched :
    n \in busy \union connecting ~> n \notin busy \union connecting

\* A lease the host cancels is released without the help of the timer, at
\* whatever step of its transaction the cancellation arrives (APP-007).
RevokedReleased == \A n \in Watched : n \in revoked ~> n \notin lease

=============================================================================
