-------------------------- MODULE DatabaseContract --------------------------
(***************************************************************************)
(* What execute and settle of the facade Database (src/src/db/mod.rs)      *)
(* promise their caller of one connection, for PostgreSQL and SQLite       *)
(* alike, without clients, drivers, wires, packets or transactions.        *)
(*                                                                         *)
(* An operation changes the database only by a COMMIT that the caller has  *)
(* asked for, and may do so after the caller has given up waiting for it.  *)
(* The caller keeps a connection only where it knows the outcome.          *)
(***************************************************************************)
EXTENDS Naturals

CONSTANT MaxOps   \* bound: operations executed on the connection

VARIABLES
  phase,     \* where the caller stands with its operation
  op,        \* the number of that operation
  write,     \* whether it may change the database
  kept,      \* the connection takes another operation
  told,      \* what the caller knows of each operation
  commits,   \* operations whose COMMIT was sent and may still take effect
  durable    \* operations whose changes are in the database for good

vars == <<phase, op, write, kept, told, commits, durable>>

Ops    == 1 .. MaxOps
Phases == {"idle", "running", "open", "committing", "rolling"}
Told   == {"nothing", "read", "open", "committed", "undone", "unknown"}

Init ==
  /\ phase = "idle" /\ op = 0 /\ write = FALSE /\ kept = TRUE
  /\ told = [o \in Ops |-> "nothing"] /\ commits = {} /\ durable = {}

\* An operation that has changed nothing.
Without(writes) == IF writes THEN "undone" ELSE "read"

Execute(writes) ==
  /\ phase = "idle" /\ kept /\ op < MaxOps
  /\ op' = op + 1 /\ write' = writes
  /\ \/ phase' = "running" /\ UNCHANGED <<kept, told>>
     \/ /\ told' = [told EXCEPT ![op'] = Without(writes)]     \* it is refused
        /\ kept' = FALSE /\ UNCHANGED phase
  /\ UNCHANGED <<commits, durable>>

\* No operation has any effect of its own, whatever is told of it.  A write
\* that succeeds stays open; after one that does not the connection is dropped.
Untouched == op \notin durable \cup commits
Returned ==
  /\ phase = "running" /\ Untouched
  /\ \/ /\ write /\ phase' = "open"
        /\ told' = [told EXCEPT ![op] = "open"] /\ UNCHANGED kept
     \/ /\ phase' = "idle" /\ kept' \in (IF write THEN {FALSE} ELSE BOOLEAN)
        /\ \/ told' = [told EXCEPT ![op] = Without(write)]
           \/ write /\ told' = [told EXCEPT ![op] = "unknown"]
  /\ UNCHANGED <<op, write, commits, durable>>

\* A COMMIT or ROLLBACK is sent, or fails to be sent.
Settle(commit) ==
  /\ phase = "open" /\ Untouched
  /\ phase' = IF commit THEN "committing" ELSE "rolling"
  /\ commits' \in {commits} \cup IF commit THEN {commits \cup {op}} ELSE {}
  /\ UNCHANGED <<op, write, kept, told, durable>>

\* A COMMIT takes effect, or never will.
Served(o) ==
  /\ o \in commits
  /\ commits' = commits \ {o}
  /\ durable' \in {durable, durable \cup {o}}
  /\ UNCHANGED <<phase, op, write, kept, told>>

\* The caller learns the outcome, which nothing can change any more, or that it
\* is not known, and then drops the connection.
Learned ==
  /\ phase \in {"committing", "rolling"}
  /\ phase' = "idle"
  /\ \/ /\ op \notin commits /\ (op \in durable <=> phase = "committing")
        /\ told' = [told EXCEPT ![op] = IF phase = "committing" THEN "committed" ELSE "undone"]
        /\ UNCHANGED kept
     \/ told' = [told EXCEPT ![op] = "unknown"] /\ kept' = FALSE
  /\ UNCHANGED <<op, write, commits, durable>>

\* The settlement of SQLite, whose worker does all of it at once.
Settled(commit) ==
  /\ phase = "open" /\ Untouched
  /\ phase' = "idle"
  /\ \/ /\ told' = [told EXCEPT ![op] = IF commit THEN "committed" ELSE "undone"]
        /\ durable' = durable \cup IF commit THEN {op} ELSE {}
        /\ UNCHANGED kept
     \/ told' = [told EXCEPT ![op] = "unknown"] /\ kept' = FALSE /\ UNCHANGED durable
  /\ UNCHANGED <<op, write, commits>>

Next ==
  \/ \E writes \in BOOLEAN : Execute(writes)
  \/ \E commit \in BOOLEAN : Settle(commit) \/ Settled(commit)
  \/ Returned \/ Learned \/ \E o \in Ops : Served(o)

Spec == Init /\ [][Next]_vars
=============================================================================
