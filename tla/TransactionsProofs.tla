------------------------- MODULE TransactionsProofs -------------------------
(***************************************************************************)
(* The safety of Transactions for any set of profiles, and that it         *)
(* implements RecoveryMarker.                                              *)
(*                                                                         *)
(* CrashSafe is not inductive: that a write has its marker depends on the  *)
(* lease its connection holds, on who may run on that connection, and on   *)
(* where the actor stands in execute() and in a rollback.  Inv says so;    *)
(* Reported adds what the actor knows while it is about to finish a job.   *)
(***************************************************************************)
EXTENDS Transactions, FiniteSetTheorems, TLAPS

Opening == {"opening", "opened", "unopened"}

\* A stopped process holds nothing.
Stopped ==
  ~up => /\ connections = {} /\ connecting = {} /\ busy = {} /\ pending = {}
         /\ lease = {} /\ revoked = {}
         /\ worker = [n \in Names |-> "none"]
         /\ \A n \in Names : tx[n] # "open"
         /\ actor = Idle

\* Outstanding writes are marked, in memory and in the document.
Marked ==
  \A n \in Names : tx[n] # "none" => n \in stored /\ (up => n \in saved)

\* A lease belongs to a marked connection; a pending connection holds one.
Leased ==
  /\ lease \subseteq connections \intersect writable
  /\ lease \subseteq saved \intersect stored
  /\ pending \subseteq lease
  /\ revoked \subseteq lease
  /\ \A n \in lease : \/ n \in busy \union pending
                      \/ actor.at = "admit" /\ actor.name = n

\* Whose each worker is.
Working ==
  /\ connections \intersect connecting = {}
  /\ busy \subseteq connections
  /\ \A n \in Names :
       /\ worker[n] \in Opening <=> n \in connecting
       /\ worker[n] \notin Opening \union {"none"} => n \in busy
       /\ n \in busy => \/ worker[n] # "none"
                        \/ actor.at = "rollback" /\ actor.name = n

\* What each worker's state says of the connection and of the database.
Outcome ==
  \A n \in Names :
    /\ tx[n] = "open" => n \in lease
    /\ tx[n] = "open" => n \in busy \union pending
    /\ tx[n] = "doubt" => /\ worker[n] \in {"none", "unknown", "unsettled"}
                          /\ worker[n] = "none" => n \notin connections
    /\ worker[n] = "executing" => (n \in writable <=> n \in lease)
    /\ worker[n] \in {"executing", "data", "failed"} => n \notin pending
    /\ worker[n] \in {"reading", "catalog"} => n \notin lease
    /\ worker[n] \in {"committing", "rolling", "settled", "unsettled"}
         => n \in pending
    /\ worker[n] \in {"failed", "settled", "catalog"} => tx[n] = "none"
    /\ worker[n] \in {"unknown", "unsettled"} => tx[n] # "open"
    /\ worker[n] \in {"committing", "rolling"} => tx[n] = "open"
    /\ worker[n] = "data" /\ n \in lease => tx[n] = "open"
    /\ worker[n] = "none" /\ n \in pending => tx[n] = "open"

\* Where the actor may stand, and for whom.
Suspended ==
  LET n == actor.name IN
    /\ actor = Idle \/ n \in Names
    /\ actor.at = "idle" => actor = Idle
    /\ actor.at \in {"mark", "acquire", "admit", "load"} =>
         /\ n \in connections /\ n \notin busy \union pending
         /\ worker[n] = "none" /\ tx[n] = "none"
    /\ actor.at \in {"mark", "acquire"} => n \in writable /\ n \notin lease
    /\ actor.at = "mark" => n \in saved
    /\ actor.at = "acquire" => n \in saved \intersect stored
    /\ actor.at = "admit" => (n \in writable <=> n \in lease)
    /\ actor.at \in {"mark", "acquire", "admit"} => actor.next = "reply"
    /\ actor.at = "rollback" => /\ n \in connections /\ worker[n] = "none"
                                /\ tx[n] # "doubt"
    /\ actor.at = "save" /\ actor.next \in {"publish", "finish"}
         => n \notin pending
    /\ actor.at \in {"publish", "finish"} => n \notin busy \intersect pending

Inv == /\ TypeOK /\ Stopped /\ Marked /\ Leased /\ Working /\ Outcome
       /\ Suspended


-----------------------------------------------------------------------------
\* Nothing is connected, marked or written at first.
LEMMA InitInv == Init => Inv
BY DEF Init, Inv, TypeOK, Stopped, Marked, Leased, Working, Outcome, Suspended,
       Opening, Idle, Actors, Points, Nexts, Verdicts, Jobs, Workers, Outcomes,
       Results, Running

\* The resting actor is an actor.
LEMMA IdleType == Idle \in Actors
BY DEF Idle, Actors, Points, Nexts, Verdicts

\* So is one that a handler sends to an await.
LEMMA AtType ==
  ASSUME NEW point \in Points, NEW n \in Names, NEW next \in Nexts,
         NEW state \in Verdicts, NEW own \in BOOLEAN
  PROVE  At(point, n, next, state, own) \in Actors
BY DEF At, Actors

\* So is one that moves on.
LEMMA MoveType ==
  ASSUME NEW a \in Actors, NEW point \in Points
  PROVE  [a EXCEPT !.at = point] \in Actors
BY DEF Actors

\* So is one that goes on after a rollback or a save.
LEMMA AfterType == ASSUME NEW a \in Actors PROVE After(a) \in Actors
BY IdleType DEF After, Actors, Points, Nexts

\* connect() touches no profile with a marker, an operation or a lease.
LEMMA ConnectInv ==
  ASSUME Inv, NEW n \in Names, NEW write \in BOOLEAN, Connect(n, write)
  PROVE  Inv'
<1> USE DEF Inv, Connect, Open, Resting, marks, held, Idle
<1>1. TypeOK' BY DEF TypeOK, Jobs, Workers, Running
<1>2. Stopped' BY DEF Stopped
<1>3. Marked' BY DEF Marked
<1>4. Leased' BY DEF Leased
<1>5. Working' BY DEF Working, TypeOK, Opening
<1>6. Outcome' BY DEF Outcome, TypeOK, Marked
<1>7. Suspended' BY DEF Suspended
<1> QED BY <1>1, <1>2, <1>3, <1>4, <1>5, <1>6, <1>7

\* "disconnect" takes a connection nobody works on, so nothing is left behind.
LEMMA DisconnectInv == ASSUME Inv, NEW n \in Names, Disconnect(n) PROVE Inv'
<1> USE DEF Inv, Disconnect, Drop, Resting, marks, held, Idle
<1>1. TypeOK' BY DEF TypeOK, Jobs
<1>2. Stopped' BY DEF Stopped
<1>3. Marked' BY DEF Marked
<1>4. Leased' BY DEF Leased
<1>5. Working' BY DEF Working
<1>6. Outcome' BY DEF Outcome, Leased
<1>7. Suspended' BY DEF Suspended
<1> QED BY <1>1, <1>2, <1>3, <1>4, <1>5, <1>6, <1>7

\* The confirmed disconnect only starts a rollback.
LEMMA ConfirmDisconnectInv ==
  ASSUME Inv, NEW n \in Names, ConfirmDisconnect(n)
  PROVE  Inv'
<1> USE DEF Inv, ConfirmDisconnect, At, Resting, marks, live, held, Idle
<1>1. TypeOK' BY DEF TypeOK, Actors, Points, Verdicts
<1>2. Stopped' BY DEF Stopped
<1>3. Marked' BY DEF Marked
<1>4. Leased' BY DEF Leased
<1>5. Working' BY DEF Working
<1>6. Outcome' BY DEF Outcome
<1>7. Suspended' BY DEF Suspended, Working, Outcome
<1> QED BY <1>1, <1>2, <1>3, <1>4, <1>5, <1>6, <1>7

\* acknowledge() ends a doubt: no write of the profile is open when it runs.
LEMMA AcknowledgeInv == ASSUME Inv, NEW n \in Names, Acknowledge(n) PROVE Inv'
<1>3. Marked'
  <2> USE DEF Inv, Acknowledge, live
  <2>1. tx[n] # "open" BY DEF Outcome
  <2>2. tx'[n] = "none" BY <2>1 DEF TypeOK, Outcomes
  <2>3. \A m \in Names \ {n} : tx'[m] = tx[m] BY DEF TypeOK
  <2> QED BY <2>2, <2>3 DEF Marked
<1> USE DEF Inv, Acknowledge, At, Resting, live, held, Idle
<1>1. TypeOK' BY DEF TypeOK, Actors, Points, Outcomes
<1>2. Stopped' BY DEF Stopped
<1>4. Leased' BY DEF Leased
<1>5. Working' BY DEF Working
<1>6. Outcome' BY DEF Outcome
<1>7. Suspended' BY DEF Suspended
<1> QED BY <1>1, <1>2, <1>3, <1>4, <1>5, <1>6, <1>7

\* load() makes an unmarked, resting connection busy with a read.
LEMMA LoadInv == ASSUME Inv, NEW n \in Names, Load(n) PROVE Inv'
<1> USE DEF Inv, Load, Ready, Resting, marks, held, Idle
<1>1. TypeOK' BY DEF TypeOK, Jobs, Workers, Running
<1>2. Stopped' BY DEF Stopped
<1>3. Marked' BY DEF Marked
<1>4. Leased' BY DEF Leased
<1>5. Working' BY DEF Working, TypeOK, Opening
<1>6. Outcome' BY DEF Outcome, Marked, Leased
<1>7. Suspended' BY DEF Suspended
<1> QED BY <1>1, <1>2, <1>3, <1>4, <1>5, <1>6, <1>7

\* execute() marks a writable profile in memory before anything else.
LEMMA ExecuteInv == ASSUME Inv, NEW n \in Names, Execute(n) PROVE Inv'
<1> USE DEF Inv, Execute, Ready, At, Resting, live, held, Idle
<1>1. TypeOK' BY DEF TypeOK, Actors, Points
<1>2. Stopped' BY DEF Stopped
<1>3. Marked' BY DEF Marked
<1>4. Leased' BY DEF Leased
<1>5. Working' BY DEF Working
<1>6. Outcome' BY DEF Outcome
<1>7. Suspended' BY DEF Suspended, Marked, Leased, Working
<1> QED BY <1>1, <1>2, <1>3, <1>4, <1>5, <1>6, <1>7

\* The marker reaches the document.
LEMMA MarkStoredInv == ASSUME Inv, MarkStored PROVE Inv'
<1> USE DEF Inv, MarkStored, Standing, live, held
<1>1. TypeOK' BY DEF TypeOK, Actors, Points
<1>2. Stopped' BY DEF Stopped
<1>3. Marked' BY DEF Marked
<1>4. Leased' BY DEF Leased
<1>5. Working' BY DEF Working
<1>6. Outcome' BY DEF Outcome
<1>7. Suspended' BY DEF Suspended, TypeOK
<1> QED BY <1>1, <1>2, <1>3, <1>4, <1>5, <1>6, <1>7

\* The document is refused: nothing was begun, so the marker may go.
LEMMA MarkRefusedInv == ASSUME Inv, MarkRefused PROVE Inv'
<1> USE DEF Inv, MarkRefused, Standing, live, held, Idle
<1>1. TypeOK' BY DEF TypeOK, Suspended, Actors, Points, Verdicts
<1>2. Stopped' BY DEF Stopped
<1>3. Marked' BY DEF Marked, Suspended
<1>4. Leased' BY DEF Leased, Suspended
<1>5. Working' BY DEF Working
<1>6. Outcome' BY DEF Outcome
<1>7. Suspended' BY DEF Suspended
<1> QED BY <1>1, <1>2, <1>3, <1>4, <1>5, <1>6, <1>7

\* A granted lease belongs to a profile whose marker is stored.
LEMMA LeaseGrantedInv == ASSUME Inv, LeaseGranted PROVE Inv'
<1> USE DEF Inv, LeaseGranted, Standing, marks, live
<1>1. TypeOK' BY DEF TypeOK, Suspended, Actors, Points
<1>2. Stopped' BY DEF Stopped
<1>3. Marked' BY DEF Marked
<1>4. Leased' BY DEF Leased, Suspended
<1>5. Working' BY DEF Working
<1>6. Outcome' BY DEF Outcome, Suspended
<1>7. Suspended' BY DEF Suspended, TypeOK
<1> QED BY <1>1, <1>2, <1>3, <1>4, <1>5, <1>6, <1>7

\* A refused lease: nothing was begun.
LEMMA LeaseRefusedInv == ASSUME Inv, LeaseRefused PROVE Inv'
<1> USE DEF Inv, LeaseRefused, Standing, live, held
<1>1. TypeOK' BY DEF TypeOK, Actors, Points
<1>2. Stopped' BY DEF Stopped
<1>3. Marked' BY DEF Marked, Suspended
<1>4. Leased' BY DEF Leased, Suspended
<1>5. Working' BY DEF Working
<1>6. Outcome' BY DEF Outcome
<1>7. Suspended' BY DEF Suspended, TypeOK
<1> QED BY <1>1, <1>2, <1>3, <1>4, <1>5, <1>6, <1>7

\* The worker starts with the lease its access mode calls for.
LEMMA AdmitInv == ASSUME Inv, Admit PROVE Inv'
<1> USE DEF Inv, Admit, Standing, marks, held, Idle
<1>1. TypeOK' BY DEF TypeOK, Suspended, Actors, Points, Verdicts, Jobs,
         Workers, Running
<1>2. Stopped' BY DEF Stopped
<1>3. Marked' BY DEF Marked
<1>4. Leased' BY DEF Leased
<1>5. Working' BY DEF Working, TypeOK, Suspended, Opening
<1>6. Outcome' BY DEF Outcome, Suspended
<1>7. Suspended' BY DEF Suspended
<1> QED BY <1>1, <1>2, <1>3, <1>4, <1>5, <1>6, <1>7

\* The job is refused: the lease goes back and the marker with it.
LEMMA AdmitRefusedInv == ASSUME Inv, AdmitRefused PROVE Inv'
<1>0. actor' \in Actors
  BY IdleType, MoveType DEF Inv, TypeOK, AdmitRefused, Standing, Points
<1> USE DEF Inv, AdmitRefused, Release, Standing, live, Idle
<1>1. TypeOK' BY <1>0 DEF TypeOK
<1>2. Stopped' BY DEF Stopped
<1>3. Marked' BY DEF Marked, Suspended
<1>4. Leased' BY DEF Leased, Suspended
<1>5. Working' BY DEF Working
<1>6. Outcome' BY DEF Outcome, Suspended
<1>7. Suspended' BY DEF Suspended, TypeOK, Actors
<1> QED BY <1>1, <1>2, <1>3, <1>4, <1>5, <1>6, <1>7

\* settle() works on a pending connection, which still has its write.
LEMMA SettleInv ==
  ASSUME Inv, NEW n \in Names, NEW commit \in BOOLEAN, Settle(n, commit)
  PROVE  Inv'
<1> USE DEF Inv, Settle, Resting, marks, held, Idle
<1>1. TypeOK' BY DEF TypeOK, Workers, Running
<1>2. Stopped' BY DEF Stopped
<1>3. Marked' BY DEF Marked
<1>4. Leased' BY DEF Leased
<1>5. Working' BY DEF Working, TypeOK, Opening
<1>6. Outcome' BY DEF Outcome, Working
<1>7. Suspended' BY DEF Suspended
<1> QED BY <1>1, <1>2, <1>3, <1>4, <1>5, <1>6, <1>7

\* A connection attempt ends.
LEMMA OpenDoneInv == ASSUME Inv, NEW n \in Names, OpenDone(n) PROVE Inv'
<1> USE DEF Inv, OpenDone, marks, live, held
<1>1. TypeOK' BY DEF TypeOK, Workers, Results
<1>2. Stopped' BY DEF Stopped
<1>3. Marked' BY DEF Marked
<1>4. Leased' BY DEF Leased
<1>5. Working' BY DEF Working, Opening
<1>6. Outcome' BY DEF Outcome
<1>7. Suspended' BY DEF Suspended
<1> QED BY <1>1, <1>2, <1>3, <1>4, <1>5, <1>6, <1>7

\* A read ends; it has no lease and no write.
LEMMA ReadDoneInv == ASSUME Inv, NEW n \in Names, ReadDone(n) PROVE Inv'
<1> USE DEF Inv, ReadDone, marks, live, held
<1>1. TypeOK' BY DEF TypeOK, Workers, Results
<1>2. Stopped' BY DEF Stopped
<1>3. Marked' BY DEF Marked
<1>4. Leased' BY DEF Leased
<1>5. Working' BY DEF Working, Opening
<1>6. Outcome' BY DEF Outcome, TypeOK, Leased, Outcomes
<1>7. Suspended' BY DEF Suspended
<1> QED BY <1>1, <1>2, <1>3, <1>4, <1>5, <1>6, <1>7

\* BEGIN: the profile is marked and leased.
LEMMA BeginWriteInv == ASSUME Inv, NEW n \in Names, BeginWrite(n) PROVE Inv'
<1> USE DEF Inv, BeginWrite, marks, live, held
<1>1. TypeOK' BY DEF TypeOK, Outcomes
<1>2. Stopped' BY DEF Stopped
<1>3. Marked' BY DEF Marked, Leased, Outcome
<1>4. Leased' BY DEF Leased
<1>5. Working' BY DEF Working
<1>6. Outcome' BY DEF Outcome, Leased, Working
<1>7. Suspended' BY DEF Suspended
<1> QED BY <1>1, <1>2, <1>3, <1>4, <1>5, <1>6, <1>7

\* The statement ends well.
LEMMA ExecuteOkInv == ASSUME Inv, NEW n \in Names, ExecuteOk(n) PROVE Inv'
<1> USE DEF Inv, ExecuteOk, marks, live, held
<1>1. TypeOK' BY DEF TypeOK, Workers, Results
<1>2. Stopped' BY DEF Stopped
<1>3. Marked' BY DEF Marked
<1>4. Leased' BY DEF Leased
<1>5. Working' BY DEF Working, Opening
<1>6. Outcome' BY DEF Outcome
<1>7. Suspended' BY DEF Suspended
<1> QED BY <1>1, <1>2, <1>3, <1>4, <1>5, <1>6, <1>7

\* The statement is undone.
LEMMA ExecuteUndoneInv ==
  ASSUME Inv, NEW n \in Names, ExecuteUndone(n)
  PROVE  Inv'
<1> USE DEF Inv, ExecuteUndone, marks, live, held
<1>1. TypeOK' BY DEF TypeOK, Workers, Outcomes, Results
<1>2. Stopped' BY DEF Stopped
<1>3. Marked' BY DEF Marked
<1>4. Leased' BY DEF Leased
<1>5. Working' BY DEF Working, Opening
<1>6. Outcome' BY DEF Outcome, TypeOK
<1>7. Suspended' BY DEF Suspended
<1> QED BY <1>1, <1>2, <1>3, <1>4, <1>5, <1>6, <1>7

\* The statement's rollback is not confirmed.
LEMMA ExecuteUnknownInv ==
  ASSUME Inv, NEW n \in Names, ExecuteUnknown(n)
  PROVE  Inv'
<1> USE DEF Inv, ExecuteUnknown, marks, live, held
<1>1. TypeOK' BY DEF TypeOK, Workers, Outcomes, Results
<1>2. Stopped' BY DEF Stopped
<1>3. Marked' BY DEF Marked
<1>4. Leased' BY DEF Leased
<1>5. Working' BY DEF Working, Opening
<1>6. Outcome' BY DEF Outcome, TypeOK
<1>7. Suspended' BY DEF Suspended
<1> QED BY <1>1, <1>2, <1>3, <1>4, <1>5, <1>6, <1>7

\* A commit or rollback ends, or its reply is lost.
LEMMA SettleDoneInv == ASSUME Inv, NEW n \in Names, SettleDone(n) PROVE Inv'
<1> USE DEF Inv, SettleDone, marks, live, held
<1>1. TypeOK' BY DEF TypeOK, Workers, Outcomes, Results
<1>2. Stopped' BY DEF Stopped
<1>3. Marked' BY DEF Marked, TypeOK, Leased, Outcome
<1>4. Leased' BY DEF Leased
<1>5. Working' BY DEF Working, TypeOK, Opening
<1>6. Outcome' BY DEF Outcome, TypeOK
<1>7. Suspended' BY DEF Suspended, TypeOK
<1> QED BY <1>1, <1>2, <1>3, <1>4, <1>5, <1>6, <1>7

\* Tokens are no part of the invariant.
LEMMA CancelAttemptInv ==
  ASSUME Inv, NEW n \in Names, CancelAttempt(n)
  PROVE  Inv'
<1> USE DEF Inv, CancelAttempt, marks, live, held
<1>1. TypeOK' BY DEF TypeOK, Stopped
<1>2. Stopped' BY DEF Stopped
<1>3. Marked' BY DEF Marked
<1>4. Leased' BY DEF Leased
<1>5. Working' BY DEF Working
<1>6. Outcome' BY DEF Outcome
<1>7. Suspended' BY DEF Suspended
<1> QED BY <1>1, <1>2, <1>3, <1>4, <1>5, <1>6, <1>7

\* Nor is the host's view of a job.
LEMMA HostCancelsJobInv ==
  ASSUME Inv, NEW n \in Names, HostCancelsJob(n)
  PROVE  Inv'
<1> USE DEF Inv, HostCancelsJob, marks, live, held
<1>1. TypeOK' BY DEF TypeOK, Jobs
<1>2. Stopped' BY DEF Stopped
<1>3. Marked' BY DEF Marked
<1>4. Leased' BY DEF Leased
<1>5. Working' BY DEF Working
<1>6. Outcome' BY DEF Outcome
<1>7. Suspended' BY DEF Suspended
<1> QED BY <1>1, <1>2, <1>3, <1>4, <1>5, <1>6, <1>7

\* A job's cancellation only fires the token.
LEMMA JobCancelArrivesInv ==
  ASSUME Inv, NEW n \in Names, JobCancelArrives(n)
  PROVE  Inv'
<1> USE DEF Inv, JobCancelArrives, marks, live, held
<1>1. TypeOK' BY DEF TypeOK, Stopped
<1>2. Stopped' BY DEF Stopped
<1>3. Marked' BY DEF Marked
<1>4. Leased' BY DEF Leased
<1>5. Working' BY DEF Working
<1>6. Outcome' BY DEF Outcome
<1>7. Suspended' BY DEF Suspended
<1> QED BY <1>1, <1>2, <1>3, <1>4, <1>5, <1>6, <1>7

\* A lease's cancellation marks a lease that is held.
LEMMA LeaseCancelArrivesInv ==
  ASSUME Inv, NEW n \in Names, LeaseCancelArrives(n)
  PROVE  Inv'
<1> USE DEF Inv, LeaseCancelArrives, marks, live
<1>1. TypeOK' BY DEF TypeOK, Stopped
<1>2. Stopped' BY DEF Stopped
<1>3. Marked' BY DEF Marked
<1>4. Leased' BY DEF Leased
<1>5. Working' BY DEF Working
<1>6. Outcome' BY DEF Outcome
<1>7. Suspended' BY DEF Suspended
<1> QED BY <1>1, <1>2, <1>3, <1>4, <1>5, <1>6, <1>7

\* "cancel" only fires tokens.
LEMMA UserCancelInv == ASSUME Inv, NEW n \in Names, UserCancel(n) PROVE Inv'
<1> USE DEF Inv, UserCancel, Resting, marks, live, held, Idle
<1>1. TypeOK' BY DEF TypeOK, Jobs
<1>2. Stopped' BY DEF Stopped
<1>3. Marked' BY DEF Marked
<1>4. Leased' BY DEF Leased
<1>5. Working' BY DEF Working
<1>6. Outcome' BY DEF Outcome
<1>7. Suspended' BY DEF Suspended
<1> QED BY <1>1, <1>2, <1>3, <1>4, <1>5, <1>6, <1>7

\* cancel_lease() starts a rollback of a connection that is not busy.
LEMMA LeaseEventInv == ASSUME Inv, NEW n \in Names, LeaseEvent(n) PROVE Inv'
<1> USE DEF Inv, LeaseEvent, At, Resting, marks, live, Idle
<1>1. TypeOK' BY DEF TypeOK, Actors, Points, Nexts, Verdicts
<1>2. Stopped' BY DEF Stopped
<1>3. Marked' BY DEF Marked
<1>4. Leased' BY DEF Leased
<1>5. Working' BY DEF Working
<1>6. Outcome' BY DEF Outcome
<1>7. Suspended' BY DEF Suspended, Leased, Working, Outcome
<1> QED BY <1>1, <1>2, <1>3, <1>4, <1>5, <1>6, <1>7

\* expire() starts a rollback of a connection that is not busy.
LEMMA ExpireInv == ASSUME Inv, NEW n \in Names, Expire(n) PROVE Inv'
<1> USE DEF Inv, Expire, At, Resting, marks, live, held, Idle
<1>1. TypeOK' BY DEF TypeOK, Actors, Points, Nexts, Verdicts
<1>2. Stopped' BY DEF Stopped
<1>3. Marked' BY DEF Marked
<1>4. Leased' BY DEF Leased
<1>5. Working' BY DEF Working
<1>6. Outcome' BY DEF Outcome
<1>7. Suspended' BY DEF Suspended, Leased, Working, Outcome
<1> QED BY <1>1, <1>2, <1>3, <1>4, <1>5, <1>6, <1>7

\* A confirmed rollback takes write, lease and marker together.
LEMMA RolledBackInv == ASSUME Inv, RolledBack PROVE Inv'
<1>0. actor' \in Actors
  <2>1. [actor EXCEPT !.state = "cancelled"] \in Actors
    BY DEF Inv, TypeOK, Actors, Verdicts
  <2>2. [actor EXCEPT !.at = "save", !.state = "cancelled"] \in Actors
    BY DEF Inv, TypeOK, Actors, Verdicts, Points
  <2> QED BY <2>1, <2>2, AfterType DEF RolledBack
<1> USE DEF Inv, RolledBack, Release, Drop, After, Standing, Idle
<1>1. TypeOK' BY <1>0 DEF TypeOK, Outcomes
<1>2. Stopped' BY DEF Stopped
<1>3. Marked' BY DEF Marked, TypeOK
<1>4. Leased' BY DEF Leased
<1>5. Working' BY DEF Working, Suspended
<1>6. Outcome' BY DEF Outcome, TypeOK, Suspended
<1>7. Suspended'
  <2>1. \/ actor' = Idle
        \/ /\ actor'.name = actor.name
           /\ actor'.at \in {"save", "publish", "finish", "close"}
    BY DEF TypeOK, Actors, Nexts
  <2>2. actor.name \in Names BY DEF Suspended
  <2>3. actor.name \notin busy' \union pending' OBVIOUS
  <2> QED BY <2>1, <2>2, <2>3 DEF Suspended
<1> QED BY <1>1, <1>2, <1>3, <1>4, <1>5, <1>6, <1>7

\* A failed rollback leaves a doubt, and its marker.
LEMMA RollbackLostInv == ASSUME Inv, RollbackLost PROVE Inv'
<1> USE DEF Inv, RollbackLost, Release, Drop, After, Standing, marks, Idle
<1>1. TypeOK' BY DEF TypeOK, Actors, Points, Nexts, Verdicts, Outcomes,
         Suspended
<1>2. Stopped' BY DEF Stopped
<1>3. Marked' BY DEF Marked
<1>4. Leased' BY DEF Leased
<1>5. Working' BY DEF Working, Suspended
<1>6. Outcome' BY DEF Outcome, TypeOK, Suspended
<1>7. Suspended' BY DEF Suspended, TypeOK, Actors, Nexts
<1> QED BY <1>1, <1>2, <1>3, <1>4, <1>5, <1>6, <1>7

\* The document follows the memory; no open or doubtful write lost its marker
\* there.
LEMMA SaveDoneInv == ASSUME Inv, SaveDone PROVE Inv'
<1> USE DEF Inv, SaveDone, After, Standing, live, held, Idle
<1>1. TypeOK' BY DEF TypeOK, Actors, Points, Nexts, Verdicts
<1>2. Stopped' BY DEF Stopped
<1>3. Marked' BY DEF Marked
<1>4. Leased' BY DEF Leased
<1>5. Working' BY DEF Working
<1>6. Outcome' BY DEF Outcome
<1>7. Suspended' BY DEF Suspended, TypeOK, Actors, Nexts
<1> QED BY <1>1, <1>2, <1>3, <1>4, <1>5, <1>6, <1>7

\* The document stays behind, with a marker too many.
LEMMA SaveRefusedInv == ASSUME Inv, SaveRefused PROVE Inv'
<1> USE DEF Inv, SaveRefused, Standing, marks, live, held, Idle
<1>1. TypeOK' BY DEF TypeOK, Actors, Points, Nexts, Verdicts
<1>2. Stopped' BY DEF Stopped
<1>3. Marked' BY DEF Marked
<1>4. Leased' BY DEF Leased
<1>5. Working' BY DEF Working
<1>6. Outcome' BY DEF Outcome
<1>7. Suspended' BY DEF Suspended
<1> QED BY <1>1, <1>2, <1>3, <1>4, <1>5, <1>6, <1>7

\* The attempt becomes a connection, or nothing.
LEMMA CompleteConnectInv ==
  ASSUME Inv, NEW n \in Names, CompleteConnect(n)
  PROVE  Inv'
<1>0. actor' \in Actors BY AtType DEF CompleteConnect, Points, Nexts, Verdicts
<1> USE DEF Inv, CompleteConnect, At, Taken, Resting, marks, held, Idle
<1>1. TypeOK' BY <1>0 DEF TypeOK, Workers
<1>2. Stopped' BY DEF Stopped
<1>3. Marked' BY DEF Marked
<1>4. Leased' BY DEF Leased, Working, Opening
<1>5. Working' BY DEF Working, TypeOK, Opening
<1>6. Outcome' BY DEF Outcome, Leased, Working, Opening
<1>7. Suspended' BY DEF Suspended, TypeOK, Leased, Working, Outcome, Opening,
         Outcomes
<1> QED BY <1>1, <1>2, <1>3, <1>4, <1>5, <1>6, <1>7

\* The first catalog read of a new connection.
LEMMA LoadFirstInv == ASSUME Inv, LoadFirst PROVE Inv'
<1> USE DEF Inv, LoadFirst, Ready, After, Standing, marks, held, Idle
<1>1. TypeOK' BY DEF TypeOK, Actors, Points, Nexts, Verdicts, Jobs, Workers,
         Running
<1>2. Stopped' BY DEF Stopped
<1>3. Marked' BY DEF Marked
<1>4. Leased' BY DEF Leased
<1>5. Working' BY DEF Working, TypeOK, Opening
<1>6. Outcome' BY DEF Outcome, Marked, Leased
<1>7. Suspended' BY DEF Suspended, TypeOK, Actors, Nexts
<1> QED BY <1>1, <1>2, <1>3, <1>4, <1>5, <1>6, <1>7

\* No first read.
LEMMA LoadSkippedInv == ASSUME Inv, LoadSkipped PROVE Inv'
<1>0. actor' \in Actors BY IdleType, AfterType DEF LoadSkipped, Inv, TypeOK
<1> USE DEF Inv, LoadSkipped, After, Standing, marks, live, held, Idle
<1>1. TypeOK' BY <1>0 DEF TypeOK
<1>2. Stopped' BY DEF Stopped
<1>3. Marked' BY DEF Marked
<1>4. Leased' BY DEF Leased
<1>5. Working' BY DEF Working
<1>6. Outcome' BY DEF Outcome
<1>7. Suspended' BY DEF Suspended, TypeOK, Actors, Nexts
<1> QED BY <1>1, <1>2, <1>3, <1>4, <1>5, <1>6, <1>7

\* A catalog result frees its connection.
LEMMA CompleteCatalogInv ==
  ASSUME Inv, NEW n \in Names, CompleteCatalog(n)
  PROVE  Inv'
<1> USE DEF Inv, CompleteCatalog, At, Taken, Resting, marks, held, Idle
<1>1. TypeOK' BY DEF TypeOK, Actors, Points, Nexts, Verdicts, Workers
<1>2. Stopped' BY DEF Stopped
<1>3. Marked' BY DEF Marked
<1>4. Leased' BY DEF Leased, Outcome
<1>5. Working' BY DEF Working, TypeOK, Opening
<1>6. Outcome' BY DEF Outcome, Leased
<1>7. Suspended' BY DEF Suspended
<1> QED BY <1>1, <1>2, <1>3, <1>4, <1>5, <1>6, <1>7

\* A leased result becomes pending, with its write.
LEMMA CompleteDataInv ==
  ASSUME Inv, NEW n \in Names, CompleteData(n)
  PROVE  Inv'
<1>0. actor' \in Actors BY AtType DEF CompleteData, Points, Nexts, Verdicts
<1> USE DEF Inv, CompleteData, At, Taken, Drop, Resting, marks, live, held,
         Idle
<1>1. TypeOK' BY <1>0 DEF TypeOK, Workers
<1>2. Stopped' BY DEF Stopped
<1>3. Marked' BY DEF Marked
<1>4. Leased' BY DEF Leased
<1>5. Working' BY DEF Working, TypeOK, Opening
<1>6. Outcome' BY DEF Outcome, TypeOK
<1>7. Suspended' BY DEF Suspended, TypeOK, Working, Outcome, Opening
<1> QED BY <1>1, <1>2, <1>3, <1>4, <1>5, <1>6, <1>7

\* A settlement clears write, lease, pending and marker.
LEMMA CompleteSettledInv ==
  ASSUME Inv, NEW n \in Names, CompleteSettled(n)
  PROVE  Inv'
<1> USE DEF Inv, CompleteSettled, At, Taken, Release, Resting, Idle
<1>1. TypeOK' BY DEF TypeOK, Actors, Points, Nexts, Workers
<1>2. Stopped' BY DEF Stopped
<1>3. Marked' BY DEF Marked, Outcome
<1>4. Leased' BY DEF Leased
<1>5. Working' BY DEF Working, TypeOK, Opening
<1>6. Outcome' BY DEF Outcome, TypeOK
<1>7. Suspended' BY DEF Suspended
<1> QED BY <1>1, <1>2, <1>3, <1>4, <1>5, <1>6, <1>7

\* A failure retires the connection; the marker goes only with the write.
LEMMA CompleteFailedInv ==
  ASSUME Inv, NEW n \in Names, CompleteFailed(n)
  PROVE  Inv'
<1>0. actor' \in Actors BY AtType DEF CompleteFailed, Points, Nexts, Verdicts
<1> USE DEF Inv, CompleteFailed, At, Taken, Release, Drop, Resting, Idle
<1>1. TypeOK' BY <1>0 DEF TypeOK, Workers
<1>2. Stopped' BY DEF Stopped
<1>3. Marked' BY DEF Marked, Outcome
<1>4. Leased' BY DEF Leased
<1>5. Working' BY DEF Working, TypeOK, Opening
<1>6. Outcome' BY DEF Outcome, TypeOK
<1>7. Suspended' BY DEF Suspended
<1> QED BY <1>1, <1>2, <1>3, <1>4, <1>5, <1>6, <1>7

\* The look for a late cancellation after the views are refreshed.
LEMMA PublishedInv == ASSUME Inv, Published PROVE Inv'
<1> USE DEF Inv, Published, LateCancelled, Standing, marks, live, held
<1>1. TypeOK' BY DEF TypeOK, Actors, Points, Nexts
<1>2. Stopped' BY DEF Stopped
<1>3. Marked' BY DEF Marked
<1>4. Leased' BY DEF Leased
<1>5. Working' BY DEF Working
<1>6. Outcome' BY DEF Outcome
<1>7. Suspended'
  <2> DEFINE n == actor.name
  <2>1. /\ actor.at = "publish"
        /\ actor'.name = n
        /\ actor'.at = IF LateCancelled(n) THEN "rollback" ELSE "finish"
    BY DEF TypeOK, Actors
  <2>2. n \in Names BY <2>1 DEF Suspended, Idle
  <2>3. CASE LateCancelled(n)
    <3>1. n \in connections /\ n \notin busy
      BY <2>1, <2>3 DEF Leased, Suspended
    <3>2. worker[n] = "none" /\ tx[n] # "doubt"
      BY <2>2, <3>1 DEF Working, Outcome, Opening
    <3> QED BY <2>1, <2>2, <2>3, <3>1, <3>2 DEF Suspended
  <2>4. CASE ~LateCancelled(n) BY <2>1, <2>2, <2>4 DEF Suspended
  <2> QED BY <2>3, <2>4
<1> QED BY <1>1, <1>2, <1>3, <1>4, <1>5, <1>6, <1>7

\* The look for a late cancellation after job.finish.
LEMMA FinishAcceptedInv == ASSUME Inv, FinishAccepted PROVE Inv'
<1> USE DEF Inv, FinishAccepted, LateCancelled, Standing, marks, live, held,
         Idle
<1>1. TypeOK' BY DEF TypeOK, Actors, Points, Nexts, Verdicts, Jobs
<1>2. Stopped' BY DEF Stopped
<1>3. Marked' BY DEF Marked
<1>4. Leased' BY DEF Leased
<1>5. Working' BY DEF Working
<1>6. Outcome' BY DEF Outcome
<1>7. Suspended' BY DEF Suspended, Leased, Working, Outcome
<1> QED BY <1>1, <1>2, <1>3, <1>4, <1>5, <1>6, <1>7

\* The refusal of job.finish reaches a pending transaction.
LEMMA FinishRefusedInv == ASSUME Inv, FinishRefused PROVE Inv'
<1> USE DEF Inv, FinishRefused, Standing, marks, live, held
<1>1. TypeOK' BY DEF TypeOK, Actors, Points, Nexts
<1>2. Stopped' BY DEF Stopped
<1>3. Marked' BY DEF Marked
<1>4. Leased' BY DEF Leased
<1>5. Working' BY DEF Working
<1>6. Outcome' BY DEF Outcome
<1>7. Suspended'
  <2> DEFINE n == actor.name
             caught == n \in pending /\ n \in lease
  <2>1. /\ actor.at = "finish"
        /\ actor'.name = n /\ actor'.next = "close"
        /\ actor'.at = IF caught THEN "rollback" ELSE "close"
    BY DEF TypeOK, Actors
  <2>2. n \in Names BY <2>1 DEF Suspended, Idle
  <2>3. CASE caught
    <3>1. n \in connections /\ n \notin busy
      BY <2>1, <2>3 DEF Leased, Suspended
    <3>2. worker[n] = "none" /\ tx[n] # "doubt"
      BY <2>2, <3>1 DEF Working, Outcome, Opening
    <3> QED BY <2>1, <2>2, <2>3, <3>1, <3>2 DEF Suspended
  <2>4. CASE ~caught BY <2>1, <2>2, <2>4 DEF Suspended
  <2> QED BY <2>3, <2>4
<1> QED BY <1>1, <1>2, <1>3, <1>4, <1>5, <1>6, <1>7

\* The second job.finish.
LEMMA CloseInv == ASSUME Inv, Close PROVE Inv'
<1> USE DEF Inv, Close, Standing, marks, live, held, Idle
<1>1. TypeOK' BY DEF TypeOK, Suspended, Actors, Points, Nexts, Verdicts, Jobs
<1>2. Stopped' BY DEF Stopped
<1>3. Marked' BY DEF Marked
<1>4. Leased' BY DEF Leased
<1>5. Working' BY DEF Working
<1>6. Outcome' BY DEF Outcome
<1>7. Suspended' BY DEF Suspended
<1> QED BY <1>1, <1>2, <1>3, <1>4, <1>5, <1>6, <1>7

\* A crash leaves doubts, each with its marker.
LEMMA CrashInv == ASSUME Inv, Crash PROVE Inv'
<1> USE DEF Inv, Crash, Exit, Idle
<1>1. TypeOK' BY DEF TypeOK, Actors, Points, Nexts, Verdicts, Jobs, Workers,
         Outcomes
<1>2. Stopped' BY DEF Stopped
<1>3. Marked' BY DEF Marked
<1>4. Leased' BY DEF Leased
<1>5. Working' BY DEF Working, Opening
<1>6. Outcome' BY DEF Outcome
<1>7. Suspended' BY DEF Suspended
<1> QED BY <1>1, <1>2, <1>3, <1>4, <1>5, <1>6, <1>7

\* So does a shutdown, unless the rollback is confirmed.
LEMMA ShutdownInv == ASSUME Inv, Shutdown PROVE Inv'
<1> USE DEF Inv, Shutdown, Exit, Resting, Idle
<1>1. TypeOK'
  <2>1. PICK undone \in SUBSET (pending \ busy) : Exit(undone) OBVIOUS
  <2>2. tx' \in [Names -> Outcomes] BY <2>1 DEF TypeOK, Outcomes
  <2>3. job' \in [Names -> Jobs] /\ worker' \in [Names -> Workers]
    BY <2>1 DEF Jobs, Workers
  <2> QED BY <2>1, <2>2, <2>3, IdleType DEF TypeOK
<1>2. Stopped' BY DEF Stopped
<1>3. Marked' BY DEF Marked
<1>4. Leased' BY DEF Leased
<1>5. Working' BY DEF Working, Opening
<1>6. Outcome' BY DEF Outcome
<1>7. Suspended' BY DEF Suspended
<1> QED BY <1>1, <1>2, <1>3, <1>4, <1>5, <1>6, <1>7

\* The markers come back from the document.
LEMMA RestartInv == ASSUME Inv, Restart PROVE Inv'
<1> USE DEF Inv, Restart, live, held
<1>1. TypeOK' BY DEF TypeOK, Stopped
<1>2. Stopped' BY DEF Stopped
<1>3. Marked' BY DEF Marked
<1>4. Leased' BY DEF Leased
<1>5. Working' BY DEF Working
<1>6. Outcome' BY DEF Outcome
<1>7. Suspended' BY DEF Suspended, Stopped
<1> QED BY <1>1, <1>2, <1>3, <1>4, <1>5, <1>6, <1>7

-----------------------------------------------------------------------------
\* Every step of the specification keeps the invariant.
LEMMA NextInv == Inv /\ [Next]_vars => Inv'
<1> SUFFICES ASSUME Inv, [Next]_vars PROVE Inv' OBVIOUS
<1>1. ASSUME NEW n \in Names, Command(n) PROVE Inv'
  BY <1>1, ConnectInv, DisconnectInv, ConfirmDisconnectInv, AcknowledgeInv,
     LoadInv, ExecuteInv, SettleInv, UserCancelInv DEF Command
<1>2. ASSUME NEW n \in Names, Work(n) PROVE Inv'
  BY <1>2, OpenDoneInv, ReadDoneInv, BeginWriteInv, ExecuteOkInv,
     ExecuteUndoneInv, ExecuteUnknownInv, SettleDoneInv DEF Work
<1>3. ASSUME NEW n \in Names, Cancellation(n) PROVE Inv'
  BY <1>3, CancelAttemptInv, HostCancelsJobInv, JobCancelArrivesInv,
     LeaseCancelArrivesInv DEF Cancellation
<1>4. ASSUME NEW n \in Names, Complete(n) PROVE Inv'
  BY <1>4, CompleteConnectInv, CompleteCatalogInv, CompleteDataInv,
     CompleteSettledInv, CompleteFailedInv DEF Complete
<1>5. CASE Resume
  BY <1>5, MarkStoredInv, MarkRefusedInv, LeaseGrantedInv, LeaseRefusedInv,
     AdmitInv, AdmitRefusedInv, LoadFirstInv, LoadSkippedInv, RolledBackInv,
     RollbackLostInv, SaveDoneInv, SaveRefusedInv, PublishedInv,
     FinishAcceptedInv, FinishRefusedInv, CloseInv DEF Resume
<1>6. CASE UNCHANGED vars
  <2> USE <1>6 DEF Inv, vars, marks, live, held
  <2>1. TypeOK' BY DEF TypeOK
  <2>2. Stopped' /\ Marked' /\ Leased' BY DEF Stopped, Marked, Leased
  <2>3. Working' /\ Outcome' BY DEF Working, Outcome
  <2>4. Suspended' BY DEF Suspended
  <2> QED BY <2>1, <2>2, <2>3, <2>4
<1> QED
  BY <1>1, <1>2, <1>3, <1>4, <1>5, <1>6, LeaseEventInv, ExpireInv, CrashInv,
     ShutdownInv, RestartInv DEF Next

\* The strengthened invariant holds of every reachable state.
THEOREM Invariance == Spec => []Inv
BY InitInv, NextInv, PTL DEF Spec

\* No handler, worker or crash takes a variable out of its type.
THEOREM TypeCorrect == Spec => []TypeOK
<1>1. Inv => TypeOK BY DEF Inv
<1> QED BY Invariance, <1>1, PTL

\* However execute(), complete(), the rollbacks and a crash interleave, a write
\* not known to be settled is marked in the host's document.
THEOREM MarkedBeforeWrite == Spec => []CrashSafe
<1>1. Inv => CrashSafe BY DEF Inv, Marked, CrashSafe
<1> QED BY Invariance, <1>1, PTL

\* An open write never outlives the lease and connection that guard it.
THEOREM WritesProtected == Spec => []Protected
<1>1. Inv => Protected BY DEF Inv, Leased, Outcome, Protected
<1> QED BY Invariance, <1>1, PTL

\* A database whose outcome is unknown is out of use until acknowledged.
THEOREM DoubtIsolated == Spec => []InDoubtNotReused
<1>1. Inv => InDoubtNotReused
  BY DEF Inv, Working, Outcome, Opening, InDoubtNotReused, Running
<1> QED BY Invariance, <1>1, PTL

\* No connection is used, replaced or dropped under a running worker.
THEOREM OneAtATime == Spec => []OneOperation
<1>1. Inv => OneOperation
  <2> SUFFICES ASSUME Inv PROVE OneOperation OBVIOUS
  <2> QED BY DEF Inv, Working, OneOperation, Opening, Idle
<1> QED BY Invariance, <1>1, PTL

-----------------------------------------------------------------------------
(* The connection limit *)

\* Both sets are finite, whatever the number of profiles.
Counted ==
  /\ IsFiniteSet(connections) /\ IsFiniteSet(connecting)
  /\ Cardinality(connections) + Cardinality(connecting) <= MaxConnections

\* Taking a connection away never raises the count.
LEMMA CountDrop ==
  ASSUME Counted, NEW n, connections' = connections \ {n},
         UNCHANGED connecting
  PROVE  Counted'
<1>1. Cardinality(connections) \in Nat /\ Cardinality(connecting) \in Nat
  BY FS_CardinalityType DEF Counted
<1>2. /\ IsFiniteSet(connections')
      /\ \/ Cardinality(connections') = Cardinality(connections)
         \/ Cardinality(connections') = Cardinality(connections) - 1
  BY FS_RemoveElement DEF Counted
<1> QED BY <1>1, <1>2, LimitAssumption DEF Counted

\* connect() counts the attempt before it adds one.
LEMMA CountAttempt ==
  ASSUME Inv, Counted, NEW n \in Names, NEW write \in BOOLEAN, Connect(n, write)
  PROVE  Counted'
<1> USE DEF Counted, Connect, Open
<1>1. IsFiniteSet(connections') /\ IsFiniteSet(connecting')
  BY FS_RemoveElement, FS_AddElement
<1>2. Cardinality(connecting') = Cardinality(connecting) + 1 BY FS_AddElement
<1>3. CASE n \in connections
  <2>1. Cardinality(connections') = Cardinality(connections) - 1
    BY <1>3, FS_RemoveElement
  <2> QED BY <1>1, <1>2, <2>1, FS_CardinalityType, LimitAssumption
<1>4. CASE n \notin connections
  <2>1. Cardinality(connections') = Cardinality(connections)
    BY <1>4, FS_RemoveElement
  <2>2. Cardinality(connections) + Cardinality(connecting) < MaxConnections
    BY <1>4
  <2> QED
    BY <1>1, <1>2, <2>1, <2>2, FS_CardinalityType, LimitAssumption
<1> QED BY <1>3, <1>4

\* A finished attempt moves from one set to the other, or out.
LEMMA CountConnect ==
  ASSUME Inv, Counted, NEW n \in Names, CompleteConnect(n)
  PROVE  Counted'
<1> USE DEF Counted, CompleteConnect
<1>1. n \in connecting /\ n \notin connections
  BY DEF Inv, Working, Opening
<1>2. /\ IsFiniteSet(connecting')
      /\ Cardinality(connecting') = Cardinality(connecting) - 1
  BY <1>1, FS_RemoveElement
<1>3. CASE connections' = connections
  BY <1>2, <1>3, FS_CardinalityType, LimitAssumption
<1>4. CASE connections' = connections \union {n}
  <2>1. /\ IsFiniteSet(connections')
        /\ Cardinality(connections') = Cardinality(connections) + 1
    BY <1>1, <1>4, FS_AddElement
  <2> QED BY <1>2, <2>1, FS_CardinalityType, LimitAssumption
<1> QED BY <1>3, <1>4

\* Nothing is live in a stopped process.
LEMMA CountEmpty ==
  ASSUME connections' = {}, connecting' = {}
  PROVE  Counted'
BY FS_EmptySet, LimitAssumption DEF Counted

\* Every step keeps the count.
LEMMA CountNext == ASSUME Inv, Counted, [Next]_vars PROVE Counted'
<1>1. ASSUME NEW n \in Names, Command(n) PROVE Counted'
  <2>1. CASE \E write \in BOOLEAN : Connect(n, write) BY <2>1, CountAttempt
  <2>2. CASE Disconnect(n) BY <2>2, CountDrop DEF Disconnect, Drop
  <2>3. CASE UNCHANGED <<connections, connecting>> BY <2>3 DEF Counted
  <2> QED
    BY <1>1, <2>1, <2>2, <2>3
    DEF Command, ConfirmDisconnect, Acknowledge, Load, Execute, Settle,
        UserCancel, live
<1>2. ASSUME NEW n \in Names, Complete(n) PROVE Counted'
  <2>1. CASE CompleteConnect(n) BY <2>1, CountConnect
  <2>2. CASE connections' = connections \ {n} /\ UNCHANGED connecting
    BY <2>2, CountDrop
  <2>3. CASE UNCHANGED <<connections, connecting>> BY <2>3 DEF Counted
  <2> QED
    BY <1>2, <2>1, <2>2, <2>3
    DEF Complete, CompleteCatalog, CompleteData, CompleteSettled,
        CompleteFailed, Drop, live
<1>3. CASE Resume
  <2>1. CASE \E n : connections' = connections \ {n} /\ UNCHANGED connecting
    BY <2>1, CountDrop
  <2>2. CASE UNCHANGED <<connections, connecting>> BY <2>2 DEF Counted
  <2> QED
    BY <1>3, <2>1, <2>2
    DEF Resume, MarkStored, MarkRefused, LeaseGranted, LeaseRefused, Admit,
        AdmitRefused, LoadFirst, LoadSkipped, RolledBack, RollbackLost,
        SaveDone, SaveRefused, Published, FinishAccepted, FinishRefused, Close,
        Drop, live
<1>4. CASE Crash \/ Shutdown
  BY <1>4, CountEmpty DEF Crash, Shutdown, Exit
<1>5. ASSUME \/ \E n \in Names : \/ Work(n) \/ Cancellation(n)
                                 \/ LeaseEvent(n) \/ Expire(n)
             \/ Restart \/ UNCHANGED vars
      PROVE  Counted'
  <2>1. UNCHANGED <<connections, connecting>>
    BY <1>5
    DEF Work, OpenDone, ReadDone, BeginWrite, ExecuteOk, ExecuteUndone,
        ExecuteUnknown, SettleDone, Cancellation, CancelAttempt,
        HostCancelsJob, JobCancelArrives, LeaseCancelArrives, LeaseEvent,
        Expire, Restart, vars, live
  <2> QED BY <2>1 DEF Counted
<1> QED BY <1>1, <1>2, <1>3, <1>4, <1>5 DEF Next

\* Attempts and connections together never exceed the limit.
THEOREM ConnectionsLimited == Spec => []LimitedConnections
<1>1. Init => Counted BY FS_EmptySet, LimitAssumption DEF Init, Counted
<1>2. Inv /\ Counted /\ [Next]_vars => Counted' BY CountNext
<1>3. Inv /\ Counted => LimitedConnections
  BY DEF Inv, Working, Counted, LimitedConnections
<1> QED BY Invariance, <1>1, <1>2, <1>3, PTL DEF Spec

-----------------------------------------------------------------------------
(***************************************************************************)
(* What the host is told of a job, and what it means for the write the job *)
(* left behind: HonestVerdict and NothingCancelledIsPending for any set of *)
(* profiles.                                                               *)
(*                                                                         *)
(* Neither is inductive.  Between the moment a result is taken and the     *)
(* moment its job is finished the actor holds the verdict, and the host's  *)
(* cancellation may arrive at each await in between; Reported says what    *)
(* the actor then knows.                                                   *)
(***************************************************************************)

\* The actor holds a verdict that it will report.
Finishing ==
  \/ actor.at \in {"publish", "finish", "close"}
  \/ actor.at = "save" /\ actor.next \in {"publish", "finish", "close"}

\* What runs has its job; a doubt of an operation has its lease.
Accounted == \A n \in Names :
  /\ worker[n] \in {"reading", "executing", "catalog", "data", "failed",
                    "unknown"} => job[n] \in {"running", "cancelling"}
  /\ worker[n] = "unknown" /\ tx[n] = "doubt" => n \in lease

\* What is pending succeeded, or is being finished.
Offered ==
  \A n \in pending :
    \/ job[n] = "succeeded"
    \/ actor.name = n /\ actor.at \in {"publish", "finish", "rollback"}

\* A verdict under way is for a connection nobody works on, and true.
Closing ==
  /\ Finishing /\ actor.name \in pending =>
       /\ actor.at \in {"publish", "finish"}
       /\ actor.own
       /\ actor.state = "succeeded"
  /\ Finishing /\ actor.own =>
       /\ actor.name \notin busy
       /\ actor.state # "outcome_unknown" => tx[actor.name] # "doubt"
  /\ actor.at = "load" => ~actor.own

\* The second invariant, with HonestVerdict itself.
Reported == Accounted /\ Offered /\ Closing /\ HonestVerdict
-----------------------------------------------------------------------------
\* A rollback or save goes on for the same profile and job, or rests.
LEMMA AfterName ==
  ASSUME NEW a \in Actors
  PROVE  \/ After(a) = Idle
         \/ /\ After(a).name = a.name /\ After(a).own = a.own
            /\ After(a).at = a.next /\ After(a).at # "load"
BY DEF After, Actors, Nexts

\* A new attempt starts without a job.
LEMMA ConnectReported ==
  ASSUME Inv, Inv', Reported, NEW n \in Names, NEW write \in BOOLEAN,
         Connect(n, write)
  PROVE  Reported'
BY DEF Working, Inv, Reported, Accounted, Offered, Closing, HonestVerdict,
       Finishing, Connect, Open, held

\* Nothing runs on the connection that goes.
LEMMA DisconnectReported ==
  ASSUME Inv, Inv', Reported, NEW n \in Names, Disconnect(n)
  PROVE  Reported'
BY DEF Working, Inv, Reported, Accounted, Offered, Closing, HonestVerdict,
       Finishing, Disconnect, Drop, held

\* A rollback that a command began reports to no job.
LEMMA ConfirmDisconnectReported ==
  ASSUME Inv, Inv', Reported, NEW n \in Names, ConfirmDisconnect(n)
  PROVE  Reported'
BY DEF Reported, Accounted, Offered, Closing, HonestVerdict, Finishing,
       ConfirmDisconnect, At, Resting, Idle, live, held

\* Clearing a doubt makes no verdict false.
LEMMA AcknowledgeReported ==
  ASSUME Inv, Inv', Reported, NEW n \in Names, Acknowledge(n)
  PROVE  Reported'
BY DEF Reported, Accounted, Offered, Closing, HonestVerdict, Acknowledge, At,
       Resting, Idle, live, held

\* A read runs under its own job.
LEMMA LoadReported ==
  ASSUME Inv, Inv', Reported, NEW n \in Names, Load(n)
  PROVE  Reported'
BY DEF TypeOK, Inv, Reported, Accounted, Offered, Closing, HonestVerdict,
       Finishing, Load, Ready, Resting, Idle, held

\* No job yet.
LEMMA ExecuteReported ==
  ASSUME Inv, Inv', Reported, NEW n \in Names, Execute(n)
  PROVE  Reported'
BY DEF Reported, Accounted, Offered, Closing, HonestVerdict, Finishing,
       Execute, At, Resting, Idle, live, held

\* A settlement runs under the job that left the write pending.
LEMMA SettleReported ==
  ASSUME Inv, Inv', Reported, NEW n \in Names, NEW commit \in BOOLEAN,
         Settle(n, commit)
  PROVE  Reported'
BY DEF Reported, Accounted, Offered, Closing, HonestVerdict, Finishing, Settle,
       Resting, Idle, held

\* "cancel" asks the host to cancel a running job only.
LEMMA UserCancelReported ==
  ASSUME Inv, Inv', Reported, NEW n \in Names, UserCancel(n)
  PROVE  Reported'
BY DEF Reported, Accounted, Offered, Closing, HonestVerdict, Finishing,
       UserCancel, live, held

\* As in OpenDoneInv: a connection attempt ends.
LEMMA OpenDoneReported ==
  ASSUME Inv, Inv', Reported, NEW n \in Names, OpenDone(n)
  PROVE  Reported'
BY DEF Reported, Accounted, Offered, Closing, HonestVerdict, Finishing,
       OpenDone, live, held

\* As in ReadDoneInv: a read ends; it has no lease and no write.
LEMMA ReadDoneReported ==
  ASSUME Inv, Inv', Reported, NEW n \in Names, ReadDone(n)
  PROVE  Reported'
BY DEF Reported, Accounted, Offered, Closing, HonestVerdict, Finishing,
       ReadDone, live, held

\* A write is begun under a job that is still running or being cancelled.
LEMMA BeginWriteReported ==
  ASSUME Inv, Inv', Reported, NEW n \in Names, BeginWrite(n)
  PROVE  Reported'
BY DEF Reported, Accounted, Offered, Closing, HonestVerdict, Finishing,
       BeginWrite, live, held

\* As in ExecuteOkInv: the statement ends well.
LEMMA ExecuteOkReported ==
  ASSUME Inv, Inv', Reported, NEW n \in Names, ExecuteOk(n)
  PROVE  Reported'
BY DEF Reported, Accounted, Offered, Closing, HonestVerdict, Finishing,
       ExecuteOk, live, held

\* As in ExecuteUndoneInv: the statement is undone.
LEMMA ExecuteUndoneReported ==
  ASSUME Inv, Inv', Reported, NEW n \in Names, ExecuteUndone(n)
  PROVE  Reported'
BY DEF Reported, Accounted, Offered, Closing, HonestVerdict, Finishing,
       ExecuteUndone, live, held

\* A doubt of a running operation belongs to a lease.
LEMMA ExecuteUnknownReported ==
  ASSUME Inv, Inv', Reported, NEW n \in Names, ExecuteUnknown(n)
  PROVE  Reported'
BY DEF Outcome, Inv, Reported, Accounted, Offered, Closing, HonestVerdict,
       Finishing, ExecuteUnknown, live, held

\* A doubt of a settlement belongs to no job being finished.
LEMMA SettleDoneReported ==
  ASSUME Inv, Inv', Reported, NEW n \in Names, SettleDone(n)
  PROVE  Reported'
<1> USE DEF Reported, SettleDone, marks, live, held
<1>1. Accounted'
  BY DEF TypeOK, Inv, Accounted
<1>2. Offered'
  BY DEF Offered
<1>3. Closing'
  <2>1. n \in busy BY DEF Inv, Working, Opening
  <2>2. \A m \in Names \ {n} : tx'[m] = tx[m] BY DEF Inv, TypeOK
  <2>3. actor = Idle \/ actor.name \in Names BY DEF Inv, Suspended
  <2>4. UNCHANGED <<actor, busy, pending>> OBVIOUS
  <2>5. Finishing' <=> Finishing BY <2>4 DEF Finishing
  <2>6. Finishing => actor.name \in Names BY <2>3 DEF Finishing, Idle
  <2> QED BY <2>1, <2>2, <2>4, <2>5, <2>6 DEF Closing
<1>4. HonestVerdict'
  BY DEF TypeOK, Outcome, Inv, HonestVerdict
<1> QED BY <1>1, <1>2, <1>3, <1>4

\* As in CancelAttemptInv: tokens are no part of the invariant.
LEMMA CancelAttemptReported ==
  ASSUME Inv, Inv', Reported, NEW n \in Names, CancelAttempt(n)
  PROVE  Reported'
BY DEF Reported, Accounted, Offered, Closing, HonestVerdict, Finishing,
       CancelAttempt, live, held

\* As in HostCancelsJobInv: nor is the host's view of a job.
LEMMA HostCancelsJobReported ==
  ASSUME Inv, Inv', Reported, NEW n \in Names, HostCancelsJob(n)
  PROVE  Reported'
BY DEF Reported, Accounted, Offered, Closing, HonestVerdict, Finishing,
       HostCancelsJob, live, held

\* As in JobCancelArrivesInv: a job's cancellation only fires the token.
LEMMA JobCancelArrivesReported ==
  ASSUME Inv, Inv', Reported, NEW n \in Names, JobCancelArrives(n)
  PROVE  Reported'
BY DEF Reported, Accounted, Offered, Closing, HonestVerdict, Finishing,
       JobCancelArrives, live, held

\* As in LeaseCancelArrivesInv: a lease's cancellation marks a lease that is
\* held.
LEMMA LeaseCancelArrivesReported ==
  ASSUME Inv, Inv', Reported, NEW n \in Names, LeaseCancelArrives(n)
  PROVE  Reported'
BY DEF Reported, Accounted, Offered, Closing, HonestVerdict, Finishing,
       LeaseCancelArrives, live

\* As in LeaseEventInv: cancel_lease() starts a rollback of a connection that
\* is not busy.
LEMMA LeaseEventReported ==
  ASSUME Inv, Inv', Reported, NEW n \in Names, LeaseEvent(n)
  PROVE  Reported'
BY DEF Reported, Accounted, Offered, Closing, HonestVerdict, Finishing,
       LeaseEvent, At, Resting, Idle, live

\* As in ExpireInv: expire() starts a rollback of a connection that is not
\* busy.
LEMMA ExpireReported ==
  ASSUME Inv, Inv', Reported, NEW n \in Names, Expire(n)
  PROVE  Reported'
BY DEF Reported, Accounted, Offered, Closing, HonestVerdict, Finishing, Expire,
       At, Resting, Idle, live, held

\* A connection attempt finishes no job of an operation.
LEMMA CompleteConnectReported ==
  ASSUME Inv, Inv', Reported, NEW n \in Names, CompleteConnect(n)
  PROVE  Reported'
BY DEF Leased, Inv, Reported, Accounted, Offered, Closing, HonestVerdict,
       Finishing, CompleteConnect, At, Taken, Resting, Idle, held

\* As in CompleteCatalogInv: a catalog result frees its connection.
LEMMA CompleteCatalogReported ==
  ASSUME Inv, Inv', Reported, NEW n \in Names, CompleteCatalog(n)
  PROVE  Reported'
BY DEF Outcome, Inv, Reported, Accounted, Offered, Closing, HonestVerdict,
       CompleteCatalog, At, Taken, Resting, Idle, held

\* A pending write is under a job about to succeed, or be refused.
LEMMA CompleteDataReported ==
  ASSUME Inv, Inv', Reported, NEW n \in Names, CompleteData(n)
  PROVE  Reported'
BY DEF Outcome, Inv, Reported, Accounted, Offered, Closing, HonestVerdict,
       Finishing, CompleteData, At, Taken, Drop, Resting, Idle, live, held

\* As in CompleteSettledInv: a settlement clears write, lease, pending and
\* marker.
LEMMA CompleteSettledReported ==
  ASSUME Inv, Inv', Reported, NEW n \in Names, CompleteSettled(n)
  PROVE  Reported'
BY DEF Reported, Accounted, Offered, Closing, HonestVerdict, CompleteSettled,
       At, Taken, Release, Resting, Idle

\* The verdict of a failure says whether the write is known to be undone.
LEMMA CompleteFailedReported ==
  ASSUME Inv, Inv', Reported, NEW n \in Names, CompleteFailed(n)
  PROVE  Reported'
BY DEF Leased, Working, Outcome, Inv, Reported, Accounted, Offered, Closing,
       HonestVerdict, CompleteFailed, At, Taken, Release, Drop, Resting, Idle

\* As in MarkStoredInv: the marker reaches the document.
LEMMA MarkStoredReported ==
  ASSUME Inv, Inv', Reported, MarkStored
  PROVE  Reported'
BY DEF Reported, Accounted, Offered, Closing, HonestVerdict, Finishing,
       MarkStored, Standing, live, held

\* As in MarkRefusedInv: the document is refused: nothing was begun, so the
\* marker may go.
LEMMA MarkRefusedReported ==
  ASSUME Inv, Inv', Reported, MarkRefused
  PROVE  Reported'
BY DEF Reported, Accounted, Offered, Closing, HonestVerdict, Finishing,
       MarkRefused, Standing, Idle, live, held

\* As in LeaseGrantedInv: a granted lease belongs to a profile whose marker is
\* stored.
LEMMA LeaseGrantedReported ==
  ASSUME Inv, Inv', Reported, LeaseGranted
  PROVE  Reported'
BY DEF Reported, Accounted, Offered, Closing, HonestVerdict, Finishing,
       LeaseGranted, Standing, live

\* As in LeaseRefusedInv: a refused lease: nothing was begun.
LEMMA LeaseRefusedReported ==
  ASSUME Inv, Inv', Reported, LeaseRefused
  PROVE  Reported'
BY DEF Suspended, Inv, Reported, Accounted, Offered, Closing, HonestVerdict,
       LeaseRefused, Standing, live, held

\* As in AdmitInv: the worker starts with the lease its access mode calls for.
LEMMA AdmitReported ==
  ASSUME Inv, Inv', Reported, Admit
  PROVE  Reported'
BY DEF TypeOK, Suspended, Inv, Reported, Accounted, Offered, Closing,
       HonestVerdict, Finishing, Admit, Standing, Idle, held

\* As in AdmitRefusedInv: the job is refused: the lease goes back and the
\* marker with it.
LEMMA AdmitRefusedReported ==
  ASSUME Inv, Inv', Reported, AdmitRefused
  PROVE  Reported'
BY DEF TypeOK, Actors, Suspended, Inv, Reported, Accounted, Offered, Closing,
       HonestVerdict, Finishing, AdmitRefused, Standing, Idle, Release, live

\* The first read has its own job.
LEMMA LoadFirstReported ==
  ASSUME Inv, Inv', Reported, LoadFirst
  PROVE  Reported'
<1> USE DEF Reported, LoadFirst, Standing, Idle, Ready, marks, live, held
<1>1. Accounted'
  BY DEF TypeOK, Inv, Accounted
<1>2. Offered'
  BY DEF Offered
<1>3. Closing'
  <2>1. \/ actor' = Idle
        \/ /\ actor'.name = actor.name /\ ~actor'.own
           /\ actor'.at # "load"
    <3>1. \/ actor' = Idle
          \/ /\ actor'.name = actor.name /\ actor'.own = actor.own
             /\ actor'.at # "load"
      BY AfterName DEF Inv, TypeOK
    <3> QED BY <3>1 DEF Closing, Finishing
  <2>2. actor.name \notin pending' BY DEF Inv, Suspended
  <2> QED BY <2>1, <2>2 DEF Closing, Finishing
<1>4. HonestVerdict'
  BY DEF HonestVerdict
<1> QED BY <1>1, <1>2, <1>3, <1>4

\* As in LoadSkippedInv: no first read.
LEMMA LoadSkippedReported ==
  ASSUME Inv, Inv', Reported, LoadSkipped
  PROVE  Reported'
BY DEF TypeOK, Actors, Suspended, Inv, Reported, Accounted, Offered, Closing,
       HonestVerdict, Finishing, LoadSkipped, Standing, Idle, After, live, held

\* A confirmed rollback may be called cancelled.
LEMMA RolledBackReported ==
  ASSUME Inv, Inv', Reported, RolledBack
  PROVE  Reported'
<1> USE DEF Reported, RolledBack, Standing, Idle, Release, Drop, marks, live,
       held
<1>1. Accounted'
  BY DEF Suspended, Inv, Accounted
<1>2. Offered'
  BY DEF Offered
<1>3. Closing'
  <2> DEFINE n == actor.name
  <2>1. n \in Names BY DEF Inv, Suspended
  <2>2. tx'[n] = "none" /\ n \notin busy' \union pending'
    BY <2>1 DEF Inv, TypeOK
  <2>3. actor' = Idle \/ (actor'.name = n /\ actor'.at # "load")
    <3>1. CASE n \in lease \/ actor.next # "publish"
      BY <3>1 DEF Inv, TypeOK, Actors
    <3>2. CASE ~(n \in lease \/ actor.next # "publish")
      <4> DEFINE a == [actor EXCEPT !.state = "cancelled"]
      <4>1. a \in Actors /\ a.name = n BY DEF Inv, TypeOK, Actors, Verdicts
      <4>2. actor' = After(a) BY <3>2
      <4> HIDE DEF a
      <4> QED BY <4>1, <4>2, AfterName
    <3> QED BY <3>1, <3>2
  <2>4. CASE actor' = Idle BY <2>4 DEF Closing, Finishing
  <2>5. CASE actor'.name = n /\ actor'.at # "load"
    BY <2>2, <2>5 DEF Closing
  <2> QED BY <2>3, <2>4, <2>5
<1>4. HonestVerdict'
  BY DEF HonestVerdict
<1> QED BY <1>1, <1>2, <1>3, <1>4

\* A failed rollback of a leased write is not called cancelled.
LEMMA RollbackLostReported ==
  ASSUME Inv, Inv', Reported, RollbackLost
  PROVE  Reported'
BY DEF Outcome, Suspended, Inv, Reported, Accounted, Offered, Closing,
       HonestVerdict, Finishing, RollbackLost, Standing, Idle, Release, Drop,
       After

\* As in SaveDoneInv: the document follows the memory; no open or doubtful
\* write lost its marker there.
LEMMA SaveDoneReported ==
  ASSUME Inv, Inv', Reported, SaveDone
  PROVE  Reported'
BY DEF Nexts, TypeOK, Actors, Inv, Reported, Accounted, Offered, Closing,
       HonestVerdict, Finishing, SaveDone, Standing, Idle, After, live, held

\* As in SaveRefusedInv: the document stays behind, with a marker too many.
LEMMA SaveRefusedReported ==
  ASSUME Inv, Inv', Reported, SaveRefused
  PROVE  Reported'
BY DEF Reported, Accounted, Offered, Closing, HonestVerdict, Finishing,
       SaveRefused, Standing, Idle, live, held

\* Refreshing the views changes no verdict.
LEMMA PublishedReported ==
  ASSUME Inv, Inv', Reported, Published
  PROVE  Reported'
BY DEF Reported, Accounted, Offered, Closing, HonestVerdict, Finishing,
       Published, Standing, live, held

\* An accepted verdict is true.
LEMMA FinishAcceptedReported ==
  ASSUME Inv, Inv', Reported, FinishAccepted
  PROVE  Reported'
<1> USE DEF Reported, FinishAccepted, Standing, Idle, LateCancelled, marks,
       live, held
<1>1. Accounted'
  BY DEF Working, Opening, Inv, Accounted, Closing, Finishing
<1>2. Offered'
  BY DEF TypeOK, Inv, Offered, Closing, Finishing
<1>3. Closing'
  BY DEF Closing, Finishing
<1>4. HonestVerdict'
  <2> DEFINE n == actor.name
  <2>1. n \in Names BY DEF Inv, Suspended
  <2>2. ASSUME actor.own, actor.state \in {"cancelled", "failed"}
        PROVE  tx[n] = "none"
    <3>1. n \notin busy \union pending /\ tx[n] # "doubt"
      BY <2>2 DEF Closing, Finishing
    <3> QED BY <2>1, <3>1 DEF Inv, Outcome, TypeOK, Outcomes
  <2> QED BY <2>1, <2>2 DEF HonestVerdict, Inv, TypeOK
<1> QED BY <1>1, <1>2, <1>3, <1>4

\* After a refusal nothing is pending.
LEMMA FinishRefusedReported ==
  ASSUME Inv, Inv', Reported, FinishRefused
  PROVE  Reported'
BY DEF Leased, Inv, Reported, Accounted, Offered, Closing, HonestVerdict,
       Finishing, FinishRefused, Standing, live, held

\* The second verdict is true.
LEMMA CloseReported ==
  ASSUME Inv, Inv', Reported, Close
  PROVE  Reported'
<1> USE DEF Reported, Close, Standing, Idle, marks, live, held
<1>1. Accounted'
  BY DEF Working, Opening, Inv, Accounted, Closing, Finishing
<1>2. Offered'
  BY DEF Offered, Closing, Finishing
<1>3. Closing'
  BY DEF Closing, Finishing
<1>4. HonestVerdict'
  <2> DEFINE n == actor.name
  <2>1. n \in Names BY DEF Inv, Suspended
  <2>2. ASSUME actor.own, actor.state # "outcome_unknown"
        PROVE  tx[n] = "none"
    <3>1. n \notin busy \union pending /\ tx[n] # "doubt"
      BY <2>2 DEF Closing, Finishing
    <3> QED BY <2>1, <3>1 DEF Inv, Outcome, TypeOK, Outcomes
  <2> QED BY <2>1, <2>2 DEF HonestVerdict, Inv, TypeOK
<1> QED BY <1>1, <1>2, <1>3, <1>4

\* No job outlives the process.
LEMMA CrashReported ==
  ASSUME Inv, Inv', Reported, Crash
  PROVE  Reported'
BY DEF Reported, Accounted, Offered, Closing, HonestVerdict, Crash, Exit, Idle

\* Nor a shutdown.
LEMMA ShutdownReported ==
  ASSUME Inv, Inv', Reported, Shutdown
  PROVE  Reported'
BY DEF Reported, Accounted, Offered, Closing, HonestVerdict, Shutdown, Exit,
       Idle

\* Nothing is reported yet.
LEMMA RestartReported ==
  ASSUME Inv, Inv', Reported, Restart
  PROVE  Reported'
BY DEF Reported, Accounted, Offered, Closing, HonestVerdict, Finishing,
       Restart, live, held

-----------------------------------------------------------------------------
\* Every step keeps what is reported true.
LEMMA ReportedNext == Inv /\ Reported /\ [Next]_vars => Reported'
<1> SUFFICES ASSUME Inv, Reported, [Next]_vars PROVE Reported' OBVIOUS
<1>0. Inv' BY NextInv
<1>1. ASSUME NEW n \in Names, Command(n) PROVE Reported'
  BY <1>0, <1>1, ConnectReported, DisconnectReported,
     ConfirmDisconnectReported, AcknowledgeReported, LoadReported,
     ExecuteReported, SettleReported, UserCancelReported DEF Command
<1>2. ASSUME NEW n \in Names, Work(n) PROVE Reported'
  BY <1>0, <1>2, OpenDoneReported, ReadDoneReported, BeginWriteReported,
     ExecuteOkReported, ExecuteUndoneReported, ExecuteUnknownReported,
     SettleDoneReported DEF Work
<1>3. ASSUME NEW n \in Names, Cancellation(n) PROVE Reported'
  BY <1>0, <1>3, CancelAttemptReported, HostCancelsJobReported,
     JobCancelArrivesReported, LeaseCancelArrivesReported DEF Cancellation
<1>4. ASSUME NEW n \in Names, Complete(n) PROVE Reported'
  BY <1>0, <1>4, CompleteConnectReported, CompleteCatalogReported,
     CompleteDataReported, CompleteSettledReported, CompleteFailedReported
     DEF Complete
<1>5. CASE Resume
  BY <1>0, <1>5, MarkStoredReported, MarkRefusedReported,
     LeaseGrantedReported, LeaseRefusedReported, AdmitReported,
     AdmitRefusedReported, LoadFirstReported, LoadSkippedReported,
     RolledBackReported, RollbackLostReported, SaveDoneReported,
     SaveRefusedReported, PublishedReported, FinishAcceptedReported,
     FinishRefusedReported, CloseReported DEF Resume
<1>6. CASE UNCHANGED vars
  BY <1>6 DEF vars, marks, live, held, Reported, Accounted, Offered, Closing,
              Finishing, HonestVerdict
<1> QED
  BY <1>0, <1>1, <1>2, <1>3, <1>4, <1>5, <1>6, LeaseEventReported,
     ExpireReported, CrashReported, ShutdownReported, RestartReported DEF Next

\* It is true at first.
LEMMA ReportedInit == Init => Reported
BY DEF Init, Reported, Accounted, Offered, Closing, Finishing, HonestVerdict,
       Idle

\* What the actor knows while it finishes a job, at every step.
LEMMA ReportedAlways == Spec => []Reported
BY Invariance, ReportedInit, ReportedNext, PTL DEF Spec

\* A job the host was told was cancelled or failed left no write behind.
THEOREM VerdictsHonest == Spec => []HonestVerdict
<1>1. Reported => HonestVerdict BY DEF Reported
<1> QED BY ReportedAlways, <1>1, PTL

\* A transaction that waits for the user belongs to a job that succeeded: a
\* cancellation that came late has rolled it back (APP-009).
THEOREM PendingSucceeded == Spec => []NothingCancelledIsPending
<1>1. Reported => NothingCancelledIsPending
  BY DEF Reported, Offered, NothingCancelledIsPending, Idle
<1> QED BY ReportedAlways, <1>1, PTL

\* A token fires in the middle of a read only if its job is being cancelled:
\* a read has no lease, is no attempt, and runs under a job of its own, which
\* the "cancel" command cancels along with it.
OwnStep == \A n \in Names :
  worker[n] \in {"reading", "catalog"} /\ n \in cancel' \ cancel
    => "cancelling" \in {job[n], job'[n]}

\* No step but that of the read's own job or of "cancel" fires its token.
LEMMA OwnNext == ASSUME Inv, Reported, [Next]_vars PROVE OwnStep
<1>0. SUFFICES ASSUME NEW n \in Names, worker[n] \in {"reading", "catalog"},
                      n \in cancel' \ cancel
               PROVE  "cancelling" \in {job[n], job'[n]}
  BY DEF OwnStep
<1>1. /\ n \notin lease \union revoked /\ n \notin connecting
      /\ n \in busy /\ job[n] \in {"running", "cancelling"}
  BY <1>0 DEF Inv, Outcome, Leased, Working, Opening, Reported, Accounted
<1>2. ASSUME NEW m \in Names, Command(m) PROVE "cancelling" \in {job[n], job'[n]}
  <2>1. CASE UserCancel(m)
    <3>1. m = n
      BY <1>0, <2>1 DEF UserCancel
    <3> QED
      BY <1>1, <2>1, <3>1 DEF UserCancel, Inv, TypeOK
  <2>2. CASE Disconnect(m)
    BY <1>0, <2>2 DEF Disconnect, Drop
  <2>3. CASE \/ ConfirmDisconnect(m) \/ Acknowledge(m) \/ Load(m) \/ Execute(m)
             \/ \E commit \in BOOLEAN : Settle(m, commit)
    BY <1>0, <2>3 DEF ConfirmDisconnect, Acknowledge, Load, Execute, Settle
  <2>4. CASE \E write \in BOOLEAN : Connect(m, write)
    BY <1>0, <2>4 DEF Connect, Open
  <2> QED
    BY <1>2, <2>1, <2>2, <2>3, <2>4 DEF Command
<1>3. ASSUME NEW m \in Names, Cancellation(m) PROVE "cancelling" \in {job[n], job'[n]}
  BY <1>0, <1>1, <1>3 DEF Cancellation, CancelAttempt, HostCancelsJob, JobCancelArrives,
                     LeaseCancelArrives
<1>4. ASSUME NEW m \in Names, Work(m) PROVE FALSE
  BY <1>0, <1>4 DEF Work, OpenDone, ReadDone, BeginWrite, ExecuteOk, ExecuteUndone,
               ExecuteUnknown, SettleDone
<1>5. ASSUME NEW m \in Names, Complete(m) PROVE FALSE
  BY <1>0, <1>5 DEF Complete, CompleteConnect, CompleteCatalog, CompleteData,
               CompleteSettled, CompleteFailed
<1>6. ASSUME NEW m \in Names, LeaseEvent(m) \/ Expire(m) PROVE FALSE
  BY <1>0, <1>1, <1>6 DEF LeaseEvent, Expire
<1>7. CASE Resume
  <2>1. FinishRefused
    BY <1>0, <1>7 DEF Resume, MarkStored, MarkRefused, LeaseGranted, LeaseRefused, Admit,
                 AdmitRefused, LoadFirst, LoadSkipped, RolledBack, RollbackLost, SaveDone,
                 SaveRefused, Published, FinishAccepted, Close, Drop
  <2> QED
    BY <1>0, <1>1, <2>1 DEF FinishRefused
<1>8. CASE Crash \/ Shutdown \/ Restart
  BY <1>0, <1>8 DEF Crash, Shutdown, Restart, Exit
<1>9. CASE UNCHANGED vars
  BY <1>0, <1>9 DEF vars
<1> QED
  BY <1>2, <1>3, <1>4, <1>5, <1>6, <1>7, <1>8, <1>9 DEF Next

\* A read is only ever cancelled through its own job, whatever becomes of the
\* jobs that its connection had before.
THEOREM ReadsCancelledByTheirJobs == Spec => OwnCancellation
<1>1. Inv /\ Reported /\ [Next]_vars => [OwnStep]_vars
  BY OwnNext
<1>2. [][OwnStep]_vars => OwnCancellation
  BY PTL DEF OwnStep, OwnCancellation
<1> QED
  BY <1>1, <1>2, Invariance, ReportedAlways, PTL DEF Spec

-----------------------------------------------------------------------------
(***************************************************************************)
(* Transactions implements RecoveryMarker for any set of profiles, under   *)
(* the mapping Phase: what the stored document and the database say        *)
(* together.  The inductive invariant above supplies what each step        *)
(* needs: that BEGIN finds a stored marker, that a document written while  *)
(* a write is outstanding keeps its marker, and that a settlement or a     *)
(* rollback finds no doubt.                                                *)
(***************************************************************************)

\* No phase but clear at first.
LEMMA MarkerInit == Init => Marker!Init
BY DEF Init, Marker!Init, Phase

\* What leaves the marker, the write and the process alone is a stutter.
LEMMA MarkerStutter ==
  ASSUME UNCHANGED <<up, stored, tx>>
  PROVE  UNCHANGED Marker!vars
BY DEF Marker!vars, Phase

\* A write of the state document is the abstract Save.
LEMMA MarkerSave ==
  ASSUME Inv, up, UNCHANGED <<up, tx>>, stored' = saved
  PROVE  Marker!Save
<1>1. \A n \in Names : tx[n] # "none" => n \in stored /\ n \in saved
  BY DEF Inv, Marked
<1>2. saved \in SUBSET Names BY DEF Inv, TypeOK
<1>3. [n \in Names |-> Phase(n)]' =
        [n \in Names |->
           IF [m \in Names |-> Phase(m)][n] \in {"live", "doubt"}
             THEN [m \in Names |-> Phase(m)][n]
             ELSE IF n \in saved THEN "marked" ELSE "clear"]
  BY <1>1 DEF Phase, Inv, TypeOK, Outcomes
<1> QED BY <1>2, <1>3 DEF Marker!Save

\* A step of one write moves the phase of its profile only.
LEMMA MarkerMove ==
  ASSUME Inv, NEW n \in Names, UNCHANGED <<up, stored>>,
         NEW outcome \in Outcomes, tx' = [tx EXCEPT ![n] = outcome]
  PROVE  [m \in Names |-> Phase(m)]' =
           [[m \in Names |-> Phase(m)] EXCEPT
              ![n] = IF outcome = "none"
                       THEN IF n \in stored THEN "marked" ELSE "clear"
                     ELSE IF n \notin stored THEN "unmarked"
                     ELSE IF outcome = "open" THEN "live" ELSE "doubt"]
BY DEF Phase, Inv, TypeOK

\* A write confirmed settled or undone leaves live for marked.
LEMMA MarkerSettled ==
  ASSUME Inv, up, NEW n \in Names, UNCHANGED <<up, stored>>, tx[n] # "doubt",
         tx' = [tx EXCEPT ![n] = "none"]
  PROVE  [Marker!Next]_Marker!vars
<1>1. CASE tx[n] = "none"
  <2>1. tx' = tx BY <1>1 DEF Inv, TypeOK
  <2> QED BY <2>1, MarkerStutter
<1>2. CASE tx[n] = "open"
  <2>1. n \in stored BY <1>2 DEF Inv, Marked
  <2>2. Phase(n) = "live" BY <1>2, <2>1 DEF Phase
  <2>3. [m \in Names |-> Phase(m)]' =
          [[m \in Names |-> Phase(m)] EXCEPT ![n] = "marked"]
    BY <2>1, MarkerMove DEF Outcomes
  <2>4. Marker!Settled(n) BY <2>2, <2>3 DEF Marker!Settled
  <2> QED BY <2>4 DEF Marker!Next
<1> QED BY <1>1, <1>2 DEF Inv, TypeOK, Outcomes

\* A write whose confirmation is lost leaves live for doubt.
LEMMA MarkerLost ==
  ASSUME Inv, up, NEW n \in Names, UNCHANGED <<up, stored>>,
         tx' = [tx EXCEPT ![n] = IF tx[n] = "open" THEN "doubt" ELSE tx[n]]
  PROVE  [Marker!Next]_Marker!vars
<1>1. CASE tx[n] # "open"
  <2>1. tx' = tx BY <1>1 DEF Inv, TypeOK
  <2> QED BY <2>1, MarkerStutter
<1>2. CASE tx[n] = "open"
  <2>1. n \in stored BY <1>2 DEF Inv, Marked
  <2>2. Phase(n) = "live" BY <1>2, <2>1 DEF Phase
  <2>3. [m \in Names |-> Phase(m)]' =
          [[m \in Names |-> Phase(m)] EXCEPT ![n] = "doubt"]
    BY <1>2, <2>1, MarkerMove DEF Outcomes
  <2>4. Marker!Lost(n) BY <2>2, <2>3 DEF Marker!Lost
  <2> QED BY <2>4 DEF Marker!Next
<1> QED BY <1>1, <1>2

\* Only the user leads out of doubt.
LEMMA MarkerAcknowledged ==
  ASSUME Inv, NEW n \in Names, Acknowledge(n)
  PROVE  [Marker!Next]_Marker!vars
<1> USE DEF Acknowledge, Resting
<1>1. CASE tx[n] # "doubt"
  <2>1. tx' = tx BY <1>1 DEF Inv, TypeOK
  <2> QED BY <2>1, MarkerStutter
<1>2. CASE tx[n] = "doubt"
  <2>1. n \in stored BY <1>2 DEF Inv, Marked
  <2>2. Phase(n) = "doubt" BY <1>2, <2>1 DEF Phase
  <2>3. tx' = [tx EXCEPT ![n] = "none"] BY <1>2
  <2>4. [m \in Names |-> Phase(m)]' =
          [[m \in Names |-> Phase(m)] EXCEPT ![n] = "marked"]
    BY <2>1, <2>3, MarkerMove DEF Outcomes
  <2>5. Marker!Acknowledged(n) BY <2>2, <2>4 DEF Marker!Acknowledged
  <2> QED BY <2>5 DEF Marker!Next
<1> QED BY <1>1, <1>2

\* BEGIN finds the marker stored.
LEMMA MarkerBegin ==
  ASSUME Inv, NEW n \in Names, BeginWrite(n)
  PROVE  [Marker!Next]_Marker!vars
<1> USE DEF BeginWrite
<1>1. n \in lease BY DEF Inv, Outcome
<1>2. n \in stored BY <1>1 DEF Inv, Leased
<1>3. up BY <1>1 DEF Inv, Stopped
<1>4. Phase(n) = "marked" BY <1>2 DEF Phase
<1>5. [m \in Names |-> Phase(m)]' =
        [[m \in Names |-> Phase(m)] EXCEPT ![n] = "live"]
  BY <1>2, MarkerMove DEF Outcomes, marks
<1>6. Marker!Begin(n) BY <1>3, <1>4, <1>5 DEF Marker!Begin
<1> QED BY <1>6 DEF Marker!Next

\* A crash or shutdown is the abstract Stop.
LEMMA MarkerStop ==
  ASSUME Inv, up, NEW undone \in SUBSET Names, Exit(undone)
  PROVE  Marker!Next
<1>1. \A n \in Names : tx[n] # "none" => n \in stored BY DEF Inv, Marked
<1>2. [n \in Names |-> Phase(n)]' =
        [n \in Names |->
           IF [m \in Names |-> Phase(m)][n] # "live"
             THEN [m \in Names |-> Phase(m)][n]
             ELSE IF n \in undone THEN "marked" ELSE "doubt"]
  BY <1>1 DEF Exit, Phase, Inv, TypeOK, Outcomes
<1>3. Marker!Stop BY <1>2 DEF Marker!Stop, Exit
<1> QED BY <1>3 DEF Marker!Next

\* Every step implements a step of RecoveryMarker or none of them.
LEMMA MarkerNext ==
  ASSUME Inv, [Next]_vars
  PROVE  [Marker!Next]_Marker!vars
<1>1. ASSUME NEW n \in Names, Command(n) PROVE [Marker!Next]_Marker!vars
  <2>1. CASE Acknowledge(n) BY <2>1, MarkerAcknowledged
  <2>2. CASE ~Acknowledge(n)
    BY <1>1, <2>2, MarkerStutter
    DEF Command, Connect, Open, Disconnect, ConfirmDisconnect, Load, Execute,
        Settle, UserCancel, marks
  <2> QED BY <2>1, <2>2
<1>2. ASSUME NEW n \in Names, Work(n) PROVE [Marker!Next]_Marker!vars
  <2>1. up BY <1>2 DEF Inv, Stopped, Work, OpenDone, ReadDone, BeginWrite,
       ExecuteOk, ExecuteUndone, ExecuteUnknown, SettleDone
  <2>2. CASE OpenDone(n) \/ ReadDone(n) \/ ExecuteOk(n)
    BY <2>2, MarkerStutter DEF OpenDone, ReadDone, ExecuteOk, marks
  <2>3. CASE BeginWrite(n) BY <2>3, MarkerBegin
  <2>4. CASE ExecuteUndone(n)
    <3>1. tx[n] # "doubt" BY <2>4 DEF ExecuteUndone, Inv, Outcome
    <3> QED BY <2>1, <2>4, <3>1, MarkerSettled DEF ExecuteUndone, marks
  <2>5. CASE ExecuteUnknown(n)
    BY <2>1, <2>5, MarkerLost DEF ExecuteUnknown, marks
  <2>6. CASE SettleDone(n)
    <3>1. tx[n] = "open" BY <2>6 DEF SettleDone, Inv, Outcome
    <3>2. CASE tx' = [tx EXCEPT ![n] = "none"]
      BY <2>1, <2>6, <3>1, <3>2, MarkerSettled DEF SettleDone, marks
    <3>3. CASE tx' = [tx EXCEPT ![n] = "doubt"]
      BY <2>1, <2>6, <3>1, <3>3, MarkerLost DEF SettleDone, marks
    <3> QED BY <2>6, <3>2, <3>3 DEF SettleDone
  <2> QED BY <1>2, <2>2, <2>3, <2>4, <2>5, <2>6 DEF Work
<1>3. ASSUME NEW n \in Names,
             Cancellation(n) \/ LeaseEvent(n) \/ Expire(n) \/ Complete(n)
      PROVE  [Marker!Next]_Marker!vars
  BY <1>3, MarkerStutter
  DEF Cancellation, CancelAttempt, HostCancelsJob, JobCancelArrives,
      LeaseCancelArrives, LeaseEvent, Expire, Complete, CompleteConnect,
      CompleteCatalog, CompleteData, CompleteSettled, CompleteFailed, marks
<1>4. CASE Resume
  <2>1. CASE MarkStored \/ SaveDone
    BY <2>1, MarkerSave DEF MarkStored, SaveDone, Standing, Marker!Next
  <2>2. CASE RolledBack
    <3>1. actor.name \in Names /\ tx[actor.name] # "doubt"
      BY <2>2 DEF RolledBack, Standing, Inv, Suspended, Idle
    <3> QED BY <2>2, <3>1, MarkerSettled DEF RolledBack, Standing
  <2>3. CASE RollbackLost
    <3>1. actor.name \in Names
      BY <2>3 DEF RollbackLost, Standing, Inv, Suspended, Idle
    <3> QED BY <2>3, <3>1, MarkerLost DEF RollbackLost, Standing, marks
  <2>4. CASE ~(MarkStored \/ SaveDone \/ RolledBack \/ RollbackLost)
    BY <1>4, <2>4, MarkerStutter
    DEF Resume, MarkRefused, LeaseGranted, LeaseRefused, Admit, AdmitRefused,
        LoadFirst, LoadSkipped, SaveRefused, Published, FinishAccepted,
        FinishRefused, Close, marks
  <2> QED BY <2>1, <2>2, <2>3, <2>4
<1>5. CASE Crash BY <1>5, MarkerStop DEF Crash
<1>6. CASE Shutdown
  <2>1. PICK undone \in SUBSET (pending \ busy) : Exit(undone)
    BY <1>6 DEF Shutdown
  <2>2. undone \in SUBSET Names BY DEF Inv, TypeOK
  <2> QED BY <1>6, <2>1, <2>2, MarkerStop DEF Shutdown, Resting
<1>7. CASE Restart
  <2>1. [n \in Names |-> Phase(n)]' = [n \in Names |-> Phase(n)]
    BY <1>7 DEF Restart, Phase
  <2>2. Marker!Start BY <1>7, <2>1 DEF Restart, Marker!Start
  <2> QED BY <2>2 DEF Marker!Next
<1>8. CASE UNCHANGED vars BY <1>8, MarkerStutter DEF vars, marks
<1> QED BY <1>1, <1>2, <1>3, <1>4, <1>5, <1>6, <1>7, <1>8 DEF Next

\* The plugin, its workers, crashes and restarts implement the life cycle that
\* the recovery markers promise.
THEOREM Refinement == Spec => ImplementsMarker
<1>1. Inv /\ [Next]_vars => [Marker!Next]_Marker!vars BY MarkerNext
<1> QED
  BY MarkerInit, Invariance, <1>1, PTL DEF Spec, ImplementsMarker, Marker!Spec
=============================================================================
