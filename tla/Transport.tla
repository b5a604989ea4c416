------------------------------ MODULE Transport ------------------------------
(***************************************************************************)
(* The transport between the plugin and its host (src/src/protocol.rs):    *)
(* the reader and the writer thread, the callers of request(), the actor   *)
(* that replies to the host, the tokens of tracked operations, and stop(), *)
(* which any of these threads may run while the others go on.              *)
(*                                                                         *)
(* A step ends where a lock is released or a shared flag is read.  Frames  *)
(* are written whole.  The host is external: it answers what it received   *)
(* in any order, or never, and keeps at most HostWindow requests of its    *)
(* own outstanding, not counting those it gave up at their deadline.       *)
(***************************************************************************)
EXTENDS Integers, Sequences, FiniteSets, SequencesExt

CONSTANTS
  Callers,       \* tasks that call request(), one request at a time each
  Ops,           \* leases and jobs with a cancellation token
  Reader, Writer, Actor, NoThread,
  HostWindow,    \* HOST_WINDOW
  PluginWindow,  \* PLUGIN_WINDOW
  Headroom,      \* the rest of OUTPUT_QUEUE
  MaxEarly,      \* cancellations kept for operations not tracked yet
  MaxLate,       \* bound: replies to requests the host gave up
  MaxSerial      \* bound: requests in a behaviour

ASSUME ThreadAssumption ==
  /\ {Reader, Writer, Actor} \cap Callers = {}
  /\ NoThread \notin Callers \cup {Reader, Writer, Actor}
  /\ Reader # Writer /\ Reader # Actor /\ Writer # Actor
ASSUME WindowAssumption ==
  /\ HostWindow \in Nat /\ PluginWindow \in Nat /\ Headroom \in Nat
  /\ MaxEarly \in Nat \ {0} /\ MaxLate \in Nat /\ MaxSerial \in Nat
ASSUME FiniteAssumption == IsFiniteSet(Callers) /\ IsFiniteSet(Ops)

VARIABLES
  stopped, stopper, stage,  \* the flag, who set it, and how far its stop() is
  queue, writing, wire,     \* output frames, the writer's, the last id written
  serial, order,            \* the last id, and the holder of request_order
  pending,                  \* the ids with a reply channel
  at, id, reply,            \* where a thread is; a caller's request and answer
  asked,                    \* the requests the host received, not yet answered
  window, late, callbacks,  \* host requests: outstanding, given up, unreplied
  op, cancelled, fired, early  \* operations, their cancellations and tokens

stopping == <<stopped, stopper, stage>>
output == <<queue, writing, wire>>
requests == <<serial, order, pending, id, reply>>
host == <<asked, window, late, callbacks>>
tokens == <<op, cancelled, fired, early>>
vars == <<stopped, stopper, stage, queue, writing, wire, serial, order,
          pending, at, id, reply, asked, window, late, callbacks, op,
          cancelled, fired, early>>

Threads == Callers \cup {Reader, Writer, Actor}
\* Mutant: the queue has no headroom.
CapacityExact == HostWindow + PluginWindow

Capacity == HostWindow + PluginWindow + Headroom    \* OUTPUT_QUEUE
Frames == [kind : {"request", "reply", "stop"}, id : Nat]
Request(i) == [kind |-> "request", id |-> i]
Reply == [kind |-> "reply", id |-> 0]
Sentinel == [kind |-> "stop", id |-> 0]             \* Vec::new()

Init ==
  /\ stopped = FALSE /\ stopper = NoThread /\ stage = "no"
  /\ queue = <<>> /\ writing = Sentinel /\ wire = 0
  /\ serial = 0 /\ order = NoThread /\ pending = {}
  /\ at = [t \in Threads |-> CASE t \in Callers -> "idle"
                               [] t = Writer -> "check"
                               [] OTHER -> "run"]
  /\ id = [c \in Callers |-> 0]
  /\ reply = [c \in Callers |-> "none"]
  /\ asked = {} /\ window = 0 /\ late = 0 /\ callbacks = 0
  /\ op = [o \in Ops |-> "new"]
  /\ cancelled = {} /\ fired = {} /\ early = <<>>

-----------------------------------------------------------------------------
(* stop(): the first thread runs it to its end, any other returns at once. *)

Stop(t) ==
  IF stopped
    THEN UNCHANGED stopping
    ELSE stopped' = TRUE /\ stopper' = t /\ stage' = "wake"

(* The queue takes a frame: it is not full, and its receiver exists.       *)
Accepting == Len(queue) < Capacity /\ at[Writer] # "ended"

(* t is not inside stop(). *)
Returned(t) == stopper = t => stage = "done"

(* The writer is woken by an empty frame, which a full queue refuses. *)
Wake ==
  /\ stage = "wake"
  /\ stage' = "tokens"
  /\ queue' = IF Accepting THEN Append(queue, Sentinel) ELSE queue
  /\ UNCHANGED <<stopped, stopper, writing, wire, requests, at, host, tokens>>

CancelTokens ==
  /\ stage = "tokens"
  /\ stage' = "pending"
  /\ fired' = fired \cup {o \in Ops : op[o] = "tracked"}
  /\ UNCHANGED <<stopped, stopper, output, requests, at, host, op, cancelled,
                 early>>

(* Dropping its channel answers a caller that waits, or will wait, for it. *)
ClearPending ==
  /\ stage = "pending"
  /\ stage' = "done"
  /\ pending' = {}
  /\ reply' = [c \in Callers |->
       IF id[c] \in pending THEN "dropped" ELSE reply[c]]
  /\ UNCHANGED <<stopped, stopper, output, serial, order, at, id, host,
                 tokens>>

-----------------------------------------------------------------------------
(* request()                                                               *)

Busy == {c \in Callers : at[c] # "idle"}

\* Mutant: ids are given out without the order lock.
BeginUnordered(c) ==
  /\ at[c] = "idle"
  /\ Cardinality(Busy) < PluginWindow
  /\ serial < MaxSerial
  /\ serial' = serial + 1
  /\ pending' = pending \cup {serial + 1}
  /\ id' = [id EXCEPT ![c] = serial + 1]
  /\ reply' = [reply EXCEPT ![c] = "none"]
  /\ at' = [at EXCEPT ![c] = "check"]
  /\ UNCHANGED <<order, stopping, output, host, tokens>>

(* A permit, the order lock, an id and its channel. *)
Begin(c) ==
  /\ at[c] = "idle" /\ order = NoThread
  /\ Cardinality(Busy) < PluginWindow
  /\ serial < MaxSerial
  /\ serial' = serial + 1
  /\ order' = c
  /\ pending' = pending \cup {serial + 1}
  /\ id' = [id EXCEPT ![c] = serial + 1]
  /\ reply' = [reply EXCEPT ![c] = "none"]
  /\ at' = [at EXCEPT ![c] = "check"]
  /\ UNCHANGED <<stopping, output, host, tokens>>

(* The caller gives up its id, the lock and its permit. *)
Withdraw(c) ==
  /\ pending' = pending \ {id[c]}
  /\ order' = NoThread
  /\ at' = [at EXCEPT ![c] = "idle"]
  /\ id' = [id EXCEPT ![c] = 0]
  /\ reply' = [reply EXCEPT ![c] = "none"]
  /\ UNCHANGED serial

\* Mutant: send() does not look at the flag.
CheckNothing(c) ==
  /\ at[c] = "check"
  /\ at' = [at EXCEPT ![c] = "push"]
  /\ UNCHANGED <<stopping, output, requests, host, tokens>>

(* send() looks at the flag, and refuses a frame that is too long, before  *)
(* it offers it to the queue.                                              *)
Check(c) ==
  /\ at[c] = "check"
  /\ \/ Withdraw(c)
     \/ ~stopped /\ at' = [at EXCEPT ![c] = "push"] /\ UNCHANGED requests
  /\ UNCHANGED <<stopping, output, host, tokens>>

Push(c) ==
  /\ at[c] = "push" /\ Accepting
  /\ queue' = Append(queue, Request(id[c]))
  /\ order' = NoThread
  /\ at' = [at EXCEPT ![c] = "wait"]
  /\ UNCHANGED <<stopping, writing, wire, serial, pending, id, reply, host,
                 tokens>>

(* A refused frame stops the transport, under the order lock. *)
PushRefused(c) ==
  /\ at[c] = "push" /\ ~Accepting
  /\ Stop(c)
  /\ at' = [at EXCEPT ![c] = "refused"]
  /\ UNCHANGED <<output, requests, host, tokens>>

Refused(c) ==
  /\ at[c] = "refused" /\ Returned(c)
  /\ Withdraw(c)
  /\ UNCHANGED <<stopping, output, host, tokens>>

(* The caller returns: its permit is free, its id stays where it is. *)
Leave(c) ==
  /\ at' = [at EXCEPT ![c] = "idle"]
  /\ id' = [id EXCEPT ![c] = 0]
  /\ reply' = [reply EXCEPT ![c] = "none"]
  /\ UNCHANGED <<stopping, output, serial, order, pending, host, tokens>>

Answered(c) == at[c] = "wait" /\ reply[c] = "answer" /\ Leave(c)

\* Mutant: there is no timeout.
UnansweredPatient(c) ==
  /\ at[c] = "wait" /\ reply[c] = "dropped"
  /\ Stop(c)
  /\ at' = [at EXCEPT ![c] = "failed"]
  /\ UNCHANGED <<output, requests, host, tokens>>

(* A dropped channel, or eight seconds without an answer. *)
Unanswered(c) ==
  /\ at[c] = "wait" /\ reply[c] # "answer"
  /\ Stop(c)
  /\ at' = [at EXCEPT ![c] = "failed"]
  /\ UNCHANGED <<output, requests, host, tokens>>

Failed(c) == at[c] = "failed" /\ Returned(c) /\ Leave(c)

-----------------------------------------------------------------------------
(* The writer thread.                                                      *)

Take ==
  /\ at[Writer] = "recv" /\ queue # <<>>
  /\ writing' = Head(queue)
  /\ queue' = Tail(queue)
  /\ at' = [at EXCEPT ![Writer] = "write"]
  /\ UNCHANGED <<stopping, wire, requests, host, tokens>>

(* The host receives a frame: a request to answer, or one of its answers,  *)
(* perhaps to a request that it has given up.                              *)
Deliver ==
  /\ at[Writer] = "write" /\ ~stopped
  /\ at' = [at EXCEPT ![Writer] = "check"]
  /\ \/ /\ writing.kind = "request"
        /\ wire' = writing.id
        /\ asked' = asked \cup {writing.id}
        /\ UNCHANGED <<window, late>>
     \/ /\ writing.kind = "reply" /\ window > 0
        /\ window' = window - 1
        /\ UNCHANGED <<wire, asked, late>>
     \/ /\ writing.kind = "reply" /\ late > 0
        /\ late' = late - 1
        /\ UNCHANGED <<wire, asked, window>>
  /\ UNCHANGED <<stopping, queue, writing, requests, callbacks, tokens>>

(* Nothing is written for an empty frame.                                  *)
Woken ==
  /\ at[Writer] = "write" /\ writing = Sentinel
  /\ at' = [at EXCEPT ![Writer] = "check"]
  /\ UNCHANGED <<stopping, output, requests, host, tokens>>

(* The pipe failed or took more than two seconds, or the flag was seen.    *)
WriteFails ==
  /\ at[Writer] = "write" /\ writing # Sentinel
  /\ Stop(Writer)
  /\ at' = [at EXCEPT ![Writer] = "stop"]
  /\ UNCHANGED <<output, requests, host, tokens>>

WriterLoop ==
  /\ at[Writer] = "check"
  /\ at' = [at EXCEPT ![Writer] = IF stopped THEN "ended" ELSE "recv"]
  /\ UNCHANGED <<stopping, output, requests, host, tokens>>

(* A thread ends when its stop() has returned. *)
End(t) ==
  /\ at[t] = "stop" /\ Returned(t)
  /\ at' = [at EXCEPT ![t] = "ended"]
  /\ UNCHANGED <<stopping, output, requests, host, tokens>>

-----------------------------------------------------------------------------
(* The reader thread.  It goes on with the bytes it has read while another *)
(* thread stops the transport.                                             *)

(* An answer takes the channel out of the table, if it is still there. *)
Response(i) ==
  /\ at[Reader] = "run" /\ i \in asked
  /\ asked' = asked \ {i}
  /\ pending' = pending \ {i}
  /\ reply' = [c \in Callers |->
       IF id[c] = i /\ i \in pending THEN "answer" ELSE reply[c]]
  /\ UNCHANGED <<stopping, output, serial, order, at, id, window, late,
                 callbacks, tokens>>

HostRequest ==
  /\ at[Reader] = "run" /\ window < HostWindow
  /\ window' = window + 1
  /\ callbacks' = callbacks + 1
  /\ UNCHANGED <<stopping, output, requests, at, asked, late, tokens>>

(* The host gives up a path validation at its deadline; the plugin will    *)
(* reply all the same.                                                     *)
Retire ==
  /\ window > 0 /\ late < MaxLate
  /\ window' = window - 1
  /\ late' = late + 1
  /\ UNCHANGED <<stopping, output, requests, at, asked, callbacks, tokens>>

(* The end of the input, a bad frame, a full callback queue, or the wake. *)
ReaderEnds ==
  /\ at[Reader] = "run"
  /\ Stop(Reader)
  /\ at' = [at EXCEPT ![Reader] = "stop"]
  /\ UNCHANGED <<output, requests, host, tokens>>

-----------------------------------------------------------------------------
(* The actor and its validation tasks: a reply to each host request.       *)

Answer ==
  /\ at[Actor] = "run" /\ callbacks > 0
  /\ callbacks' = callbacks - 1
  /\ \/ /\ ~stopped /\ Accepting
        /\ queue' = Append(queue, Reply)
        /\ UNCHANGED <<stopping, at>>
     \/ /\ stopped \/ ~Accepting
        /\ Stop(Actor)
        /\ at' = [at EXCEPT ![Actor] = "stop"]
        /\ UNCHANGED queue
  /\ UNCHANGED <<writing, wire, requests, asked, window, late, tokens>>

(* The flag, the end of the callbacks, or an error that ends App::run. *)
ActorEnds ==
  /\ at[Actor] = "run"
  /\ Stop(Actor)
  /\ at' = [at EXCEPT ![Actor] = "stop"]
  /\ UNCHANGED <<output, requests, host, tokens>>

-----------------------------------------------------------------------------
(* Leases and jobs.                                                        *)

(* The host creates an operation, and answers with its name. *)
Create(o) ==
  /\ op[o] = "new" /\ at[Reader] = "run"
  /\ op' = [op EXCEPT ![o] = "created"]
  /\ UNCHANGED <<stopping, output, requests, at, host, cancelled, fired,
                 early>>

IsEarly(o) == \E i \in DOMAIN early : early[i] = o

\* Mutant: whether the transport is stopped is not looked at.
TrackUnstopped(o) ==
  /\ op[o] = "created"
  /\ op' = [op EXCEPT ![o] = "tracked"]
  /\ IF IsEarly(o)
       THEN /\ \E i \in DOMAIN early :
                 early[i] = o /\ early' = RemoveAt(early, i)
            /\ fired' = fired \cup {o}
       ELSE UNCHANGED <<early, fired>>
  /\ UNCHANGED <<stopping, output, requests, at, host, cancelled>>

(* The token is cancelled at once if its cancellation came early, or if    *)
(* the transport is stopped already.                                       *)
Track(o) ==
  /\ op[o] = "created"
  /\ op' = [op EXCEPT ![o] = "tracked"]
  /\ fired' = IF IsEarly(o) \/ stopped THEN fired \cup {o} ELSE fired
  /\ IF IsEarly(o)
       THEN \E i \in DOMAIN early :
              early[i] = o /\ early' = RemoveAt(early, i)
       ELSE UNCHANGED early
  /\ UNCHANGED <<stopping, output, requests, at, host, cancelled>>

Untrack(o) ==
  /\ op[o] = "tracked"
  /\ op' = [op EXCEPT ![o] = "gone"]
  /\ UNCHANGED <<stopping, output, requests, at, host, cancelled, fired,
                 early>>

\* Mutant: one cancellation less is kept.
RememberFewer(o) ==
  IF Len(early) + 1 >= MaxEarly
    THEN Append(Tail(early), o)
    ELSE Append(early, o)

(* The oldest early cancellation makes room for a new one. *)
Remember(o) ==
  IF Len(early) = MaxEarly THEN Append(Tail(early), o) ELSE Append(early, o)

(* A cancellation, before or after its operation is tracked, or too late:  *)
(* the host cancels an operation once.                                     *)
Cancel(o) ==
  /\ at[Reader] = "run" /\ op[o] # "new" /\ o \notin cancelled
  /\ cancelled' = cancelled \cup {o}
  /\ IF op[o] = "tracked"
       THEN fired' = fired \cup {o} /\ UNCHANGED early
       ELSE early' = Remember(o) /\ UNCHANGED fired
  /\ UNCHANGED <<stopping, output, requests, at, host, op>>

-----------------------------------------------------------------------------
Caller(c) ==
  \/ Begin(c) \/ Check(c) \/ Push(c) \/ PushRefused(c) \/ Refused(c)
  \/ Answered(c) \/ Unanswered(c) \/ Failed(c)
StopSteps == Wake \/ CancelTokens \/ ClearPending
WriterSteps ==
  Take \/ Deliver \/ Woken \/ WriteFails \/ WriterLoop \/ End(Writer)
ReaderSteps ==
  (\E i \in asked : Response(i)) \/ HostRequest \/ ReaderEnds \/ End(Reader)
ActorSteps == Answer \/ ActorEnds \/ End(Actor)
Operation(o) == Create(o) \/ Track(o) \/ Untrack(o) \/ Cancel(o)

Next ==
  \/ \E c \in Callers : Caller(c)
  \/ StopSteps \/ WriterSteps \/ ReaderSteps \/ ActorSteps \/ Retire
  \/ \E o \in Ops : Operation(o)

(* Every thread runs.  The reader and the actor end when they see that the *)
(* transport is stopped; a caller's timer expires; the pipe never blocks a *)
(* write for ever.                                                         *)
Fairness ==
  /\ \A c \in Callers :
       WF_vars(Check(c) \/ Push(c) \/ PushRefused(c) \/ Refused(c)
               \/ Answered(c) \/ Unanswered(c) \/ Failed(c))
  /\ WF_vars(StopSteps)
  /\ WF_vars(WriterSteps)
  /\ WF_vars(stopped /\ ReaderEnds) /\ WF_vars(stopped /\ ActorEnds)
  /\ WF_vars(End(Reader)) /\ WF_vars(End(Actor))

Spec == Init /\ [][Next]_vars
FairSpec == Spec /\ Fairness

-----------------------------------------------------------------------------
(* Properties.                                                             *)

(* Every variable has its type. *)
TypeOK ==
  /\ stopped \in BOOLEAN /\ stopper \in Threads \cup {NoThread}
  /\ stage \in {"no", "wake", "tokens", "pending", "done"}
  /\ queue \in Seq(Frames) /\ writing \in Frames /\ wire \in Nat
  /\ serial \in Nat /\ order \in Callers \cup {NoThread}
  /\ pending \subseteq Nat \ {0} /\ asked \subseteq Nat \ {0}
  /\ at \in [Threads -> {"idle", "check", "push", "wait", "refused", "failed",
                         "run", "recv", "write", "stop", "ended"}]
  /\ id \in [Callers -> Nat]
  /\ reply \in [Callers -> {"none", "answer", "dropped"}]
  /\ window \in Nat /\ late \in Nat /\ callbacks \in Nat
  /\ op \in [Ops -> {"new", "created", "tracked", "gone"}]
  /\ cancelled \subseteq Ops /\ fired \subseteq Ops
  /\ early \in Seq(Ops)

(* Requests reach the wire in the order of their ids, whichever tasks they *)
(* come from and whatever they wait for between the id and the queue.      *)
Unwritten == IF at[Writer] = "write" THEN <<writing>> \o queue ELSE queue
OrderedIds ==
  \A i \in DOMAIN Unwritten : Unwritten[i].kind = "request" =>
    /\ wire < Unwritten[i].id /\ Unwritten[i].id <= serial
    /\ \A j \in DOMAIN Unwritten : j < i /\ Unwritten[j].kind = "request" =>
         Unwritten[j].id < Unwritten[i].id

(* Once stop() is done, every tracked token is cancelled, whether it was   *)
(* tracked before stop() began, between its steps, or after it.            *)
StopCancels ==
  stage = "done" => \A o \in Ops : op[o] = "tracked" => o \in fired

(* Once stop() is done, no caller waits for an answer that could only end  *)
(* with its timeout, at whichever step of request() the stop caught it.    *)
StopReleases ==
  stage = "done" => \A c \in Callers : at[c] = "wait" => reply[c] # "none"

(* A cancellation that the reader has seen has fired the token by the time *)
(* the operation is tracked, unless MaxEarly others have come since.       *)
CancelReaches ==
  \A o \in cancelled : op[o] = "tracked" =>
    o \in fired \/ Cardinality(cancelled \ {o}) >= MaxEarly

(* "Every admitted reply and request fits without waiting for the writer   *)
(* thread" (protocol.rs:38): the queue refuses no frame of a host that     *)
(* keeps its window and gives up no more requests than the headroom holds. *)
QueueFits == ~stopped =>
  /\ \A c \in Callers : at[c] = "push" => Len(queue) < Capacity
  /\ at[Actor] = "run" /\ callbacks > 0 => Len(queue) < Capacity

(* A request ends: answered, refused, dropped by stop(), or timed out.     *)
RequestsEnd == \A c \in Callers : at[c] # "idle" ~> at[c] = "idle"

(* When any thread stops the transport, every thread of it ends: none      *)
(* sleeps on an empty queue, on the pipe or behind a lock.                 *)
ThreadsEnd == stopped ~> \A t \in {Reader, Writer, Actor} : at[t] = "ended"

(* Neither waits for ever, although a full queue makes a caller stop the   *)
(* transport under the order lock while the writer may sleep (request).    *)
NothingHangs == RequestsEnd /\ ThreadsEnd
=============================================================================
