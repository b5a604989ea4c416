--------------------------- MODULE AdaptersProofs ---------------------------
(***************************************************************************)
(* For any number of operations on a connection: a late cancel packet hits *)
(* no other operation, and nothing is left open for the next one.  The     *)
(* inductive invariant says what may be on the wire while the caller       *)
(* stands where, so that the answer to a ROLLBACK or COMMIT is the answer  *)
(* to everything sent before it.  A second invariant follows the           *)
(* transaction and what the caller is told of it.                          *)
(***************************************************************************)
EXTENDS Adapters, SequenceTheorems, TLAPS

Answers  == {"none", "ok", "error", "closed"}
Requests == [kind : Kinds, op : Ops, write : BOOLEAN]
Enders   == {"commit", "rollback"}
Calls    == [at : Places, op : 0 .. MaxOps, write : BOOLEAN, step : 0 .. Len(Steps),
             outcome : Outcomes]
Sessions == [tx : 0 .. MaxOps, write : BOOLEAN, failed : BOOLEAN, effects : SUBSET Ops,
             running : 0 .. MaxOps, open : BOOLEAN]
Settling == {"undo", "clean", "commit", "rollback"}

ClientTyped ==
  /\ engine \in {"postgres", "sqlite"} /\ writable \in BOOLEAN
  /\ kept \in BOOLEAN /\ retired \in BOOLEAN /\ told \in [Ops -> Told]
CallTyped ==
  /\ call \in Calls
  /\ call.at # "idle" => call.op \in Ops
LinkTyped ==
  /\ driver \in {"running", "aborting", "ended"}
  /\ asked \in Requests \cup {NoRequest} /\ answer \in Answers /\ wire \in Seq(Requests)
ServerTyped ==
  /\ session \in Sessions
  /\ packets \in SUBSET Ops /\ durable \in SUBSET Ops /\ struck \in SUBSET Ops
Types == ClientTyped /\ CallTyped /\ LinkTyped /\ ServerTyped

Quiet == session.tx = 0 /\ session.running = 0 /\ wire = <<>>

\* SQLite has no driver, no wire and nothing to retire.
Unwired ==
  engine = "sqlite" =>
    /\ wire = <<>> /\ session.running = 0 /\ packets = {} /\ ~retired /\ asked = NoRequest
    /\ driver = "ended" /\ call.at \in {"idle", "work", "end", "open"}

\* A connection the caller keeps rests between two operations.
Rest ==
  /\ call.at = "idle" /\ kept => Quiet
  /\ call.at \in {"idle", "open"} => call.step = 0 /\ asked = NoRequest

\* A packet is for the last operation of a connection that is retired, and
\* nobody keeps a connection once its interrupted operation has returned.
Retirement ==
  /\ packets \subseteq {call.op}
  /\ packets # {} => retired
  /\ call.at \in {"cancel", "undo"} => retired
  /\ retired => call.at \in {"cancel", "undo"} \/ (call.at = "idle" /\ ~kept)

\* What runs and what waits belongs to the caller's operation; a COMMIT or
\* ROLLBACK is the last that was sent, and only by a settlement.
OneOperation ==
  /\ session.running \in {0, call.op}
  /\ \A i \in 1 .. Len(wire) :
       /\ wire[i].op = call.op
       /\ wire[i].kind \in Enders => i = Len(wire) /\ call.at \in Settling \cup {"idle"}
  /\ struck = {}

\* The work sends one request at a time, and waits for its answer.
InStep ==
  engine = "postgres" /\ call.at = "work" =>
    /\ wire # <<>> => Len(wire) = 1 /\ wire[1] = asked /\ session.running = 0
                      /\ answer # "ok"
    /\ session.running # 0 => answer # "ok"
    /\ call.step = 0 => Quiet /\ asked = NoRequest
    /\ call.step > 0 => asked = Request(Steps[call.step])

\* An answered settlement has ended the transaction and everything before it.
Settlement ==
  call.at \in Settling =>
    /\ asked = Request(IF call.at = "commit" THEN "commit" ELSE "rollback")
    /\ answer = "ok" => Quiet

\* A write that waits for its settlement has nothing under way.
Waiting == call.at = "open" => wire = <<>> /\ session.running = 0

Inv == Types /\ Unwired /\ Rest /\ Retirement /\ OneOperation /\ InStep /\ Settlement /\ Waiting

-----------------------------------------------------------------------------
(* Sequences of requests.                                                  *)

LEMMA Nothing == <<>> \in Seq(Requests) /\ 1 .. Len(<<>>) = {}
OBVIOUS

LEMMA Tailed ==
  ASSUME NEW s \in Seq(Requests), s # <<>>
  PROVE  /\ Tail(s) \in Seq(Requests) /\ Len(Tail(s)) = Len(s) - 1 /\ Len(s) \in Nat
         /\ \A i \in 1 .. Len(s) - 1 : Tail(s)[i] = s[i + 1]
         /\ Head(s) = s[1] /\ Head(s) \in Requests /\ 1 \in 1 .. Len(s)
BY HeadTailProperties, ElementOfSeq, EmptySeq

LEMMA Cut ==
  ASSUME NEW s \in Seq(Requests), NEW n \in 0 .. Len(s)
  PROVE  /\ SubSeq(s, 1, n) \in Seq(Requests) /\ Len(SubSeq(s, 1, n)) = n
         /\ \A i \in 1 .. n : SubSeq(s, 1, n)[i] = s[i]
BY SubSeqProperties, LenProperties

LEMMA OfSteps == /\ Len(Steps) = 4
                 /\ \A k \in 1 .. 4 : Steps[k] \in {"begin", "set", "prepare", "query"}
BY DEF Steps

LEMMA Zero == /\ 0 \in 0 .. MaxOps /\ 0 \in 0 .. Len(Steps) /\ Ops \subseteq 0 .. MaxOps
              /\ {} \in SUBSET Ops
BY OpsAssumption, OfSteps DEF Ops

LEMMA Emptied ==
  ASSUME session \in Sessions
  PROVE  Closed \in Sessions /\ Ended \in Sessions
<1>1. Closed \in Sessions BY Zero DEF Closed, Sessions
<1> QED BY <1>1 DEF Ended, Sessions

LEMMA Asked ==
  ASSUME Types, call.op \in Ops, NEW kind \in Kinds
  PROVE  Request(kind) \in Requests
BY DEF Types, CallTyped, Calls, Request, Requests

\* What a request that is sent changes.
LEMMA Sent ==
  ASSUME Types, call.op \in Ops, NEW kind \in Kinds, Send(kind)
  PROVE  /\ asked' = Request(kind) /\ asked' \in Requests
         /\ wire' \in Seq(Requests) /\ answer' \in {"none", "closed"}
         /\ \/ wire' = wire
            \/ /\ Len(wire') = Len(wire) + 1 /\ wire'[Len(wire) + 1] = asked'
               /\ \A i \in 1 .. Len(wire) : wire'[i] = wire[i]
               /\ wire' # <<>> /\ answer' = "none"
<1>1. Request(kind) \in Requests BY Asked
<1>2. CASE driver = "ended"
  BY <1>1, <1>2 DEF Send, Types, LinkTyped
<1>3. CASE driver # "ended"
  <2>1. wire \in Seq(Requests) /\ wire' = Append(wire, Request(kind)) /\ asked' = Request(kind)
        /\ answer' = "none"
    BY <1>3 DEF Send, Types, LinkTyped
  <2> QED BY <1>1, <2>1, AppendProperties
<1> QED BY <1>2, <1>3

-----------------------------------------------------------------------------
(* The client's steps.                                                     *)

LEMMA ExecuteKeeps ==
  ASSUME Inv, NEW write \in BOOLEAN, Execute(write)
  PROVE  Inv'
<1>1. /\ call.at = "idle" /\ kept /\ Quiet /\ ~retired /\ packets = {}
      /\ call.op + 1 \in Ops /\ call.step = 0 /\ asked = NoRequest
  BY OpsAssumption DEF Execute, Inv, Types, CallTyped, Calls, Rest, Retirement, Ops
<1>2. UNCHANGED <<engine, writable, retired, asked, answer, wire, packets, durable, struck>>
  BY DEF Execute
<1>3. LinkTyped' /\ call' = [call EXCEPT !.op = call.op + 1, !.write = write, !.at = call'.at]
      /\ call'.at \in {"idle", "work"}
  <2>1. driver' \in {driver, "aborting"} BY DEF Execute, Abort
  <2>2. LinkTyped' BY <1>2, <2>1 DEF Inv, Types, LinkTyped
  <2> QED BY <1>1, <2>2 DEF Execute, Inv, Types, CallTyped, Calls
<1>4. CallTyped'
  BY <1>1, <1>3, Zero DEF Inv, Types, CallTyped, Calls, Places
<1>5. session' \in {session, Closed} /\ (kept' => session' = session)
  BY <1>1 DEF Execute, Abort
<1>6. ServerTyped'
  BY <1>2, <1>5, Emptied DEF Inv, Types, ServerTyped
<1>7. told' \in [Ops -> Told] /\ kept' \in BOOLEAN
  BY <1>1 DEF Execute, Abort, Inv, Types, ClientTyped, Told
<1>8. Quiet' /\ call'.step = 0 /\ (call'.at = "idle" => ~kept')
  <2>1. Quiet' BY <1>1, <1>2, <1>5 DEF Quiet, Closed
  <2>2. call'.step = 0 BY <1>1, <1>3 DEF Inv, Types, CallTyped, Calls
  <2>3. call'.at = "idle" => ~kept'
    BY <1>1, <1>3 DEF Execute, Abort, Inv, Types, CallTyped, Calls
  <2> QED BY <2>1, <2>2, <2>3
<1>9. engine = "sqlite" => driver' = driver
  BY DEF Execute, Abort, Inv, Unwired
<1> QED
  <2>1. Types' BY <1>2, <1>3, <1>4, <1>6, <1>7 DEF Inv, Types, ClientTyped
  <2>2. Unwired' /\ Rest' BY <1>1, <1>2, <1>3, <1>8, <1>9 DEF Inv, Unwired, Rest, Quiet
  <2>3. Retirement' BY <1>1, <1>2, <1>3, <1>8 DEF Retirement
  <2>4. OneOperation'
    BY <1>2, <1>8, Nothing DEF Inv, OneOperation, Quiet
  <2>5. InStep' /\ Settlement' /\ Waiting'
    BY <1>1, <1>2, <1>3, <1>8 DEF InStep, Settlement, Waiting, Settling, Quiet
  <2> QED BY <2>1, <2>2, <2>3, <2>4, <2>5 DEF Inv

LEMMA AdvanceKeeps ==
  ASSUME Inv, Advance
  PROVE  Inv'
<1>1. /\ engine = "postgres" /\ call.at = "work" /\ call.step \in 0 .. 3 /\ call.op \in Ops
      /\ call.step + 1 \in 1 .. 4 /\ call' = [call EXCEPT !.step = call.step + 1]
      /\ Send(Steps[call.step + 1])
      /\ UNCHANGED <<engine, writable, kept, retired, told, driver, session, packets, durable,
                     struck>>
  BY OfSteps DEF Advance, Working, server, Inv, Types, CallTyped, Calls
<1>2. wire = <<>> /\ session.running = 0 /\ (call.step = 0 => Quiet)
  BY <1>1 DEF Advance, Inv, InStep, Quiet
<1>3. Steps[call.step + 1] \in Kinds /\ Steps[call.step + 1] \notin Enders
  BY <1>1, OfSteps DEF Kinds, Enders
<1>4. /\ asked' = Request(Steps[call.step + 1]) /\ asked' \in Requests
      /\ wire' \in Seq(Requests) /\ answer' \in {"none", "closed"}
      /\ \/ wire' = <<>>
         \/ Len(wire') = 1 /\ wire'[1] = asked'
  BY <1>1, <1>2, <1>3, Sent, EmptySeq, LenProperties DEF Inv
<1>5. /\ call'.at = "work" /\ call'.op = call.op /\ call'.step = call.step + 1
      /\ call'.write = call.write
  BY <1>1 DEF Inv, Types, CallTyped, Calls
<1>6. CallTyped' BY <1>1, <1>5, OfSteps DEF Inv, Types, CallTyped, Calls
<1>7. Types' BY <1>1, <1>4, <1>6 DEF Inv, Types, ClientTyped, LinkTyped, ServerTyped, Answers
<1>8. Unwired' /\ Rest' /\ Retirement' /\ Settlement' /\ Waiting'
  BY <1>1, <1>5 DEF Inv, Unwired, Rest, Retirement, Settlement, Settling, Waiting
<1>9. asked'.kind \notin Enders /\ asked'.op = call.op /\ asked' = Request(Steps[call.step])'
  BY <1>3, <1>4, <1>5 DEF Request
<1>10. OneOperation'
  BY <1>1, <1>4, <1>5, <1>9, Nothing DEF Inv, OneOperation
<1>11. InStep' BY <1>1, <1>2, <1>4, <1>5, <1>9 DEF InStep, Request
<1> QED BY <1>7, <1>8, <1>10, <1>11 DEF Inv

\* The request that ends a transaction is sent behind what waits.
LEMMA EndingSent ==
  ASSUME Inv, call.at \in {"work", "cancel", "open"}, NEW at \in Settling,
         Send(IF at = "commit" THEN "commit" ELSE "rollback"),
         call'.at = at, call'.op = call.op, call'.write = call.write,
         UNCHANGED <<driver, session, struck>>
  PROVE  LinkTyped' /\ OneOperation' /\ Settlement'
<1> DEFINE kind == IF at = "commit" THEN "commit" ELSE "rollback"
<1>1. kind \in Kinds /\ kind \in Enders /\ call.op \in Ops /\ Types /\ Send(kind)
  BY DEF Inv, Types, CallTyped, Kinds, Enders
<1> HIDE DEF kind
<1>2. /\ asked' = Request(kind) /\ asked' \in Requests
      /\ wire' \in Seq(Requests) /\ answer' \in {"none", "closed"}
      /\ \/ wire' = wire
         \/ /\ Len(wire') = Len(wire) + 1 /\ wire'[Len(wire) + 1] = asked'
            /\ \A i \in 1 .. Len(wire) : wire'[i] = wire[i]
  BY <1>1, Sent
<1>3. LinkTyped' BY <1>1, <1>2 DEF Types, LinkTyped, Answers
<1>4. asked'.op = call'.op /\ Request(kind)' = asked' BY <1>2 DEF Request, kind
<1>5. Settlement' BY <1>2, <1>4 DEF Settlement, kind
<1>6. \A i \in 1 .. Len(wire) : wire[i].op = call.op /\ wire[i].kind \notin Enders
  BY DEF Inv, OneOperation, Settling
<1>7. ASSUME NEW i \in 1 .. Len(wire')
      PROVE  wire'[i].op = call'.op /\ (wire'[i].kind \in Enders => i = Len(wire'))
  <2>1. Len(wire) \in Nat BY <1>1, LenProperties DEF Types, LinkTyped
  <2>2. CASE i \in 1 .. Len(wire) /\ wire'[i] = wire[i] BY <1>6, <2>2
  <2>3. CASE i = Len(wire') /\ wire'[i] = asked' BY <1>4, <2>3
  <2> QED BY <1>2, <2>1, <2>2, <2>3
<1>8. OneOperation' BY <1>7 DEF Inv, OneOperation
<1> QED BY <1>3, <1>5, <1>8

\* What an answer to the caller changes.
LEMMA Returned ==
  ASSUME Types, call.at # "idle", NEW tells \in Told, NEW keep \in BOOLEAN, Return(tells, keep)
  PROVE  /\ told' \in [Ops -> Told] /\ CallTyped' /\ kept' = keep /\ session' \in Sessions
         /\ call'.op = call.op /\ call'.step = 0
         /\ call'.at = IF tells = "open" THEN "open" ELSE "idle"
         /\ driver' \in {driver, "aborting"} /\ (driver # "running" => driver' = driver)
         /\ session' = IF engine = "sqlite" /\ ~keep THEN Closed ELSE session
<1>1. told' \in [Ops -> Told] BY DEF Return, Types, ClientTyped
<1>2. /\ CallTyped' /\ call'.op = call.op /\ call'.step = 0
      /\ call'.at = IF tells = "open" THEN "open" ELSE "idle"
  BY Zero DEF Return, Types, CallTyped, Calls, Places, Outcomes
<1>3. /\ kept' = keep /\ driver' \in {driver, "aborting"}
      /\ driver # "running" => driver' = driver
      /\ session' = IF engine = "sqlite" /\ ~keep THEN Closed ELSE session
  BY DEF Return, Abort
<1>4. session' \in Sessions BY <1>3, Emptied DEF Types, ServerTyped
<1> QED BY <1>1, <1>2, <1>3, <1>4

LEMMA FinishedKeeps ==
  ASSUME Inv, Working, NEW outcome \in {"ok", "failed", "lost"}, Finished(outcome),
         outcome = "ok" => answer = "ok",
         UNCHANGED <<engine, writable, retired, packets, durable, struck>>
  PROVE  Inv'
<1>1. /\ engine = "postgres" /\ call.at = "work" /\ ~retired /\ packets = {} /\ Types
      /\ call.op \in Ops
  BY DEF Working, Inv, Retirement, Types, CallTyped
<1>2. CASE outcome = "ok" /\ call.write
  <2>1. asked' = NoRequest /\ answer' = "none" /\ wire' = wire /\ Return("open", TRUE)
    BY <1>2 DEF Finished, Forget
  <2>2. wire = <<>> /\ session.running = 0 BY <1>1, <1>2 DEF Inv, InStep
  <2>3. /\ told' \in [Ops -> Told] /\ CallTyped' /\ kept' = TRUE /\ session' \in Sessions
        /\ call'.op = call.op /\ call'.step = 0 /\ call'.at = "open"
        /\ driver' \in {driver, "aborting"} /\ session' = session
    BY <1>1, <2>1, Returned DEF Told
  <2>4. Types'
    BY <1>1, <2>1, <2>3 DEF Types, ClientTyped, LinkTyped, ServerTyped, Answers
  <2>5. Unwired' /\ Rest' /\ Retirement' /\ InStep' /\ Settlement' /\ Waiting'
    BY <1>1, <2>1, <2>2, <2>3
    DEF Unwired, Rest, Retirement, InStep, Settlement, Settling, Waiting
  <2>6. OneOperation' BY <1>1, <2>1, <2>2, <2>3, Nothing DEF Inv, OneOperation
  <2> QED BY <2>4, <2>5, <2>6 DEF Inv
<1>3. CASE ~(outcome = "ok" /\ call.write)
  <2>1. /\ call' = [call EXCEPT !.at = "clean", !.outcome = outcome] /\ Send("rollback")
        /\ UNCHANGED <<kept, told, driver, session>>
    BY <1>3 DEF Finished
  <2>2. CallTyped' /\ call'.at = "clean" /\ call'.op = call.op /\ call'.write = call.write
    BY <1>1, <2>1 DEF Types, CallTyped, Calls, Places, Outcomes
  <2>3. "clean" \in Settling BY DEF Settling
  <2>4. LinkTyped' /\ OneOperation' /\ Settlement'
    <3>1. Send(IF "clean" = "commit" THEN "commit" ELSE "rollback") BY <2>1
    <3> QED BY <1>1, <2>1, <2>2, <2>3, <3>1, EndingSent
  <2>5. Types' BY <1>1, <2>1, <2>2, <2>4 DEF Types, ClientTyped, ServerTyped
  <2>6. Unwired' /\ Rest' /\ Retirement' /\ InStep' /\ Waiting'
    BY <1>1, <2>2 DEF Unwired, Rest, Retirement, InStep, Waiting
  <2> QED BY <2>4, <2>5, <2>6 DEF Inv
<1> QED BY <1>2, <1>3

LEMMA AnsweredKeeps ==
  ASSUME Inv, Answered
  PROVE  Inv'
<1>1. PICK outcome \in {"ok", "failed", "lost"} :
        Finished(outcome) /\ (outcome = "ok" => answer = "ok")
  BY DEF Answered
<1> QED BY <1>1, FinishedKeeps DEF Answered

LEMMA CaptureFailsKeeps ==
  ASSUME Inv, CaptureFails
  PROVE  Inv'
BY FinishedKeeps DEF CaptureFails, Streaming

LEMMA RetireKeeps ==
  ASSUME Inv, Working, NEW outcome \in Outcomes, Retire(outcome)
  PROVE  Inv'
<1>1. /\ engine = "postgres" /\ call.at = "work" /\ call.op \in Ops /\ Types /\ packets = {}
      /\ call' = [call EXCEPT !.at = "cancel", !.outcome = outcome] /\ retired' = TRUE
      /\ asked' = NoRequest /\ answer' = "none"
      /\ UNCHANGED <<wire, engine, writable, kept, told, driver, session, packets, durable, struck>>
  BY DEF Working, Retire, Forget, server, Inv, Types, CallTyped, Retirement
<1>2. CallTyped' /\ call'.at = "cancel" /\ call'.op = call.op
  BY <1>1 DEF Types, CallTyped, Calls, Places
<1>3. Types' BY <1>1, <1>2 DEF Types, ClientTyped, LinkTyped, ServerTyped, Answers
<1>4. Unwired' /\ Rest' /\ Retirement' /\ InStep' /\ Settlement' /\ Waiting'
  BY <1>1, <1>2 DEF Unwired, Rest, Retirement, InStep, Settlement, Settling, Waiting
<1>5. OneOperation' BY <1>1, <1>2 DEF Inv, OneOperation, Settling
<1> QED BY <1>3, <1>4, <1>5 DEF Inv

LEMMA SendCancelKeeps ==
  ASSUME Inv, SendCancel
  PROVE  Inv'
<1>1. /\ call.at = "cancel" /\ call.op \in Ops /\ Types /\ retired
      /\ packets' \in {packets, packets \cup {call.op}} /\ packets \subseteq {call.op}
      /\ call' = [call EXCEPT !.at = "undo"] /\ Send("rollback")
      /\ UNCHANGED <<engine, writable, kept, retired, told, driver, session, durable, struck>>
  BY DEF SendCancel, Inv, Types, CallTyped, Retirement
<1>2. CallTyped' /\ call'.at = "undo" /\ call'.op = call.op /\ call'.write = call.write
  BY <1>1 DEF Types, CallTyped, Calls, Places
<1>3. engine # "sqlite" BY <1>1 DEF Inv, Unwired
<1>4. LinkTyped' /\ OneOperation' /\ Settlement'
  <2>1. "undo" \in Settling BY DEF Settling
  <2>2. Send(IF "undo" = "commit" THEN "commit" ELSE "rollback") BY <1>1
  <2> QED BY <1>1, <1>2, <2>1, <2>2, EndingSent
<1>5. Types' BY <1>1, <1>2, <1>4 DEF Types, ClientTyped, ServerTyped
<1>6. Unwired' /\ Rest' /\ Retirement' /\ InStep' /\ Waiting'
  BY <1>1, <1>2, <1>3 DEF Unwired, Rest, Retirement, InStep, Waiting
<1> QED BY <1>4, <1>5, <1>6 DEF Inv

LEMMA SettleKeeps ==
  ASSUME Inv, NEW commit \in BOOLEAN, Settle(commit)
  PROVE  Inv'
<1> DEFINE at == IF commit THEN "commit" ELSE "rollback"
<1>1. /\ engine = "postgres" /\ call.at = "open" /\ call.op \in Ops /\ Types
      /\ ~retired /\ packets = {}
      /\ call' = [call EXCEPT !.at = at] /\ Send(at) /\ at \in Settling
      /\ Send(IF at = "commit" THEN "commit" ELSE "rollback")
      /\ UNCHANGED <<engine, writable, kept, retired, told, driver, session, packets, durable,
                     struck>>
  BY DEF Settle, server, Inv, Types, CallTyped, Retirement, Settling
<1>2. CallTyped' /\ call'.at = at /\ call'.op = call.op /\ call'.write = call.write
  BY <1>1 DEF Types, CallTyped, Calls, Places
<1>3. LinkTyped' /\ OneOperation' /\ Settlement' BY <1>1, <1>2, EndingSent
<1>4. Types' BY <1>1, <1>2, <1>3 DEF Types, ClientTyped, ServerTyped
<1>5. Unwired' /\ Rest' /\ Retirement' /\ InStep' /\ Waiting'
  BY <1>1, <1>2 DEF Unwired, Rest, Retirement, InStep, Waiting
<1> QED BY <1>3, <1>4, <1>5 DEF Inv

LEMMA SettledKeeps ==
  ASSUME Inv, Settled
  PROVE  Inv'
<1>1. PICK response \in IF answer = "none" THEN {"late"} ELSE {answer} :
        Return(Verdict(response), Succeeded(response))
  BY DEF Settled
<1>2. /\ call.at \in Settling /\ engine = "postgres" /\ Types
      /\ asked' = NoRequest /\ answer' = "none" /\ wire' = wire
      /\ UNCHANGED <<engine, writable, retired, packets, durable, struck>>
  BY DEF Settled, Forget, Settling, Inv
<1>3. /\ Verdict(response) \in {"read", "unknown", "committed", "undone"}
      /\ Succeeded(response) \in BOOLEAN
  BY DEF Verdict, Succeeded
<1>4. /\ told' \in [Ops -> Told] /\ CallTyped' /\ kept' = Succeeded(response)
      /\ call'.op = call.op /\ call'.step = 0 /\ call'.at = "idle"
      /\ driver' \in {driver, "aborting"} /\ session' = session
  BY <1>1, <1>2, <1>3, Returned DEF Told, Settling
<1>5. kept' => answer = "ok" /\ Quiet /\ ~retired
  BY <1>1, <1>2, <1>4 DEF Succeeded, Usable, Settling, Inv, Settlement, Retirement
<1>6. Types'
  BY <1>2, <1>3, <1>4 DEF Types, ClientTyped, LinkTyped, ServerTyped, Answers
<1>7. Unwired' /\ InStep' /\ Settlement' /\ Waiting'
  BY <1>2, <1>4 DEF Unwired, InStep, Settlement, Settling, Waiting
<1>8. Rest' /\ Retirement' BY <1>2, <1>4, <1>5 DEF Inv, Rest, Retirement, Quiet
<1>9. OneOperation' BY <1>2, <1>4 DEF Inv, OneOperation, Settling
<1> QED BY <1>6, <1>7, <1>8, <1>9 DEF Inv

-----------------------------------------------------------------------------
(* The driver's, the session's and the network's steps.                    *)

\* The next request is the caller's, and the session runs nothing.
LEMMA ServeKeeps ==
  ASSUME Inv, Serve
  PROVE  Inv'
<1> DEFINE r == Head(wire)
<1>1. /\ wire \in Seq(Requests) /\ wire # <<>> /\ session.running = 0 /\ wire' = Tail(wire)
      /\ call.op \in 0 .. MaxOps /\ session \in Sessions /\ Types
      /\ UNCHANGED <<engine, writable, call, kept, retired, told, driver, asked, packets, struck>>
  BY DEF Serve, client, Inv, Types, LinkTyped, ServerTyped, CallTyped, Calls
<1>2. /\ wire' \in Seq(Requests) /\ Len(wire') = Len(wire) - 1 /\ Len(wire) \in Nat
      /\ \A i \in 1 .. Len(wire) - 1 : wire'[i] = wire[i + 1]
      /\ r = wire[1] /\ r \in Requests /\ 1 \in 1 .. Len(wire)
  BY <1>1, Tailed
<1>3. r.op = call.op /\ (r.kind \in Enders => Len(wire) = 1 /\ call.at \in Settling \cup {"idle"})
  BY <1>2 DEF Inv, OneOperation
<1>4. /\ session' \in Sessions /\ session'.running \in {0, r.op}
      /\ session'.running # 0 => r.kind = "query" /\ answer' \in {answer, "error"}
      /\ r.kind \in Enders => session'.tx = 0 /\ session'.running = 0
      /\ answer' \in Answers /\ (answer' # answer => asked = r)
      /\ durable' \in SUBSET Ops
  <2>1. r.op \in 0 .. MaxOps /\ r.write \in BOOLEAN /\ Ended \in Sessions
        /\ answer \in Answers /\ durable \in SUBSET Ops /\ session.effects \in SUBSET Ops
    BY <1>1, <1>2, Zero, Emptied DEF Requests, Types, LinkTyped, ServerTyped, Sessions
  <2>2. CASE ServeBegin(r)
    BY <1>1, <2>1, <2>2 DEF ServeBegin, Respond, Answers, Enders, Sessions
  <2>3. CASE ServeSetting(r)
    BY <1>1, <2>1, <2>3 DEF ServeSetting, Respond, Answers, Enders, Sessions
  <2>4. CASE ServeQuery(r)
    BY <1>1, <2>1, <2>4 DEF ServeQuery, Respond, Answers, Enders, Sessions
  <2>5. CASE ServeRollback(r)
    BY <1>1, <2>1, <2>5 DEF ServeRollback, Respond, Answers, Ended, Closed
  <2>6. CASE ServeCommit(r)
    BY <1>1, <2>1, <2>6 DEF ServeCommit, Respond, Answers, Ended, Closed
  <2> QED BY <2>2, <2>3, <2>4, <2>5, <2>6 DEF Serve
<1>5. Types'
  BY <1>1, <1>2, <1>4 DEF Types, ClientTyped, CallTyped, LinkTyped, ServerTyped
<1>6. Unwired' /\ Rest' /\ Retirement' /\ Waiting'
  BY <1>1 DEF Inv, Unwired, Rest, Quiet, Retirement, Waiting
<1>7. OneOperation'
  <2>1. ASSUME NEW i \in 1 .. Len(wire')
        PROVE  /\ wire'[i].op = call.op
               /\ wire'[i].kind \in Enders => i = Len(wire') /\ call.at \in Settling \cup {"idle"}
    <3>1. i + 1 \in 1 .. Len(wire) /\ wire'[i] = wire[i + 1] BY <1>2
    <3> QED BY <1>2, <3>1 DEF Inv, OneOperation
  <2> QED BY <1>1, <1>3, <1>4, <2>1 DEF Inv, OneOperation
<1>8. InStep'
  <2>1. SUFFICES ASSUME engine = "postgres", call.at = "work" PROVE InStep'
    BY <1>1 DEF InStep
  <2>2. Len(wire) = 1 /\ asked = wire[1] /\ answer # "ok" /\ call.step # 0
    BY <1>1, <2>1 DEF Inv, InStep, Quiet
  <2>3. wire' = <<>> BY <1>2, <2>2, EmptySeq
  <2>4. Request(Steps[call.step])' = Request(Steps[call.step]) BY <1>1 DEF Request
  <2> QED BY <1>1, <1>4, <2>1, <2>2, <2>3, <2>4 DEF Inv, InStep
<1>9. Settlement'
  <2>1. SUFFICES ASSUME call.at \in Settling PROVE Settlement'
    BY <1>1 DEF Settlement
  <2>2. asked.kind \in Enders /\ answer # "ok"
    BY <1>1, <2>1 DEF Inv, Settlement, Quiet, Request, Enders
  <2>3. answer' = "ok" => Quiet'
    <3>1. SUFFICES ASSUME answer' = "ok" PROVE Quiet' OBVIOUS
    <3>2. r.kind \in Enders /\ Len(wire) = 1 BY <1>3, <1>4, <2>2, <3>1
    <3>3. wire' = <<>> BY <1>2, <3>2, EmptySeq
    <3> QED BY <1>4, <3>2, <3>3 DEF Quiet
  <2> QED BY <1>1, <2>1, <2>3 DEF Inv, Settlement, Request
<1> QED BY <1>5, <1>6, <1>7, <1>8, <1>9 DEF Inv

\* A statement is over; its response is one to a query.
LEMMA StatementOver ==
  ASSUME Inv, session.running # 0, session' \in Sessions, session'.running = 0,
         answer' \in Answers, asked.kind # "query" => answer' = answer,
         UNCHANGED <<engine, writable, call, kept, retired, told, driver, asked, wire>>,
         packets' \subseteq packets, durable' \in SUBSET Ops, struck' = {}
  PROVE  Inv'
<1>1. Types'
  BY DEF Inv, Types, ClientTyped, CallTyped, LinkTyped, ServerTyped
<1>2. Unwired' /\ Rest' /\ Retirement' /\ Waiting'
  BY DEF Inv, Unwired, Rest, Quiet, Retirement, Waiting
<1>3. OneOperation' BY DEF Inv, OneOperation
<1>4. InStep'
  <2>1. Request(Steps[call.step])' = Request(Steps[call.step]) BY DEF Request
  <2> QED BY <2>1 DEF Inv, InStep, Quiet
<1>5. Settlement'
  <2>1. SUFFICES ASSUME call.at \in Settling PROVE Settlement' BY DEF Settlement
  <2>2. asked.kind # "query" /\ answer # "ok"
    BY <2>1 DEF Inv, Settlement, Quiet, Request
  <2> QED BY <2>1, <2>2 DEF Inv, Settlement, Request
<1> QED BY <1>1, <1>2, <1>3, <1>4, <1>5 DEF Inv

LEMMA StatementEndsKeeps ==
  ASSUME Inv, StatementEnds
  PROVE  Inv'
<1>1. /\ session.running # 0 /\ session \in Sessions /\ session.running \in Ops
      /\ answer \in Answers /\ durable \in SUBSET Ops /\ struck = {}
      /\ UNCHANGED <<engine, writable, call, kept, retired, told, driver, asked, wire, packets,
                     struck>>
  BY DEF StatementEnds, client, Inv, Types, LinkTyped, ServerTyped, OneOperation, Sessions, Ops
<1>2. CASE StatementFails /\ UNCHANGED durable
  <2>1. session' \in Sessions /\ session'.running = 0 /\ answer' \in {answer, "error"}
        /\ (asked.kind # "query" => answer' = answer)
    BY <1>1, <1>2, Zero DEF StatementFails, Sessions
  <2> QED BY <1>1, <1>2, <2>1, StatementOver DEF Answers
<1>3. CASE ~(StatementFails /\ UNCHANGED durable)
  <2> DEFINE effects == IF session.write THEN session.effects \cup {session.running}
                        ELSE session.effects
  <2>1. effects \in SUBSET Ops BY <1>1 DEF Sessions
  <2>2. session' = [session EXCEPT !.running = 0, !.effects = effects]
    BY <1>3 DEF StatementEnds
  <2>3. session' \in Sessions /\ session'.running = 0
    <3> HIDE DEF effects
    <3> QED BY <1>1, <2>1, <2>2, Zero DEF Sessions
  <2>4. session' \in Sessions /\ session'.running = 0 /\ answer' \in {answer, "ok"}
        /\ (asked.kind # "query" => answer' = answer) /\ durable' \in SUBSET Ops
    BY <1>1, <1>3, <2>3 DEF StatementEnds
  <2> QED BY <1>1, <2>4, StatementOver DEF Answers
<1> QED BY <1>2, <1>3

\* A packet is about the operation that the session runs, if it runs any.
LEMMA PacketArrivesKeeps ==
  ASSUME Inv, NEW op \in Ops, PacketArrives(op)
  PROVE  Inv'
<1>1. /\ op = call.op /\ session.running \in {0, op} /\ struck = {} /\ session \in Sessions
      /\ answer \in Answers /\ durable \in SUBSET Ops /\ packets' \subseteq packets
      /\ UNCHANGED <<engine, writable, call, kept, retired, told, driver, asked, wire, durable>>
  BY DEF PacketArrives, client, Inv, Types, LinkTyped, ServerTyped, Retirement, OneOperation
<1>2. CASE session.running = 0
  <2>1. UNCHANGED <<session, answer, struck>> BY <1>2 DEF PacketArrives
  <2>2. Types'
    BY <1>1, <2>1 DEF Inv, Types, ClientTyped, CallTyped, LinkTyped, ServerTyped
  <2>3. Unwired' /\ Rest' /\ Retirement' /\ OneOperation' /\ Waiting'
    BY <1>1, <2>1 DEF Inv, Unwired, Rest, Quiet, Retirement, OneOperation, Waiting
  <2>4. InStep' /\ Settlement'
    BY <1>1, <2>1 DEF Inv, InStep, Settlement, Quiet, Request
  <2> QED BY <2>2, <2>3, <2>4 DEF Inv
<1>3. CASE session.running # 0
  <2>1. session' \in Sessions /\ session'.running = 0 /\ answer' \in {answer, "error"}
        /\ (asked.kind # "query" => answer' = answer) /\ struck' = {}
    BY <1>1, <1>3, Zero DEF PacketArrives, StatementFails, Sessions
  <2> QED BY <1>1, <1>3, <2>1, StatementOver DEF Answers
<1> QED BY <1>2, <1>3

LEMMA DriverEndsKeeps ==
  ASSUME Inv, DriverEnds
  PROVE  Inv'
<1>1. /\ engine = "postgres" /\ driver' = "ended" /\ wire \in Seq(Requests)
      /\ answer' \in Answers /\ (answer' = "ok" => answer = "ok")
      /\ UNCHANGED <<engine, writable, call, kept, retired, told, asked, session, packets, durable,
                     struck>>
  BY DEF DriverEnds, client, server, Inv, Types, LinkTyped, Answers
<1>2. PICK n \in 0 .. Len(wire) : wire' = SubSeq(wire, 1, n) BY DEF DriverEnds
<1>3. /\ wire' \in Seq(Requests) /\ Len(wire') = n /\ Len(wire) \in Nat
      /\ \A i \in 1 .. n : wire'[i] = wire[i]
  BY <1>1, <1>2, Cut, LenProperties
<1>4. wire = <<>> => wire' = <<>>
  BY <1>1, <1>2, <1>3, EmptySeq
<1>5. Types' BY <1>1, <1>3 DEF Inv, Types, ClientTyped, CallTyped, LinkTyped, ServerTyped
<1>6. Unwired' /\ Rest' /\ Retirement' /\ Waiting'
  BY <1>1, <1>4 DEF Inv, Unwired, Rest, Quiet, Retirement, Waiting
<1>7. OneOperation' BY <1>1, <1>2, <1>3 DEF Inv, OneOperation
<1>8. Settlement' BY <1>1, <1>4 DEF Inv, Settlement, Quiet, Request
<1>9. InStep'
  <2>1. SUFFICES ASSUME engine = "postgres", call.at = "work" PROVE InStep'
    BY <1>1 DEF InStep
  <2>2. wire' # <<>> => wire # <<>> /\ Len(wire') = 1 /\ wire'[1] = wire[1]
    <3>1. wire' # <<>> => n # 0 BY <1>3, EmptySeq
    <3>2. wire' # <<>> => wire # <<>> /\ Len(wire) = 1
      BY <1>4, <2>1 DEF Inv, InStep
    <3>3. SUFFICES ASSUME wire' # <<>> PROVE wire # <<>> /\ n = 1 /\ wire'[1] = wire[1]
      BY <1>3
    <3>4. n \in 0 .. 1 /\ n # 0 BY <3>1, <3>2, <3>3
    <3>5. n = 1 BY <3>4
    <3> QED BY <1>3, <3>2, <3>3, <3>5
  <2>3. Request(Steps[call.step])' = Request(Steps[call.step]) BY <1>1 DEF Request
  <2> QED BY <1>1, <1>4, <2>1, <2>2, <2>3 DEF Inv, InStep, Quiet
<1> QED BY <1>5, <1>6, <1>7, <1>8, <1>9 DEF Inv

\* The session is gone, with all that waited for it.
LEMMA SessionOver ==
  ASSUME Inv, engine = "postgres", session' = Closed, wire' = <<>>,
         driver' \in {"running", "aborting", "ended"},
         answer' \in Answers, answer' = "ok" => answer = "ok",
         UNCHANGED <<engine, writable, call, kept, retired, told, asked, packets, durable, struck>>
  PROVE  Inv'
<1>1. session \in Sessions /\ Types /\ session'.tx = 0 /\ session'.running = 0 /\ Quiet'
  BY DEF Inv, Types, ServerTyped, Closed, Quiet
<1>2. Types'
  BY <1>1, Emptied, Nothing DEF Types, ClientTyped, CallTyped, LinkTyped, ServerTyped
<1>3. Unwired' /\ Rest' /\ Retirement' /\ Waiting'
  BY <1>1 DEF Inv, Unwired, Rest, Retirement, Waiting
<1>4. OneOperation' BY <1>1, Nothing DEF Inv, OneOperation
<1>5. InStep'
  <2>1. Request(Steps[call.step])' = Request(Steps[call.step]) BY DEF Request
  <2> QED BY <1>1, <2>1 DEF Inv, InStep
<1>6. Settlement' BY <1>1 DEF Inv, Settlement, Request
<1> QED BY <1>2, <1>3, <1>4, <1>5, <1>6 DEF Inv

LEMMA SessionEndsKeeps ==
  ASSUME Inv, SessionEnds
  PROVE  Inv'
<1>1. driver \in {"running", "aborting", "ended"} /\ answer \in Answers
  BY DEF Inv, Types, LinkTyped
<1> QED BY <1>1, SessionOver DEF SessionEnds, client, link

LEMMA SessionClosedKeeps ==
  ASSUME Inv, SessionClosed
  PROVE  Inv'
<1>1. answer' \in {answer, "closed"} /\ answer \in Answers
  BY DEF SessionClosed, Inv, Types, LinkTyped
<1> QED BY <1>1, SessionOver DEF SessionClosed, client, Answers

-----------------------------------------------------------------------------
(* SQLite's steps.                                                         *)

LEMMA SqliteKeeps ==
  ASSUME Inv, engine = "sqlite", SqliteFrame, driver' = driver, CallTyped',
         call'.op = call.op, call'.at \in {"idle", "work", "end", "open"},
         call'.at \in {"idle", "open"} => call'.step = 0,
         session' \in Sessions, session'.running = 0, kept' \in BOOLEAN,
         call'.at = "idle" /\ kept' => session'.tx = 0,
         told' \in [Ops -> Told], durable' \in SUBSET Ops
  PROVE  Inv'
<1>1. /\ wire = <<>> /\ session.running = 0 /\ packets = {} /\ ~retired
      /\ asked = NoRequest /\ driver = "ended" /\ struck = {} /\ Types
      /\ UNCHANGED <<engine, writable, retired, asked, answer, wire, packets, struck>>
  BY DEF SqliteFrame, Inv, Unwired, OneOperation
<1>2. Types' BY <1>1 DEF Types, ClientTyped, LinkTyped, ServerTyped
<1>3. Unwired' /\ Rest' /\ Retirement' /\ Waiting'
  BY <1>1 DEF Unwired, Rest, Quiet, Retirement, Waiting
<1>4. OneOperation' BY <1>1, Nothing DEF OneOperation
<1>5. InStep' /\ Settlement' BY <1>1 DEF InStep, Settlement, Settling
<1> QED BY <1>2, <1>3, <1>4, <1>5 DEF Inv

\* What the worker's lemmas know of the state before a step.
LEMMA Blocking ==
  ASSUME Inv, engine = "sqlite", call.at \in {"work", "end", "open"}
  PROVE  /\ call \in Calls /\ call.op \in Ops /\ session \in Sessions /\ Types
         /\ session.running = 0 /\ driver = "ended" /\ kept \in BOOLEAN
         /\ told \in [Ops -> Told] /\ durable \in SUBSET Ops
BY DEF Inv, Types, CallTyped, ServerTyped, ClientTyped, Unwired

LEMMA SqliteBeginKeeps ==
  ASSUME Inv, SqliteBegin
  PROVE  Inv'
<1>1. /\ engine = "sqlite" /\ call.at = "work" /\ SqliteFrame
      /\ UNCHANGED <<kept, told, driver, durable>>
      /\ call \in Calls /\ call.op \in Ops /\ session \in Sessions /\ session.running = 0
      /\ kept \in BOOLEAN /\ told \in [Ops -> Told] /\ durable \in SUBSET Ops
  BY Blocking DEF SqliteBegin
<1>2. CallTyped' /\ call'.op = call.op /\ call'.at \in {"work", "end"}
  <2>1. 1 \in 0 .. Len(Steps) BY OfSteps
  <2> QED BY <1>1, <2>1 DEF SqliteBegin, SqliteEnd, CallTyped, Calls, Places, Outcomes
<1>3. session' \in Sessions /\ session'.running = 0
  BY <1>1, Zero DEF SqliteBegin, Calls, Sessions
<1> QED BY <1>1, <1>2, <1>3, SqliteKeeps

LEMMA SqliteRunKeeps ==
  ASSUME Inv, SqliteRun
  PROVE  Inv'
<1>1. /\ engine = "sqlite" /\ call.at = "work" /\ SqliteFrame
      /\ UNCHANGED <<kept, told, driver, durable>>
      /\ call \in Calls /\ call.op \in Ops /\ session \in Sessions /\ session.running = 0
      /\ kept \in BOOLEAN /\ told \in [Ops -> Told] /\ durable \in SUBSET Ops
  BY Blocking DEF SqliteRun
<1>2. CallTyped' /\ call'.op = call.op /\ call'.at = "end"
  BY <1>1 DEF SqliteRun, SqliteEnd, CallTyped, Calls, Places, Outcomes
<1>3. session' \in {Ended, session, [session EXCEPT !.effects = {call.op}]}
  BY DEF SqliteRun
<1>4. session' \in Sessions /\ session'.running = 0
  <2>1. Ended \in Sessions /\ Ended.running = 0 BY <1>1, Emptied DEF Ended, Closed
  <2> QED BY <1>1, <1>3, <2>1 DEF Sessions
<1> QED BY <1>1, <1>2, <1>4, SqliteKeeps

LEMMA SqliteRestKeeps ==
  ASSUME Inv, SqliteRest
  PROVE  Inv'
<1>1. /\ engine = "sqlite" /\ call.at = "end" /\ SqliteFrame /\ UNCHANGED durable
      /\ call \in Calls /\ call.op \in Ops /\ session \in Sessions /\ session.running = 0
      /\ Types /\ driver = "ended" /\ told \in [Ops -> Told] /\ durable \in SUBSET Ops
  BY Blocking DEF SqliteRest
<1>2. CASE Return("open", TRUE)
  <2>1. /\ told' \in [Ops -> Told] /\ CallTyped' /\ kept' = TRUE
        /\ call'.op = call.op /\ call'.step = 0 /\ call'.at = "open"
        /\ driver' = driver /\ session' = session
    BY <1>1, <1>2, Returned DEF Told
  <2> QED BY <1>1, <2>1, SqliteKeeps
<1>3. CASE ~Return("open", TRUE)
  <2>1. /\ told' = [told EXCEPT ![call.op] = IF call.write THEN "undone" ELSE "read"]
        /\ call' = [call EXCEPT !.at = "idle", !.step = 0, !.outcome = "none"]
        /\ kept' \in BOOLEAN /\ driver' = driver /\ session' \in {Ended, Closed}
    BY <1>3 DEF SqliteRest
  <2>2. told' \in [Ops -> Told] BY <1>1, <2>1 DEF Told
  <2>3. CallTyped' /\ call'.op = call.op /\ call'.step = 0 /\ call'.at = "idle"
    BY <1>1, <2>1, Zero DEF CallTyped, Calls, Places, Outcomes
  <2>4. session' \in Sessions /\ session'.running = 0 /\ session'.tx = 0
    <3>1. session' \in Sessions BY <1>1, <2>1, Emptied
    <3> QED BY <2>1, <3>1 DEF Ended, Closed
  <2> QED BY <1>1, <2>1, <2>2, <2>3, <2>4, SqliteKeeps
<1> QED BY <1>2, <1>3

LEMMA SqliteStopsKeeps ==
  ASSUME Inv, SqliteStops
  PROVE  Inv'
<1>1. /\ engine = "sqlite" /\ call.at \in {"work", "end", "open"} /\ SqliteFrame
      /\ UNCHANGED durable /\ Return(IF call.write THEN "unknown" ELSE "read", FALSE)
      /\ Types /\ driver = "ended" /\ durable \in SUBSET Ops
  BY Blocking DEF SqliteStops
<1>2. (IF call.write THEN "unknown" ELSE "read") \in Told \ {"open"} BY DEF Told
<1>3. /\ told' \in [Ops -> Told] /\ CallTyped' /\ kept' = FALSE
      /\ call'.op = call.op /\ call'.step = 0 /\ call'.at = "idle"
      /\ driver' = driver /\ session' = Closed /\ session' \in Sessions
  BY <1>1, <1>2, Returned
<1> QED BY <1>1, <1>3, SqliteKeeps DEF Closed

LEMMA SqliteSettleKeeps ==
  ASSUME Inv, NEW commit \in BOOLEAN, SqliteSettle(commit)
  PROVE  Inv'
<1>1. /\ engine = "sqlite" /\ call.at = "open" /\ SqliteFrame /\ Types
      /\ call \in Calls /\ call.op \in Ops /\ session \in Sessions /\ session.running = 0
      /\ driver = "ended" /\ told \in [Ops -> Told] /\ durable \in SUBSET Ops /\ call.step = 0
      /\ kept \in BOOLEAN
  BY Blocking DEF SqliteSettle, Inv, Rest
<1>2. CASE Return("unknown", FALSE) /\ UNCHANGED durable
  <2>1. /\ told' \in [Ops -> Told] /\ CallTyped' /\ kept' = FALSE
        /\ call'.op = call.op /\ call'.step = 0 /\ call'.at = "idle"
        /\ driver' = driver /\ session' = Closed /\ session' \in Sessions
    BY <1>1, <1>2, Returned DEF Told
  <2> QED BY <1>1, <1>2, <2>1, SqliteKeeps DEF Closed
<1>3. CASE ~(Return("unknown", FALSE) /\ UNCHANGED durable)
  <2>1. /\ told' = [told EXCEPT ![call.op] = IF commit THEN "committed" ELSE "undone"]
        /\ call' = [call EXCEPT !.at = "idle"] /\ UNCHANGED <<kept, driver>>
        /\ durable' = durable \cup (IF commit THEN session.effects ELSE {})
        /\ session' = Ended
    BY <1>3 DEF SqliteSettle
  <2>2. told' \in [Ops -> Told] /\ durable' \in SUBSET Ops
    BY <1>1, <2>1 DEF Told, Sessions
  <2>3. CallTyped' /\ call'.op = call.op /\ call'.step = 0 /\ call'.at = "idle"
    BY <1>1, <2>1, Zero DEF CallTyped, Calls, Places
  <2>4. session' \in Sessions /\ session'.running = 0 /\ session'.tx = 0
    <3>1. session' \in Sessions BY <1>1, <2>1, Emptied
    <3> QED BY <2>1, <3>1 DEF Ended, Closed
  <2> QED BY <1>1, <2>1, <2>2, <2>3, <2>4, SqliteKeeps
<1> QED BY <1>2, <1>3

-----------------------------------------------------------------------------
(* The theorems.                                                           *)

LEMMA InitInv == Init => Inv
<1> SUFFICES ASSUME Init PROVE Inv OBVIOUS
<1>1. /\ ClientTyped /\ asked = NoRequest /\ answer = "none" /\ wire = <<>>
      /\ session = Fresh /\ packets = {} /\ durable = {} /\ struck = {} /\ ~retired
      /\ call.at = "idle" /\ call.op = 0 /\ call.step = 0
  BY DEF Init, ClientTyped, Told
<1>2. CallTyped BY Zero DEF Init, CallTyped, Calls, Places, Outcomes
<1>3. LinkTyped BY <1>1, Nothing DEF Init, LinkTyped, Answers
<1>4. ServerTyped BY <1>1, Zero DEF ServerTyped, Sessions, Fresh, Closed
<1>5. Quiet BY <1>1 DEF Quiet, Fresh, Closed
<1>6. Unwired BY <1>1, <1>5 DEF Init, Unwired, Quiet
<1>7. Rest /\ Retirement /\ InStep /\ Settlement /\ Waiting
  BY <1>1, <1>5 DEF Rest, Retirement, InStep, Settlement, Settling, Waiting
<1>8. OneOperation BY <1>1, <1>5, Nothing DEF OneOperation, Quiet
<1> QED BY <1>1, <1>2, <1>3, <1>4, <1>6, <1>7, <1>8 DEF Inv, Types

LEMMA NextInv == Inv /\ [Next]_vars => Inv'
<1> SUFFICES ASSUME Inv, [Next]_vars PROVE Inv' OBVIOUS
<1>1. CASE \E write \in BOOLEAN : Execute(write) BY <1>1, ExecuteKeeps
<1>2. CASE \E commit \in BOOLEAN : Settle(commit) \/ SqliteSettle(commit)
  BY <1>2, SettleKeeps, SqliteSettleKeeps
<1>3. CASE Client
  <2>1. Interrupted \/ Capped => Inv'
    BY RetireKeeps DEF Interrupted, Capped, Streaming, Outcomes
  <2> QED
    BY <1>3, <2>1, AdvanceKeeps, AnsweredKeeps, CaptureFailsKeeps, SendCancelKeeps, SettledKeeps
    DEF Client, Interrupted
<1>4. CASE Worker
  BY <1>4, SqliteBeginKeeps, SqliteRunKeeps, SqliteRestKeeps, SqliteStopsKeeps DEF Worker
<1>5. CASE Serve \/ StatementEnds \/ \E op \in Ops : PacketArrives(op)
  BY <1>5, ServeKeeps, StatementEndsKeeps, PacketArrivesKeeps
<1>6. CASE DriverEnds \/ SessionEnds \/ SessionClosed
  BY <1>6, DriverEndsKeeps, SessionEndsKeeps, SessionClosedKeeps
<1>7. CASE UNCHANGED vars
  <2>1. UNCHANGED <<engine, writable, call, kept, retired, told, driver, asked, answer, wire,
                    session, packets, durable, struck>>
    BY <1>7 DEF vars, client, link, server
  <2>2. Types'
    BY <2>1 DEF Inv, Types, ClientTyped, CallTyped, LinkTyped, ServerTyped
  <2>3. Unwired' /\ Rest' /\ Retirement' /\ OneOperation' /\ Waiting'
    BY <2>1 DEF Inv, Unwired, Rest, Quiet, Retirement, OneOperation, Waiting
  <2>4. InStep' /\ Settlement'
    BY <2>1 DEF Inv, InStep, Settlement, Quiet, Request
  <2> QED BY <2>2, <2>3, <2>4 DEF Inv
<1> QED BY <1>1, <1>2, <1>3, <1>4, <1>5, <1>6, <1>7 DEF Next

\* The inductive invariant.
THEOREM Inductive == Spec => []Inv
BY InitInv, NextInv, PTL DEF Spec

\* No operation meets what another one has left (execute_bound), for any number
\* of operations: a connection that takes the next one has no transaction,
\* statement or request left, and a cancel packet, however late it is, finds no
\* later operation, as a connection that has sent one takes no other.
THEOREM OperationsAreIsolated == Spec => []Isolated
<1>1. Inv => TypeOK
  BY DEF Inv, Types, ClientTyped, CallTyped, LinkTyped, ServerTyped, Answers, Requests, Calls,
         TypeOK
<1>2. Inv => NothingLeftOpen BY DEF Inv, Rest, Quiet, NothingLeftOpen
<1>3. Inv => OwnPacket BY DEF Inv, OneOperation, OwnPacket
<1>4. Inv => Isolated BY <1>1, <1>2, <1>3 DEF Isolated
<1> QED BY <1>4, Inductive, PTL

-----------------------------------------------------------------------------
(***************************************************************************)
(* For any number of operations on a connection: what the caller is told   *)
(* of an operation is true of the database, then and later.  A second      *)
(* invariant, on top of the first, follows the transaction:                *)
(* whose it is, what it has written, and which requests can still end it.  *)
(***************************************************************************)

\* What the session holds is the caller's operation's.
OwnTransaction ==
  /\ session.tx \in {0, call.op} /\ session.effects \subseteq {call.op}
  /\ session.tx = 0 => ~session.failed /\ session.effects = {}
  /\ session.tx # 0 => session.write = call.write
  /\ session.effects # {} => call.write
  /\ session.running # 0 => session.tx = call.op /\ ~session.failed

\* No query runs outside of a transaction, and a COMMIT that may still be
\* served is one whose outcome is open, or told to be unknown.
OwnRequests ==
  \A i \in 1 .. Len(wire) :
    /\ wire[i].write = call.write
    /\ wire[i].kind = "query" => session.tx = call.op
    /\ wire[i].kind = "commit" =>
         told[call.op] \in {"open", "unknown"} /\ call.at \in {"commit", "idle"}

\* Nothing reaches a session that is gone.
Alive ==
  /\ engine = "postgres" /\ ~session.open => driver = "ended" /\ wire = <<>>
  /\ engine = "sqlite" =>
       /\ ~session.failed
       /\ kept \/ call.at # "idle" => session.open

Written == session.effects = {call.op} /\ ~session.failed

\* The work of an operation is in its transaction.
InTransaction ==
  /\ engine = "postgres" /\ call.at = "work" /\ session.open =>
       /\ call.step > 1 \/ (call.step = 1 /\ answer = "ok") => session.tx = call.op
       /\ call.step = Len(Steps) /\ answer = "ok" /\ call.write => Written
  /\ engine = "sqlite" =>
       /\ call.at = "work" /\ call.step = 1 => session.tx = call.op
       /\ call.at = "end" /\ call.outcome # "failed" /\ call.write => Written

\* A write that waits for its settlement, and one whose COMMIT is under way.
Awaiting ==
  /\ call.at \in {"open", "commit", "rollback"} => told[call.op] = "open" /\ call.write
  /\ call.at = "open" /\ session.open => Written
  /\ call.at = "commit" =>
       /\ wire # <<>> => Len(wire) = 1 /\ Written /\ session.running = 0
       /\ answer = "ok" => call.op \in durable

\* Nothing counts before its COMMIT is sent.
NotYet ==
  /\ call.at \notin {"idle", "commit"} => call.op \notin durable
  /\ \A o \in Ops : o > call.op => o \notin durable

Truth ==
  \A o \in Ops :
    /\ told[o] = "committed" => o \in durable
    /\ told[o] \in {"read", "undone"} => o \notin durable

Inv2 == /\ OwnTransaction /\ OwnRequests /\ Alive /\ InTransaction /\ Awaiting /\ NotYet
        /\ Truth

-----------------------------------------------------------------------------
(* The client's steps.                                                     *)

\* What the lemmas know of the state before a step.
LEMMA Typed ==
  ASSUME Inv
  PROVE  /\ call \in Calls /\ session \in Sessions /\ told \in [Ops -> Told]
         /\ durable \in SUBSET Ops /\ wire \in Seq(Requests) /\ Types
         /\ call.at # "idle" => call.op \in Ops
BY DEF Inv, Types, CallTyped, ServerTyped, ClientTyped, LinkTyped

\* Numbers of operations.
LEMMA Numbers == /\ Ops \subseteq Nat /\ 0 \notin Ops /\ MaxOps \in Nat
                 /\ \A n \in 0 .. MaxOps : n \in Nat /\ (n # 0 => n \in Ops)
BY OpsAssumption DEF Ops

LEMMA ExecuteTells ==
  ASSUME Inv, Inv2, NEW write \in BOOLEAN, Execute(write)
  PROVE  Inv2'
<1> DEFINE op == call.op + 1
<1>1. /\ call.at = "idle" /\ kept /\ wire = <<>> /\ session.tx = 0 /\ session.running = 0
      /\ session.effects = {} /\ ~session.failed /\ session.open \in BOOLEAN
      /\ op \in Ops /\ call \in Calls /\ told \in [Ops -> Told]
      /\ UNCHANGED <<engine, wire, durable>>
  BY Typed, OpsAssumption
  DEF Execute, Inv, Rest, Quiet, Inv2, OwnTransaction, Ops, Calls, Sessions
<1>2. /\ call'.op = op /\ call'.at \in {"idle", "work"} /\ call'.step = call.step
      /\ session' \in {session, Closed} /\ (kept' => session' = session)
      /\ call'.at = "work" => session' = session
      /\ engine = "postgres" => session' = session
      /\ driver = "ended" => driver' = driver
  BY <1>1 DEF Execute, Abort, Calls
<1>3. /\ session'.tx = 0 /\ session'.running = 0 /\ session'.effects = {} /\ ~session'.failed
  BY <1>1, <1>2 DEF Closed
<1>4. op \notin durable /\ \A o \in Ops : o > op => o \notin durable
  <2>1. call.op \in Nat /\ \A o \in Ops : (o > call.op => o \notin durable)
    BY <1>1, Numbers DEF Inv2, NotYet, Calls
  <2>2. op > call.op /\ \A o \in Nat : (o > op => o > call.op) BY <2>1
  <2> QED BY <1>1, <2>1, <2>2, Numbers
<1>5. OwnTransaction' BY <1>2, <1>3 DEF OwnTransaction
<1>6. OwnRequests' BY <1>1, Nothing DEF OwnRequests
<1>7. Alive'
  <2>1. engine = "sqlite" => (kept' \/ call'.at # "idle" => session'.open)
    BY <1>1, <1>2 DEF Inv2, Alive
  <2>2. engine = "postgres" /\ ~session'.open => driver' = "ended"
    BY <1>1, <1>2 DEF Inv2, Alive
  <2> QED BY <1>1, <1>3, <2>1, <2>2 DEF Alive
<1>8. InTransaction'
  <2>1. call'.step = 0 BY <1>1, <1>2 DEF Inv, Rest
  <2> QED BY <1>2, <2>1, OfSteps DEF InTransaction
<1>9. Awaiting' BY <1>2 DEF Awaiting
<1>10. NotYet' BY <1>1, <1>2, <1>4 DEF NotYet
<1>11. Truth'
  <2>1. \/ told' = told
        \/ \E tells \in {"undone", "read"} : told' = [told EXCEPT ![op] = tells]
    BY DEF Execute
  <2> QED BY <1>1, <1>4, <2>1 DEF Inv2, Truth
<1> QED BY <1>5, <1>6, <1>7, <1>8, <1>9, <1>10, <1>11 DEF Inv2

LEMMA AdvanceTells ==
  ASSUME Inv, Inv2, Advance
  PROVE  Inv2'
<1>1. /\ engine = "postgres" /\ call.at = "work" /\ call.step \in 0 .. 3 /\ call.op \in Ops
      /\ call.step + 1 \in 1 .. 4 /\ call' = [call EXCEPT !.step = call.step + 1]
      /\ call \in Calls /\ (call.step = 0 \/ answer = "ok")
      /\ Send(Steps[call.step + 1])
      /\ UNCHANGED <<engine, kept, told, driver, session, durable>>
  BY OfSteps, Typed DEF Advance, Working, server, Calls
<1>2. wire = <<>> /\ Types BY <1>1, Typed DEF Inv, InStep, Quiet
<1>3. /\ call'.at = "work" /\ call'.op = call.op /\ call'.step = call.step + 1
      /\ call'.write = call.write
  BY <1>1 DEF Calls
<1>4. /\ Steps[call.step + 1] \in Kinds /\ Steps[call.step + 1] \notin Enders
      /\ (Steps[call.step + 1] = "query" => call.step = 3)
  BY <1>1 DEF Kinds, Enders, Steps
<1>5. /\ asked' = Request(Steps[call.step + 1]) /\ answer' \in {"none", "closed"}
      /\ wire' \in Seq(Requests)
      /\ \/ wire' = <<>>
         \/ Len(wire') = 1 /\ wire'[1] = asked'
  BY <1>1, <1>2, <1>4, Sent, EmptySeq, LenProperties
<1>6. driver = "ended" => wire' = <<>> BY <1>1, <1>2 DEF Send
<1>7. session.open /\ call.step # 0 => session.tx = call.op
  BY <1>1 DEF Inv2, InTransaction
<1>8. OwnTransaction' BY <1>1, <1>3 DEF Inv2, OwnTransaction
<1>9. OwnRequests'
  <2>1. CASE wire' = <<>> BY <2>1, Nothing DEF OwnRequests
  <2>2. CASE wire' # <<>>
    <3>1. session.open BY <1>1, <1>6, <2>2 DEF Inv2, Alive
    <3>2. /\ wire'[1].write = call.write /\ wire'[1].kind # "commit"
          /\ wire'[1].kind = "query" => session.tx = call.op
      BY <1>1, <1>4, <1>5, <1>7, <2>2, <3>1 DEF Request, Enders
    <3> QED BY <1>1, <1>3, <1>5, <2>2, <3>2 DEF OwnRequests
  <2> QED BY <2>1, <2>2
<1>10. Alive' BY <1>1, <1>2, <1>6 DEF Inv2, Alive
<1>11. InTransaction' BY <1>1, <1>3, <1>5, <1>7 DEF InTransaction
<1>12. Awaiting' BY <1>3 DEF Awaiting
<1>13. NotYet' /\ Truth' BY <1>1, <1>3 DEF Inv2, NotYet, Truth
<1> QED BY <1>8, <1>9, <1>10, <1>11, <1>12, <1>13 DEF Inv2

\* A request that ends the transaction is sent.
LEMMA EndingTells ==
  ASSUME Inv, Inv2, engine = "postgres", call.at \in {"work", "cancel", "open"},
         NEW at \in Settling,
         Send(IF at = "commit" THEN "commit" ELSE "rollback"),
         at \in {"commit", "rollback"} => call.at = "open",
         call'.at = at, call'.op = call.op, call'.write = call.write,
         UNCHANGED <<engine, kept, driver, session, durable, told>>
  PROVE  Inv2'
<1> DEFINE kind == IF at = "commit" THEN "commit" ELSE "rollback"
<1>1. kind \in Kinds /\ call.op \in Ops /\ Types /\ Send(kind) /\ wire \in Seq(Requests)
  BY Typed DEF Kinds
<1>2. (driver = "ended" => wire' = wire) /\ kind # "query" /\ (kind = "commit" => at = "commit")
      /\ Request(kind).kind = kind /\ Request(kind).write = call.write
  BY <1>1 DEF Send, Request
<1> HIDE DEF kind
<1>3. /\ asked' = Request(kind) /\ asked' \in Requests
      /\ wire' \in Seq(Requests) /\ answer' \in {"none", "closed"}
      /\ \/ wire' = wire
         \/ /\ Len(wire') = Len(wire) + 1 /\ wire'[Len(wire) + 1] = asked'
            /\ \A i \in 1 .. Len(wire) : wire'[i] = wire[i]
  BY <1>1, Sent
<1>4. OwnTransaction' BY DEF Inv2, OwnTransaction
<1>5. OwnRequests'
  <2>1. SUFFICES ASSUME NEW i \in 1 .. Len(wire')
        PROVE  /\ wire'[i].write = call.write
               /\ wire'[i].kind = "query" => session.tx = call.op
               /\ wire'[i].kind = "commit" =>
                    told[call.op] \in {"open", "unknown"} /\ at \in {"commit", "idle"}
    BY DEF OwnRequests
  <2>2. Len(wire) \in Nat BY <1>1, LenProperties
  <2>3. CASE i \in 1 .. Len(wire) /\ wire'[i] = wire[i] BY <2>3 DEF Inv2, OwnRequests
  <2>4. CASE wire'[i] = asked' BY <1>2, <1>3, <2>4 DEF Inv2, Awaiting
  <2> QED BY <1>3, <2>2, <2>3, <2>4
<1>6. Alive' BY <1>2 DEF Inv2, Alive, Settling
<1>7. InTransaction' BY DEF InTransaction, Settling
<1>8. Awaiting'
  <2>1. at = "commit" => answer' # "ok" /\ wire = <<>> /\ session.running = 0
    BY <1>3 DEF Inv, Waiting
  <2>2. at = "commit" /\ wire' # <<>> => Len(wire') = 1 /\ Written
    <3>1. SUFFICES ASSUME at = "commit", wire' # <<>> PROVE Len(wire') = 1 /\ Written
      OBVIOUS
    <3>2. driver # "ended" /\ Len(wire') = 1 BY <1>2, <1>3, <2>1, <3>1, EmptySeq
    <3> QED BY <3>1, <3>2 DEF Inv2, Alive, Awaiting
  <2> QED BY <2>1, <2>2 DEF Inv2, Awaiting, Settling, Written
<1>9. NotYet' /\ Truth' BY DEF Inv2, NotYet, Truth
<1> QED BY <1>4, <1>5, <1>6, <1>7, <1>8, <1>9 DEF Inv2

LEMMA FinishedTells ==
  ASSUME Inv, Inv2, Working, NEW outcome \in {"ok", "failed", "lost"}, Finished(outcome),
         outcome = "ok" => answer = "ok" /\ call.step = Len(Steps),
         UNCHANGED <<engine, writable, retired, packets, durable, struck>>
  PROVE  Inv2'
<1>1. engine = "postgres" /\ call.at = "work" /\ call \in Calls /\ call.op \in Ops /\ Types
      /\ told \in [Ops -> Told]
  BY Typed DEF Working
<1>2. CASE outcome = "ok" /\ call.write
  <2>1. /\ wire' = wire /\ wire = <<>> /\ Return("open", TRUE)
        /\ told' = [told EXCEPT ![call.op] = "open"]
        /\ call' = [call EXCEPT !.at = "open", !.step = 0, !.outcome = "none"]
    BY <1>1, <1>2 DEF Finished, Forget, Return, Inv, InStep
  <2>2. /\ call'.op = call.op /\ call'.at = "open" /\ call'.write /\ call'.write = call.write
        /\ session' = session /\ (driver # "running" => driver' = driver)
    BY <1>1, <1>2, <2>1 DEF Return, Abort, Calls
  <2>3. OwnTransaction' /\ NotYet' BY <1>1, <2>2 DEF Inv2, OwnTransaction, NotYet
  <2>4. OwnRequests' BY <2>1, Nothing DEF OwnRequests
  <2>5. Alive' /\ InTransaction' BY <1>1, <2>1, <2>2 DEF Inv2, Alive, InTransaction
  <2>6. told'[call.op] = "open" /\ Truth' BY <1>1, <2>1 DEF Inv2, Truth
  <2>7. session.open => Written BY <1>1, <1>2 DEF Inv2, InTransaction
  <2>8. Awaiting' BY <2>2, <2>6, <2>7 DEF Awaiting, Written
  <2> QED BY <2>3, <2>4, <2>5, <2>6, <2>8 DEF Inv2
<1>3. CASE ~(outcome = "ok" /\ call.write)
  <2>1. /\ call' = [call EXCEPT !.at = "clean", !.outcome = outcome] /\ Send("rollback")
        /\ UNCHANGED <<kept, told, driver, session>>
    BY <1>3 DEF Finished
  <2>2. /\ call'.at = "clean" /\ call'.op = call.op /\ call'.write = call.write
        /\ "clean" \in Settling /\ Send(IF "clean" = "commit" THEN "commit" ELSE "rollback")
    BY <1>1, <2>1 DEF Calls, Settling
  <2> QED BY <1>1, <2>1, <2>2, EndingTells
<1> QED BY <1>2, <1>3

LEMMA AnsweredTells ==
  ASSUME Inv, Inv2, Answered
  PROVE  Inv2'
<1>1. PICK outcome \in {"ok", "failed", "lost"} :
        /\ Finished(outcome)
        /\ outcome = "ok" => answer = "ok" /\ call.step = Len(Steps)
  BY DEF Answered
<1> QED BY <1>1, FinishedTells DEF Answered

LEMMA CaptureFailsTells ==
  ASSUME Inv, Inv2, CaptureFails
  PROVE  Inv2'
BY FinishedTells DEF CaptureFails, Streaming

LEMMA RetireTells ==
  ASSUME Inv, Inv2, Working, NEW outcome \in Outcomes, Retire(outcome)
  PROVE  Inv2'
<1>1. /\ call.at = "work" /\ call'.at = "cancel" /\ call'.op = call.op /\ call'.write = call.write
      /\ UNCHANGED <<engine, wire, kept, told, driver, session, durable>>
  BY Typed DEF Working, Retire, Forget, server, Calls
<1>2. OwnTransaction' /\ Alive' /\ InTransaction' /\ Awaiting' /\ NotYet' /\ Truth'
  BY <1>1 DEF Inv2, OwnTransaction, Alive, InTransaction, Awaiting, NotYet, Truth
<1>3. OwnRequests' BY <1>1 DEF Inv2, OwnRequests
<1> QED BY <1>2, <1>3 DEF Inv2

LEMMA SendCancelTells ==
  ASSUME Inv, Inv2, SendCancel
  PROVE  Inv2'
<1>1. /\ engine = "postgres" /\ call.at = "cancel"
      /\ call'.at = "undo" /\ call'.op = call.op /\ call'.write = call.write
      /\ "undo" \in Settling /\ Send(IF "undo" = "commit" THEN "commit" ELSE "rollback")
      /\ UNCHANGED <<engine, kept, driver, session, durable, told>>
  BY Typed DEF SendCancel, Calls, Settling, Inv, Unwired, Types, ClientTyped
<1> QED BY <1>1, EndingTells

LEMMA SettleTells ==
  ASSUME Inv, Inv2, NEW commit \in BOOLEAN, Settle(commit)
  PROVE  Inv2'
<1> DEFINE at == IF commit THEN "commit" ELSE "rollback"
<1>1. /\ engine = "postgres" /\ call.at = "open"
      /\ call'.at = at /\ call'.op = call.op /\ call'.write = call.write
      /\ at \in Settling /\ Send(IF at = "commit" THEN "commit" ELSE "rollback")
      /\ UNCHANGED <<engine, kept, driver, session, durable, told>>
  BY Typed DEF Settle, server, Calls, Settling
<1> QED BY <1>1, EndingTells

LEMMA SettledTells ==
  ASSUME Inv, Inv2, Settled
  PROVE  Inv2'
<1>1. PICK response \in IF answer = "none" THEN {"late"} ELSE {answer} :
        Return(Verdict(response), Succeeded(response))
  BY DEF Settled
<1>2. /\ call.at \in Settling /\ engine = "postgres" /\ wire' = wire
      /\ call \in Calls /\ call.op \in Ops /\ told \in [Ops -> Told]
      /\ UNCHANGED <<engine, durable>>
  BY Typed DEF Settled, Forget, Settling
<1>3. Verdict(response) \in {"read", "unknown", "committed", "undone"}
  BY DEF Verdict
<1>4. /\ told' = [told EXCEPT ![call.op] = Verdict(response)]
      /\ call'.op = call.op /\ call'.at = "idle" /\ call'.write = call.write
      /\ session' = session /\ (driver = "ended" => driver' = "ended")
  BY <1>1, <1>2, <1>3 DEF Return, Abort, Calls
<1>5. OwnTransaction' /\ Alive' /\ InTransaction' /\ Awaiting' /\ NotYet'
  BY <1>2, <1>4 DEF Inv2, OwnTransaction, Alive, InTransaction, Awaiting, NotYet
<1>6. response = "ok" => wire = <<>> BY <1>2 DEF Inv, Settlement, Quiet
<1>7. OwnRequests'
  <2>1. CASE wire = <<>> BY <1>2, <2>1, Nothing DEF OwnRequests
  <2>2. CASE call.at = "commit" /\ wire # <<>>
    <3>1. Verdict(response) = "unknown" /\ told'[call.op] = "unknown"
      BY <1>2, <1>4, <1>6, <2>2 DEF Verdict, Inv2, Awaiting
    <3> QED BY <1>2, <1>4, <3>1 DEF Inv2, OwnRequests
  <2>3. CASE call.at # "commit"
    <3>1. \A i \in 1 .. Len(wire) : wire[i].kind # "commit"
      BY <1>2, <2>3 DEF Inv2, OwnRequests, Settling
    <3> QED BY <1>2, <1>4, <3>1 DEF Inv2, OwnRequests
  <2> QED BY <2>1, <2>2, <2>3
<1>8. Truth'
  <2>1. Verdict(response) = "committed" => call.op \in durable
    BY <1>2 DEF Verdict, Inv2, Awaiting
  <2>2. Verdict(response) \in {"read", "undone"} => call.op \notin durable
    BY <1>2 DEF Verdict, Inv2, Awaiting, NotYet, Settling
  <2> QED BY <1>2, <1>4, <2>1, <2>2 DEF Inv2, Truth
<1> QED BY <1>5, <1>7, <1>8 DEF Inv2

-----------------------------------------------------------------------------
(* The driver's, the session's and the network's steps.                    *)

\* What serving one request does to the transaction.
LEMMA Served ==
  ASSUME Inv, Inv2, NEW r \in Requests, r = wire[1], wire # <<>>, session.running = 0,
         UNCHANGED call,
         ServeBegin(r) \/ ServeSetting(r) \/ ServeQuery(r) \/ ServeRollback(r) \/ ServeCommit(r)
  PROVE  /\ OwnTransaction' /\ session'.open = session.open
         /\ r.kind \notin Enders => session'.tx \in {session.tx, call.op} /\ durable' = durable
         /\ r.kind = "begin" => session'.tx = call.op
         /\ r.kind \in {"set", "prepare", "query"} => session'.tx = session.tx
         /\ r.kind # "commit" => durable' = durable
         /\ durable' \subseteq durable \cup {call.op}
         /\ answer' # answer => asked = r
         /\ r.kind = "query" => answer' # "ok" \/ answer' = answer
         /\ r.kind = "commit" /\ answer' = "ok" /\ asked = r /\ answer # "ok" /\ Written =>
              call.op \in durable'
<1>1. /\ session \in Sessions /\ call.op \in 0 .. MaxOps /\ 1 \in 1 .. Len(wire)
  BY Typed, Tailed DEF Calls
<1>2. r.op = call.op /\ r.write = call.write /\ (r.kind = "query" => session.tx = call.op)
  BY <1>1 DEF Inv, OneOperation, Inv2, OwnRequests
<1>3. /\ session.tx \in {0, call.op} /\ session.effects \subseteq {call.op}
      /\ session.tx = 0 => ~session.failed /\ session.effects = {}
      /\ session.tx # 0 => session.write = call.write
      /\ session.effects # {} => call.write
  BY DEF Inv2, OwnTransaction
<1>4. CASE ServeBegin(r)
  BY <1>1, <1>2, <1>3, <1>4 DEF ServeBegin, Respond, Enders, Sessions, OwnTransaction
<1>5. CASE ServeSetting(r)
  BY <1>1, <1>2, <1>3, <1>5 DEF ServeSetting, Respond, Enders, Sessions, OwnTransaction
<1>6. CASE ServeQuery(r)
  BY <1>1, <1>2, <1>3, <1>6 DEF ServeQuery, Respond, Enders, Sessions, OwnTransaction
<1>7. CASE ServeRollback(r)
  BY <1>1, <1>2, <1>3, <1>7 DEF ServeRollback, Respond, Ended, Closed, Enders, OwnTransaction
<1>8. CASE ServeCommit(r)
  BY <1>1, <1>2, <1>3, <1>8
  DEF ServeCommit, Respond, Ended, Closed, Enders, OwnTransaction, Written
<1> QED BY <1>4, <1>5, <1>6, <1>7, <1>8

LEMMA ServeTells ==
  ASSUME Inv, Inv2, Serve
  PROVE  Inv2'
<1> DEFINE r == Head(wire)
<1>1. /\ wire \in Seq(Requests) /\ wire # <<>> /\ session.running = 0 /\ wire' = Tail(wire)
      /\ session.open
      /\ UNCHANGED <<engine, writable, call, kept, retired, told, driver, asked, packets, struck>>
  BY Typed DEF Serve, client
<1>2. /\ wire' \in Seq(Requests) /\ Len(wire') = Len(wire) - 1 /\ Len(wire) \in Nat
      /\ \A i \in 1 .. Len(wire) - 1 : wire'[i] = wire[i + 1]
      /\ r = wire[1] /\ r \in Requests /\ 1 \in 1 .. Len(wire)
  BY <1>1, Tailed
<1>3. ServeBegin(r) \/ ServeSetting(r) \/ ServeQuery(r) \/ ServeRollback(r) \/ ServeCommit(r)
  BY DEF Serve
<1>4. /\ OwnTransaction' /\ session'.open
      /\ r.kind \notin Enders => session'.tx \in {session.tx, call.op} /\ durable' = durable
      /\ r.kind = "begin" => session'.tx = call.op
      /\ r.kind \in {"set", "prepare", "query"} => session'.tx = session.tx
      /\ r.kind # "commit" => durable' = durable
      /\ durable' \subseteq durable \cup {call.op} /\ (answer' # answer => asked = r)
      /\ r.kind = "query" => answer' # "ok" \/ answer' = answer
      /\ r.kind = "commit" /\ answer' = "ok" /\ asked = r /\ answer # "ok" /\ Written =>
           call.op \in durable'
  <2> HIDE DEF r
  <2> QED BY <1>1, <1>2, <1>3, Served
<1> HIDE DEF r
<1>5. engine = "postgres"
  BY <1>1 DEF Inv, Unwired, Types, ClientTyped
<1>6. /\ r.op = call.op /\ (r.kind \in Enders => Len(wire) = 1)
      /\ r.kind = "commit" =>
           told[call.op] \in {"open", "unknown"} /\ call.at \in {"commit", "idle"}
  BY <1>2 DEF Inv, OneOperation, Inv2, OwnRequests
<1>7. OwnRequests'
  <2>1. SUFFICES ASSUME NEW i \in 1 .. Len(wire')
        PROVE  /\ wire'[i].write = call.write
               /\ wire'[i].kind = "query" => session'.tx = call.op
               /\ wire'[i].kind = "commit" =>
                    told[call.op] \in {"open", "unknown"} /\ call.at \in {"commit", "idle"}
    BY <1>1 DEF OwnRequests
  <2>2. i + 1 \in 1 .. Len(wire) /\ wire'[i] = wire[i + 1] /\ Len(wire) # 1 BY <1>2
  <2>3. r.kind \notin Enders /\ session'.tx \in {session.tx, call.op} BY <1>4, <1>6, <2>2
  <2> QED BY <2>2, <2>3 DEF Inv2, OwnRequests
<1>8. Alive' BY <1>4, <1>5, <1>1 DEF Alive
<1>9. InTransaction'
  <2>1. SUFFICES ASSUME call.at = "work" PROVE InTransaction'
    BY <1>1, <1>5 DEF InTransaction
  <2>2. asked = r /\ answer # "ok" /\ call.step # 0
    BY <1>1, <1>2, <1>5, <2>1 DEF Inv, InStep, Quiet
  <2>3. call.step \in 1 .. 4 BY <2>2, Typed, OfSteps DEF Calls
  <2>4. r.kind = Steps[call.step]
    BY <1>5, <2>1, <2>2, <2>3 DEF Inv, InStep, Request
  <2>5. /\ r.kind \in {"begin", "set", "prepare", "query"} /\ (call.step = 1 => r.kind = "begin")
        /\ call.step = 4 => r.kind = "query"
        /\ call.step > 1 => r.kind \in {"set", "prepare", "query"}
    BY <2>3, <2>4 DEF Steps
  <2>6. call.step > 1 => session'.tx = call.op
    BY <1>1, <1>4, <1>5, <2>1, <2>5 DEF Inv2, InTransaction
  <2>7. call.step = 1 => session'.tx = call.op BY <1>4, <2>5
  <2>8. call.step = Len(Steps) => answer' # "ok" BY <1>4, <2>2, <2>5, OfSteps
  <2> QED BY <1>1, <1>5, <2>1, <2>6, <2>7, <2>8 DEF InTransaction
<1>10. Awaiting'
  <2>1. call.at # "open" BY <1>1 DEF Inv, Waiting
  <2>2. call.at = "commit" => wire' = <<>> /\ (answer' = "ok" => call.op \in durable')
    <3>1. SUFFICES ASSUME call.at = "commit"
          PROVE  wire' = <<>> /\ (answer' = "ok" => call.op \in durable')
      OBVIOUS
    <3>2. /\ Len(wire) = 1 /\ Written /\ asked.kind = "commit" /\ answer # "ok"
      BY <1>1, <3>1 DEF Inv2, Awaiting, Inv, Settlement, Settling, Quiet, Request
    <3>3. wire' = <<>> BY <1>2, <3>2, EmptySeq
    <3>4. answer' = "ok" => asked = r BY <1>4, <3>2
    <3> QED BY <1>4, <3>2, <3>3, <3>4
  <2> QED BY <1>1, <2>1, <2>2 DEF Inv2, Awaiting
<1>11. NotYet' /\ Truth'
  <2>1. CASE durable' = durable BY <1>1, <2>1 DEF Inv2, NotYet, Truth
  <2>2. CASE durable' # durable
    <3>1. /\ call.at \in {"commit", "idle"} /\ told[call.op] \in {"open", "unknown"}
      BY <1>4, <1>6, <2>2
    <3>2. \A o \in Ops : o # call.op => (o \in durable' => o \in durable) BY <1>4
    <3>3. durable \subseteq durable'
      BY <1>3 DEF ServeBegin, ServeSetting, ServeQuery, ServeRollback, ServeCommit
    <3>4. \A o \in Ops : o > call.op => o # call.op
      BY Numbers, Typed DEF Calls
    <3> QED BY <1>1, <3>1, <3>2, <3>3, <3>4 DEF Inv2, NotYet, Truth
  <2> QED BY <2>1, <2>2
<1> QED BY <1>4, <1>7, <1>8, <1>9, <1>10, <1>11 DEF Inv2

\* A statement is over, in its transaction.
LEMMA OverTells ==
  ASSUME Inv, Inv2, session.running # 0, session'.running = 0,
         session'.tx = session.tx, session'.write = session.write, session'.open = session.open,
         session'.effects \subseteq session.effects \cup {call.op},
         session'.effects # session.effects => session.write,
         asked.kind # "query" => answer' = answer,
         answer' = "ok" /\ answer # "ok" =>
           ~session'.failed /\ (session.write => call.op \in session'.effects),
         UNCHANGED <<engine, call, kept, told, driver, asked, wire, durable>>
  PROVE  Inv2'
<1>1. /\ engine = "postgres" /\ session.tx = call.op /\ call.op # 0 /\ session.write = call.write
      /\ session.effects \subseteq {call.op} /\ (session.effects # {} => call.write)
      /\ call \in Calls
  <2>1. session.running = call.op /\ call.op # 0 BY DEF Inv, OneOperation
  <2>2. engine = "postgres" BY DEF Inv, Unwired, Types, ClientTyped
  <2> QED BY <2>1, <2>2, Typed DEF Inv2, OwnTransaction
<1>2. OwnTransaction' BY <1>1 DEF OwnTransaction
<1>3. OwnRequests' BY DEF Inv2, OwnRequests
<1>4. Alive' BY <1>1 DEF Inv2, Alive
<1>5. InTransaction'
  <2>1. SUFFICES ASSUME call.at = "work" PROVE InTransaction'
    BY <1>1 DEF InTransaction
  <2>2. answer # "ok" /\ (call.write => session.write)
    BY <1>1, <2>1 DEF Inv, InStep
  <2>3. answer' = "ok" /\ call.write => Written' BY <1>1, <2>2 DEF Written
  <2> QED BY <1>1, <2>1, <2>3 DEF InTransaction
<1>6. Awaiting'
  <2>1. call.at # "open" BY DEF Inv, Waiting
  <2>2. call.at = "commit" => wire = <<>> /\ answer' = answer
    BY DEF Inv2, Awaiting, Inv, Settlement, Settling, Request
  <2> QED BY <2>1, <2>2 DEF Inv2, Awaiting
<1>7. NotYet' /\ Truth' BY DEF Inv2, NotYet, Truth
<1> QED BY <1>2, <1>3, <1>4, <1>5, <1>6, <1>7 DEF Inv2

LEMMA StatementEndsTells ==
  ASSUME Inv, Inv2, StatementEnds
  PROVE  Inv2'
<1>1. /\ session.running # 0 /\ session.running = call.op /\ session.tx # 0 /\ session \in Sessions
      /\ ~session.failed
      /\ UNCHANGED <<engine, call, kept, told, driver, asked, wire>>
  BY Typed DEF StatementEnds, client, Inv, OneOperation, Inv2, OwnTransaction
<1>2. CASE StatementFails /\ UNCHANGED durable
  <2>1. /\ session'.running = 0 /\ session'.tx = session.tx /\ session'.write = session.write
        /\ session'.open = session.open /\ session'.effects = session.effects
        /\ answer' \in {answer, "error"} /\ (asked.kind # "query" => answer' = answer)
    BY <1>1, <1>2 DEF StatementFails, Sessions
  <2> QED BY <1>1, <1>2, <2>1, OverTells
<1>3. CASE ~(StatementFails /\ UNCHANGED durable)
  <2>1. /\ session' = [session EXCEPT !.running = 0,
                        !.effects = IF session.write THEN session.effects \cup {session.running}
                                    ELSE session.effects]
        /\ durable' = durable
        /\ asked.kind # "query" => answer' = answer
    BY <1>1, <1>3 DEF StatementEnds
  <2>2. /\ session'.running = 0 /\ session'.tx = session.tx /\ session'.write = session.write
        /\ session'.open = session.open /\ ~session'.failed
        /\ session'.effects = IF session.write THEN session.effects \cup {call.op}
                              ELSE session.effects
    BY <1>1, <2>1 DEF Sessions
  <2> QED BY <1>1, <2>1, <2>2, OverTells
<1> QED BY <1>2, <1>3

LEMMA PacketArrivesTells ==
  ASSUME Inv, Inv2, NEW op \in Ops, PacketArrives(op)
  PROVE  Inv2'
<1>1. /\ session \in Sessions
      /\ UNCHANGED <<engine, call, kept, told, driver, asked, wire, durable>>
  BY Typed DEF PacketArrives, client
<1>2. CASE session.running = 0
  <2>1. session' = session /\ answer' = answer BY <1>2 DEF PacketArrives
  <2> QED
    BY <1>1, <2>1
    DEF Inv2, OwnTransaction, OwnRequests, Alive, InTransaction, Awaiting, Written, NotYet, Truth
<1>3. CASE session.running # 0
  <2>1. /\ session'.running = 0 /\ session'.tx = session.tx /\ session'.write = session.write
        /\ session'.open = session.open /\ session'.effects = session.effects
        /\ answer' \in {answer, "error"} /\ (asked.kind # "query" => answer' = answer)
    BY <1>1, <1>3 DEF PacketArrives, StatementFails, Sessions
  <2> QED BY <1>1, <1>3, <2>1, OverTells
<1> QED BY <1>2, <1>3

LEMMA DriverEndsTells ==
  ASSUME Inv, Inv2, DriverEnds
  PROVE  Inv2'
<1>1. /\ engine = "postgres" /\ driver' = "ended" /\ wire \in Seq(Requests)
      /\ (answer' = "ok" => answer = "ok")
      /\ UNCHANGED <<engine, call, kept, told, asked, session, durable>>
  BY Typed DEF DriverEnds, client, server
<1>2. PICK n \in 0 .. Len(wire) : wire' = SubSeq(wire, 1, n) BY DEF DriverEnds
<1>3. /\ wire' \in Seq(Requests) /\ Len(wire') = n /\ Len(wire) \in Nat
      /\ \A i \in 1 .. n : wire'[i] = wire[i] /\ i \in 1 .. Len(wire)
  BY <1>1, <1>2, Cut, LenProperties
<1>4. wire = <<>> => wire' = <<>>
  BY <1>1, <1>2, <1>3, EmptySeq
<1>5. OwnRequests' BY <1>1, <1>3 DEF Inv2, OwnRequests
<1>6. Alive' /\ InTransaction' /\ OwnTransaction'
  BY <1>1, <1>4 DEF Inv2, Alive, InTransaction, Written, OwnTransaction
<1>7. wire' # <<>> /\ Len(wire) = 1 => Len(wire') = 1
  <2>1. wire' # <<>> => n # 0 BY <1>3, EmptySeq
  <2>2. SUFFICES ASSUME wire' # <<>>, Len(wire) = 1 PROVE n = 1 BY <1>3
  <2>3. n \in 0 .. 1 /\ n # 0 BY <2>1, <2>2
  <2> QED BY <2>3
<1>8. Awaiting' BY <1>1, <1>4, <1>7 DEF Inv2, Awaiting, Written
<1>9. NotYet' /\ Truth' BY <1>1 DEF Inv2, NotYet, Truth
<1> QED BY <1>5, <1>6, <1>8, <1>9 DEF Inv2

LEMMA SessionOverTells ==
  ASSUME Inv, Inv2, engine = "postgres", session' = Closed, wire' = <<>>, driver' = "ended",
         answer' = "ok" => answer = "ok", UNCHANGED <<engine, call, kept, told, asked, durable>>
  PROVE  Inv2'
<1>1. OwnTransaction' BY DEF OwnTransaction, Closed
<1>2. OwnRequests' BY Nothing DEF OwnRequests
<1>3. Alive' /\ InTransaction' BY DEF Alive, InTransaction, Closed
<1>4. Awaiting' BY DEF Inv2, Awaiting, Closed
<1>5. NotYet' /\ Truth' BY DEF Inv2, NotYet, Truth
<1> QED BY <1>1, <1>2, <1>3, <1>4, <1>5 DEF Inv2

LEMMA SessionEndsTells ==
  ASSUME Inv, Inv2, SessionEnds
  PROVE  Inv2'
BY SessionOverTells DEF SessionEnds, client, link

LEMMA SessionClosedTells ==
  ASSUME Inv, Inv2, SessionClosed
  PROVE  Inv2'
BY SessionOverTells DEF SessionClosed, client

-----------------------------------------------------------------------------
(* SQLite's steps: nothing is on a wire.                                   *)

LEMMA SqliteBeginTells ==
  ASSUME Inv, Inv2, SqliteBegin
  PROVE  Inv2'
<1>1. /\ engine = "sqlite" /\ call.at = "work" /\ wire' = <<>> /\ session.open
      /\ session \in Sessions /\ call \in Calls /\ session.running = 0 /\ ~session.failed
      /\ UNCHANGED <<engine, kept, told, durable>>
  BY Typed DEF SqliteBegin, SqliteFrame, Inv, Unwired, Inv2, Alive
<1>2. CASE /\ session' = [session EXCEPT !.tx = call.op, !.write = call.write]
           /\ call' = [call EXCEPT !.step = 1]
  <2>1. /\ session'.tx = call.op /\ session'.write = call.write /\ session'.running = 0
        /\ session'.effects = session.effects /\ ~session'.failed /\ session'.open
        /\ call'.at = "work" /\ call'.op = call.op /\ call'.write = call.write
    BY <1>1, <1>2 DEF Sessions, Calls
  <2>2. OwnTransaction'
    <3>1. call.op # 0 BY <1>1, Typed, Numbers
    <3> QED BY <2>1, <3>1 DEF Inv2, OwnTransaction
  <2> QED
    BY <1>1, <2>1, <2>2, Nothing
    DEF Inv2, OwnRequests, Alive, InTransaction, Awaiting, NotYet, Truth
<1>3. CASE SqliteEnd("failed") /\ UNCHANGED session
  <2>1. /\ call'.at = "end" /\ call'.op = call.op /\ call'.write = call.write
        /\ call'.outcome = "failed"
    BY <1>1, <1>3 DEF SqliteEnd, Calls
  <2> QED
    BY <1>1, <1>3, <2>1, Nothing
    DEF Inv2, OwnTransaction, OwnRequests, Alive, InTransaction, Awaiting, NotYet, Truth
<1> QED BY <1>2, <1>3 DEF SqliteBegin

LEMMA SqliteRunTells ==
  ASSUME Inv, Inv2, SqliteRun
  PROVE  Inv2'
<1>1. /\ engine = "sqlite" /\ call.at = "work" /\ wire' = <<>> /\ session.open
      /\ session \in Sessions /\ call \in Calls /\ session.running = 0 /\ ~session.failed
      /\ session.tx = call.op /\ call.op # 0 /\ UNCHANGED <<engine, kept, told, durable>>
  BY Typed, Numbers DEF SqliteRun, SqliteFrame, Inv, Unwired, Inv2, Alive, InTransaction
<1>2. /\ call'.at = "end" /\ call'.op = call.op /\ call'.write = call.write
      /\ session'.open /\ ~session'.failed /\ session'.running = 0
      /\ session'.tx \in {0, call.op} /\ session'.effects \in {{}, {call.op}, session.effects}
      /\ session'.tx = 0 => session'.effects = {}
      /\ session'.tx # 0 => session'.write = session.write
      /\ session'.effects \notin {{}, session.effects} => call.write
      /\ call'.outcome # "failed" /\ call.write => session'.effects = {call.op}
  BY <1>1 DEF SqliteRun, SqliteEnd, Ended, Closed, Sessions, Calls
<1>3. OwnTransaction' BY <1>1, <1>2 DEF Inv2, OwnTransaction
<1>4. InTransaction' BY <1>1, <1>2 DEF InTransaction, Written
<1> QED
  BY <1>1, <1>2, <1>3, <1>4, Nothing DEF Inv2, OwnRequests, Alive, Awaiting, NotYet, Truth

\* An answer that ends SQLite's operation, and leaves no transaction.
LEMMA SqliteReturns ==
  ASSUME Inv, Inv2, engine = "sqlite", call.at # "idle", wire' = wire, UNCHANGED engine,
         NEW tells \in Told, told' = [told EXCEPT ![call.op] = tells],
         call'.at = "idle", call'.op = call.op, call'.write = call.write,
         session' = Ended \/ (session' = Closed /\ ~kept'),
         durable \subseteq durable', durable' \subseteq durable \cup {call.op},
         tells = "committed" => call.op \in durable',
         tells \in {"read", "undone"} => call.op \notin durable'
  PROVE  Inv2'
<1>1. /\ wire' = <<>> /\ session.open /\ call \in Calls /\ call.op \in Ops
      /\ told \in [Ops -> Told]
  BY Typed DEF Inv, Unwired, Inv2, Alive
<1>2. /\ session'.tx = 0 /\ session'.effects = {} /\ ~session'.failed /\ session'.running = 0
      /\ kept' => session'.open
  BY <1>1 DEF Ended, Closed
<1>3. OwnTransaction' /\ OwnRequests' /\ Alive' /\ InTransaction' /\ Awaiting'
  BY <1>1, <1>2, Nothing DEF OwnTransaction, OwnRequests, Alive, InTransaction, Awaiting
<1>4. NotYet'
  <2>1. \A o \in Ops : o > call.op => o # call.op BY <1>1, Numbers DEF Calls
  <2> QED BY <2>1 DEF Inv2, NotYet
<1>5. Truth' BY <1>1 DEF Inv2, Truth
<1> QED BY <1>3, <1>4, <1>5 DEF Inv2

LEMMA SqliteRestTells ==
  ASSUME Inv, Inv2, SqliteRest
  PROVE  Inv2'
<1>1. /\ engine = "sqlite" /\ call.at = "end" /\ wire' = <<>> /\ wire' = wire /\ session.open
      /\ call \in Calls /\ call.op \in Ops /\ told \in [Ops -> Told]
      /\ call.op \notin durable /\ UNCHANGED <<engine, durable>>
  BY Typed DEF SqliteRest, SqliteFrame, Inv, Unwired, Inv2, Alive, NotYet
<1>2. CASE call.outcome # "failed" /\ call.write
  <2>1. /\ call'.at = "open" /\ call'.op = call.op /\ call'.write /\ call'.write = call.write
        /\ session' = session /\ told' = [told EXCEPT ![call.op] = "open"]
    BY <1>1, <1>2 DEF SqliteRest, Return, Abort, Calls
  <2>2. OwnTransaction' /\ OwnRequests' /\ Alive' /\ InTransaction' /\ NotYet'
    BY <1>1, <2>1, Nothing
    DEF Inv2, OwnTransaction, OwnRequests, Alive, InTransaction, NotYet
  <2>3. Awaiting' /\ Truth'
    BY <1>1, <1>2, <2>1 DEF Inv2, InTransaction, Awaiting, Written, Truth
  <2> QED BY <2>2, <2>3 DEF Inv2
<1>3. CASE ~(call.outcome # "failed" /\ call.write)
  <2> DEFINE tells == IF call.write THEN "undone" ELSE "read"
  <2>1. /\ told' = [told EXCEPT ![call.op] = tells]
        /\ call' = [call EXCEPT !.at = "idle", !.step = 0, !.outcome = "none"]
        /\ kept' = (call.outcome # "failed")
        /\ session' = IF call.outcome # "failed" THEN Ended ELSE Closed
    BY <1>3 DEF SqliteRest
  <2>2. session' = Ended \/ (session' = Closed /\ ~kept') BY <2>1
  <2>3. call'.at = "idle" /\ call'.op = call.op /\ call'.write = call.write
    BY <1>1, <2>1 DEF Calls
  <2>4. tells \in Told /\ tells \in {"read", "undone"} BY DEF Told
  <2> HIDE DEF tells
  <2> QED BY <1>1, <2>1, <2>2, <2>3, <2>4, SqliteReturns
<1> QED BY <1>2, <1>3

LEMMA SqliteStopsTells ==
  ASSUME Inv, Inv2, SqliteStops
  PROVE  Inv2'
<1> DEFINE tells == IF call.write THEN "unknown" ELSE "read"
<1>1. /\ engine = "sqlite" /\ call.at \in {"work", "end", "open"} /\ wire' = wire
      /\ call \in Calls /\ call.op \notin durable /\ Return(tells, FALSE)
      /\ UNCHANGED <<engine, durable>>
  BY Typed DEF SqliteStops, SqliteFrame, Inv2, NotYet
<1>2. tells \in Told /\ tells \in {"read", "unknown"} BY DEF Told
<1>3. /\ told' = [told EXCEPT ![call.op] = tells] /\ session' = Closed /\ ~kept'
      /\ call'.at = "idle" /\ call'.op = call.op /\ call'.write = call.write
  BY <1>1, <1>2 DEF Return, Abort, Calls
<1> QED BY <1>1, <1>2, <1>3, SqliteReturns

LEMMA SqliteSettleTells ==
  ASSUME Inv, Inv2, NEW commit \in BOOLEAN, SqliteSettle(commit)
  PROVE  Inv2'
<1>1. /\ engine = "sqlite" /\ call.at = "open" /\ wire' = wire /\ session.open
      /\ call \in Calls /\ call.op \notin durable /\ session.effects = {call.op}
      /\ UNCHANGED engine
  BY Typed DEF SqliteSettle, SqliteFrame, Inv2, Alive, NotYet, Awaiting, Written
<1>2. CASE Return("unknown", FALSE) /\ UNCHANGED durable
  <2>1. /\ told' = [told EXCEPT ![call.op] = "unknown"] /\ session' = Closed /\ ~kept'
        /\ call'.at = "idle" /\ call'.op = call.op /\ call'.write = call.write
    BY <1>1, <1>2 DEF Return, Abort, Calls
  <2> QED BY <1>1, <1>2, <2>1, SqliteReturns DEF Told
<1>3. CASE ~(Return("unknown", FALSE) /\ UNCHANGED durable)
  <2> DEFINE tells == IF commit THEN "committed" ELSE "undone"
  <2>1. /\ told' = [told EXCEPT ![call.op] = tells]
        /\ call' = [call EXCEPT !.at = "idle"] /\ session' = Ended
        /\ durable' = durable \cup (IF commit THEN session.effects ELSE {})
    BY <1>3 DEF SqliteSettle
  <2>2. /\ call'.at = "idle" /\ call'.op = call.op /\ call'.write = call.write
        /\ durable \subseteq durable' /\ durable' \subseteq durable \cup {call.op}
        /\ tells \in Told /\ (tells = "committed" => call.op \in durable')
        /\ tells \in {"read", "undone"} => call.op \notin durable'
    BY <1>1, <2>1 DEF Calls, Told
  <2> HIDE DEF tells
  <2> QED BY <1>1, <2>1, <2>2, SqliteReturns
<1> QED BY <1>2, <1>3

-----------------------------------------------------------------------------
(* The theorem.                                                            *)

LEMMA InitInv2 == Init => Inv2
<1> SUFFICES ASSUME Init PROVE Inv2 OBVIOUS
<1>1. /\ session = Fresh /\ wire = <<>> /\ durable = {} /\ call.at = "idle"
      /\ \A o \in Ops : told[o] = "nothing"
  BY DEF Init
<1>2. OwnRequests
  <2>1. 1 .. Len(wire) = {} BY <1>1, Nothing
  <2> QED BY <2>1 DEF OwnRequests
<1> QED
  BY <1>1, <1>2
  DEF Inv2, OwnTransaction, Alive, InTransaction, Awaiting, NotYet, Truth, Fresh, Closed

LEMMA NextInv2 == Inv /\ Inv2 /\ [Next]_vars => Inv2'
<1> SUFFICES ASSUME Inv, Inv2, [Next]_vars PROVE Inv2' OBVIOUS
<1>1. CASE \E write \in BOOLEAN : Execute(write) BY <1>1, ExecuteTells
<1>2. CASE \E commit \in BOOLEAN : Settle(commit) \/ SqliteSettle(commit)
  BY <1>2, SettleTells, SqliteSettleTells
<1>3. CASE Client
  <2>1. Interrupted \/ Capped => Inv2'
    BY RetireTells DEF Interrupted, Capped, Streaming, Outcomes
  <2> QED
    BY <1>3, <2>1, AdvanceTells, AnsweredTells, CaptureFailsTells, SendCancelTells, SettledTells
    DEF Client
<1>4. CASE Worker
  BY <1>4, SqliteBeginTells, SqliteRunTells, SqliteRestTells, SqliteStopsTells DEF Worker
<1>5. CASE Serve \/ StatementEnds \/ \E op \in Ops : PacketArrives(op)
  BY <1>5, ServeTells, StatementEndsTells, PacketArrivesTells
<1>6. CASE DriverEnds \/ SessionEnds \/ SessionClosed
  BY <1>6, DriverEndsTells, SessionEndsTells, SessionClosedTells
<1>7. CASE UNCHANGED vars
  BY <1>7 DEF vars, client, link, server, Inv2, OwnTransaction, OwnRequests, Alive, InTransaction,
              Awaiting, Written, NotYet, Truth
<1> QED BY <1>1, <1>2, <1>3, <1>4, <1>5, <1>6, <1>7 DEF Next

\* What execute and settle tell the caller of an operation is true of the
\* database, then and later, for any number of operations on a connection and
\* wherever it breaks: a commit that is reported is kept, what is reported as
\* undone or read never counts, and an open write is in its transaction.
THEOREM ToldIsTrue == Spec => []OutcomesTrue
<1>1. Inv2 => OutcomesTrue
  BY DEF Inv2, OutcomesTrue, NotYet, Awaiting, Written, Truth
<1>2. Spec => []Inv2 BY InitInv2, NextInv2, Inductive, PTL DEF Spec
<1> QED BY <1>1, <1>2, PTL

-----------------------------------------------------------------------------
(***************************************************************************)
(* The connection keeps the contract of the facade.  What DatabaseContract *)
(* calls a commit is a COMMIT on the wire; OneOperation and OwnRequests    *)
(* say of it that it is the caller's, asked for or given up as unknown.    *)
(***************************************************************************)

\* A work that succeeded and is rolled back was a read.
Cleaned == call.at = "clean" /\ call.outcome = "ok" => ~call.write

LEMMA CleanedKeeps ==
  ASSUME Inv, Cleaned, [Next]_vars
  PROVE  Cleaned'
<1> SUFFICES ASSUME call'.at = "clean", call'.outcome = "ok" PROVE ~call'.write BY DEF Cleaned
<1>1. call \in Calls BY Typed
<1>2. CASE call' = call BY <1>2 DEF Cleaned
<1>3. ASSUME NEW outcome, Finished(outcome) PROVE ~call'.write
  BY <1>1, <1>3 DEF Finished, Return, Calls
<1>4. CASE Answered \/ CaptureFails BY <1>3, <1>4 DEF Answered, CaptureFails
<1>5. CASE Advance BY <1>1, <1>5 DEF Advance, Working, Calls
<1>6. CASE Interrupted \/ Capped BY <1>1, <1>6 DEF Interrupted, Capped, Retire, Calls
<1>7. CASE SendCancel \/ Settled
  BY <1>1, <1>7 DEF SendCancel, Settled, Return, Calls
<1>8. CASE \E write \in BOOLEAN : Execute(write)
  <2>1. PICK write \in BOOLEAN : Execute(write) BY <1>8
  <2>2. call.at = "idle" /\ call'.at \in {"idle", "work"} BY <1>1, <2>1 DEF Execute, Calls
  <2> QED BY <2>2
<1>9. CASE \E commit \in BOOLEAN : Settle(commit) \/ SqliteSettle(commit)
  BY <1>1, <1>9 DEF Settle, SqliteSettle, Return, Calls
<1>10. CASE Worker
  BY <1>1, <1>10
  DEF Worker, SqliteBegin, SqliteRun, SqliteEnd, SqliteRest, SqliteStops, Return, Calls
<1>11. CASE Serve \/ StatementEnds \/ (\E op \in Ops : PacketArrives(op)) \/ DriverEnds
            \/ SessionEnds \/ SessionClosed \/ UNCHANGED vars
  BY <1>2, <1>11
  DEF Serve, StatementEnds, PacketArrives, DriverEnds, SessionEnds, SessionClosed, vars, client
<1> QED BY <1>4, <1>5, <1>6, <1>7, <1>8, <1>9, <1>10, <1>11 DEF Next, Client

\* The caller keeps the connection of an operation until that has returned.
Held == call.at # "idle" => kept

LEMMA HeldKeeps ==
  ASSUME Inv, Held, [Next]_vars
  PROVE  Held'
<1> SUFFICES ASSUME call'.at # "idle" PROVE kept' BY DEF Held
<1>1. call \in Calls BY Typed
<1>2. CASE call' = call /\ kept' = kept BY <1>2 DEF Held
<1>3. ASSUME NEW tells, NEW keep, Return(tells, keep), tells = "open" => keep PROVE kept'
  BY <1>1, <1>3 DEF Return, Abort, Calls
<1>4. CASE Answered \/ CaptureFails
  <2>1. PICK outcome : Working /\ Finished(outcome)
    BY <1>4 DEF Answered, CaptureFails, Streaming
  <2>2. CASE outcome = "ok" /\ call.write BY <1>3, <2>1, <2>2 DEF Finished
  <2>3. CASE ~(outcome = "ok" /\ call.write) BY <2>1, <2>3 DEF Finished, Working, Held
  <2> QED BY <2>2, <2>3
<1>5. CASE Settled
  <2>1. PICK response : Return(Verdict(response), Succeeded(response)) BY <1>5 DEF Settled
  <2>2. Verdict(response) # "open" BY DEF Verdict
  <2> QED BY <1>3, <2>1, <2>2
<1>6. CASE Advance \/ Interrupted \/ Capped \/ SendCancel
  BY <1>6 DEF Advance, Interrupted, Capped, Streaming, Working, Retire, SendCancel, Held
<1>7. CASE \E write \in BOOLEAN : Execute(write) BY <1>1, <1>7 DEF Execute, Calls
<1>8. CASE \E commit \in BOOLEAN : Settle(commit) BY <1>8 DEF Settle, Held
<1>9. CASE \E commit \in BOOLEAN : SqliteSettle(commit)
  BY <1>1, <1>3, <1>9 DEF SqliteSettle, Calls
<1>10. CASE SqliteBegin \/ SqliteRun BY <1>10 DEF SqliteBegin, SqliteRun, Held
<1>11. CASE SqliteRest BY <1>1, <1>3, <1>11 DEF SqliteRest, Calls
<1>12. CASE SqliteStops
  <2>1. (IF call.write THEN "unknown" ELSE "read") # "open" OBVIOUS
  <2> QED BY <1>3, <1>12, <2>1 DEF SqliteStops
<1>13. CASE Serve \/ StatementEnds \/ (\E op \in Ops : PacketArrives(op)) \/ DriverEnds
            \/ SessionEnds \/ SessionClosed \/ UNCHANGED vars
  BY <1>2, <1>13
  DEF Serve, StatementEnds, PacketArrives, DriverEnds, SessionEnds, SessionClosed, vars, client
<1> QED
  BY <1>4, <1>5, <1>6, <1>7, <1>8, <1>9, <1>10, <1>11, <1>12, <1>13 DEF Next, Client, Worker

Inv3 == Inv /\ Inv2 /\ Cleaned /\ Held

\* The commit under way is the caller's.
LEMMA OwnCommits ==
  ASSUME Inv, Inv2
  PROVE  /\ Commits \subseteq {call.op}
         /\ Commits # {} => /\ wire # <<>> /\ call.at \in {"commit", "idle"}
                            /\ told[call.op] \in {"open", "unknown"}
<1>1. wire = <<>> => Commits = {} BY Nothing DEF Commits
<1> QED BY <1>1 DEF Commits, Inv, OneOperation, Inv2, OwnRequests

\* A request that is no COMMIT adds none, and one may fail to be sent.
LEMMA CommitsSent ==
  ASSUME Inv, call.op \in Ops, NEW kind \in Kinds, Send(kind)
  PROVE  /\ kind # "commit" => Commits' = Commits
         /\ Commits' \in {Commits, Commits \cup {call.op}}
<1>1. Types /\ Len(wire) \in Nat BY Typed, LenProperties DEF Types, LinkTyped
<1>2. Request(kind).kind = kind /\ Request(kind).op = call.op BY DEF Request
<1>3. CASE wire' = wire BY <1>3 DEF Commits
<1>4. CASE wire' # wire
  <2>1. /\ Len(wire') = Len(wire) + 1 /\ wire'[Len(wire) + 1] = Request(kind)
        /\ \A i \in 1 .. Len(wire) : wire'[i] = wire[i]
    BY <1>1, <1>4, Sent
  <2>2. \A i \in 1 .. Len(wire') : i \in 1 .. Len(wire) \/ i = Len(wire) + 1 BY <1>1, <2>1
  <2>3. 1 .. Len(wire) \subseteq 1 .. Len(wire') /\ Len(wire) + 1 \in 1 .. Len(wire')
    BY <1>1, <2>1
  <2>4. \A o \in Ops : o \in Commits' <=> o \in Commits \/ (kind = "commit" /\ o = call.op)
    BY <1>2, <2>1, <2>2, <2>3 DEF Commits
  <2>5. Commits \subseteq Ops /\ Commits' \subseteq Ops BY DEF Commits
  <2>6. CASE kind = "commit" BY <2>4, <2>5, <2>6
  <2>7. CASE kind # "commit" BY <2>4, <2>5, <2>7
  <2> QED BY <2>6, <2>7
<1> QED BY <1>3, <1>4

\* A step that neither moves the caller nor sends or serves a COMMIT.
LEMMA ContractStutter ==
  ASSUME UNCHANGED <<kept, told, durable>>, call'.op = call.op, call'.write = call.write,
         Phase' = Phase, Commits' = Commits
  PROVE  UNCHANGED Contract!vars
BY DEF Contract!vars

LEMMA ContractExecute ==
  ASSUME Inv3, NEW write \in BOOLEAN, Execute(write)
  PROVE  Contract!Next
<1>1. /\ call \in Calls /\ call.at = "idle" /\ kept /\ call.op < MaxOps /\ Commits' = Commits
      /\ call'.op = call.op + 1 /\ call'.write = write /\ UNCHANGED durable
  BY Typed DEF Inv3, Execute, Calls, Commits
<1>2. CASE call'.at = "work" /\ UNCHANGED <<kept, told>>
  BY <1>1, <1>2 DEF Contract!Next, Contract!Execute, Phase
<1>3. CASE ~(call'.at = "work" /\ UNCHANGED <<kept, told>>)
  <2>1. /\ call'.at = "idle" /\ kept' = FALSE
        /\ told' = [told EXCEPT ![call.op + 1] = IF write THEN "undone" ELSE "read"]
    BY <1>1, <1>3 DEF Execute, Abort, Calls
  <2>2. Contract!Execute(write)
    BY <1>1, <2>1 DEF Contract!Execute, Contract!Without, Phase
  <2> QED BY <2>2 DEF Contract!Next
<1> QED BY <1>2, <1>3

\* The answer to a work, or to the rollback that follows it.
LEMMA ContractReturned ==
  ASSUME Inv3, call.at \in {"work", "cancel", "undo", "clean", "end"},
         NEW tells \in {"read", "undone", "unknown", "open"}, NEW keep \in BOOLEAN,
         told' = [told EXCEPT ![call.op] = tells], kept' = keep,
         call'.at = IF tells = "open" THEN "open" ELSE "idle",
         call'.op = call.op, call'.write = call.write, wire' = wire, durable' = durable,
         tells = "read" <=> ~call.write,
         tells = "open" => keep = kept, tells \in {"undone", "unknown"} => ~keep
  PROVE  Contract!Next
<1>1. /\ call.op \notin durable /\ Commits = {} /\ Commits' = {} /\ call \in Calls
      /\ Phase = "running"
  BY OwnCommits, Typed DEF Inv3, Inv2, NotYet, Phase, Commits
<1>2. CASE tells = "open"
  BY <1>1, <1>2 DEF Contract!Next, Contract!Returned, Contract!Untouched, Phase
<1>3. CASE tells # "open"
  <2>1. keep \in (IF call.write THEN {FALSE} ELSE BOOLEAN) BY <1>3
  <2>2. tells = Contract!Without(call.write) \/ (call.write /\ tells = "unknown")
    BY <1>1, <1>3 DEF Contract!Without, Calls
  <2>3. Phase' = "idle" BY <1>3 DEF Phase
  <2> QED
    BY <1>1, <2>1, <2>2, <2>3 DEF Contract!Next, Contract!Returned, Contract!Untouched
<1> QED BY <1>2, <1>3

LEMMA ContractFinished ==
  ASSUME Inv3, Working, NEW outcome, Finished(outcome), UNCHANGED durable
  PROVE  [Contract!Next]_Contract!vars
<1>1. call.at = "work" /\ call \in Calls /\ call.op \in Ops BY Typed DEF Inv3, Working
<1>2. CASE outcome = "ok" /\ call.write
  <2>1. /\ told' = [told EXCEPT ![call.op] = "open"] /\ kept' = TRUE /\ wire' = wire
        /\ call'.at = "open" /\ call'.op = call.op /\ call'.write = call.write
    BY <1>1, <1>2 DEF Finished, Return, Abort, Forget, Calls
  <2>2. kept = TRUE BY <1>1 DEF Inv3, Held
  <2> QED BY <1>1, <1>2, <2>1, <2>2, ContractReturned
<1>3. CASE ~(outcome = "ok" /\ call.write)
  <2>1. /\ call'.at = "clean" /\ call'.op = call.op /\ call'.write = call.write
        /\ Send("rollback") /\ UNCHANGED <<kept, told>>
    BY <1>1, <1>3 DEF Finished, Calls
  <2>2. Commits' = Commits BY <1>1, <2>1, CommitsSent DEF Inv3, Kinds
  <2>3. Phase' = Phase BY <1>1, <2>1 DEF Phase
  <2> QED BY <2>1, <2>2, <2>3, ContractStutter
<1> QED BY <1>2, <1>3

LEMMA ContractRetire ==
  ASSUME Inv3, Interrupted \/ Capped
  PROVE  UNCHANGED Contract!vars
<1>1. /\ call.at = "work" /\ call'.at = "cancel" /\ call'.op = call.op
      /\ call'.write = call.write /\ wire' = wire /\ UNCHANGED <<kept, told, durable>>
  BY Typed
  DEF Inv3, Interrupted, Capped, Streaming, Working, Retire, Forget, server, Calls
<1> QED BY <1>1, ContractStutter DEF Phase, Commits

\* The requests of a work, and the rollback of one that was interrupted.
LEMMA ContractWork ==
  ASSUME Inv3, Advance \/ SendCancel
  PROVE  UNCHANGED Contract!vars
<1>1. CASE Advance
  <2>1. /\ call.at = "work" /\ call'.at = "work" /\ call'.op = call.op
        /\ call'.write = call.write /\ Send(Steps[call.step + 1])
        /\ call.step + 1 \in 1 .. 4 /\ call.op \in Ops
        /\ UNCHANGED <<kept, told, durable>>
    BY <1>1, Typed, OfSteps DEF Inv3, Advance, Working, server, Calls
  <2>2. Steps[call.step + 1] \in Kinds /\ Steps[call.step + 1] # "commit"
    BY <2>1, OfSteps DEF Kinds
  <2>3. Commits' = Commits BY <2>1, <2>2, CommitsSent DEF Inv3
  <2> QED BY <2>1, <2>3, ContractStutter DEF Phase
<1>2. CASE SendCancel
  <2>1. /\ call.at = "cancel" /\ call'.at = "undo" /\ call'.op = call.op
        /\ call'.write = call.write /\ Send("rollback") /\ call.op \in Ops
        /\ UNCHANGED <<kept, told, durable>>
    BY <1>2, Typed DEF Inv3, SendCancel, Calls
  <2>2. Commits' = Commits BY <2>1, CommitsSent DEF Inv3, Kinds
  <2> QED BY <2>1, <2>2, ContractStutter DEF Phase
<1> QED BY <1>1, <1>2

LEMMA ContractSettle ==
  ASSUME Inv3, NEW commit \in BOOLEAN, Settle(commit)
  PROVE  Contract!Next
<1> DEFINE kind == IF commit THEN "commit" ELSE "rollback"
<1>1. /\ call.at = "open" /\ call'.at = kind /\ call'.op = call.op /\ call.op \in Ops
      /\ call'.write = call.write /\ Send(kind) /\ kind \in Kinds
      /\ UNCHANGED <<kept, told, durable>>
  BY Typed DEF Inv3, Settle, server, Calls, Kinds
<1>2. call.op \notin durable /\ Commits = {} BY <1>1, OwnCommits DEF Inv3, Inv2, NotYet
<1>3. /\ kind # "commit" => Commits' = Commits
      /\ Commits' \in {Commits, Commits \cup {call.op}}
  <2> HIDE DEF kind
  <2> QED BY <1>1, CommitsSent DEF Inv3
<1>4. /\ Phase = "open" /\ Phase' = IF commit THEN "committing" ELSE "rolling"
  BY <1>1 DEF Phase
<1>5. Contract!Settle(commit)
  BY <1>1, <1>2, <1>3, <1>4 DEF Contract!Settle, Contract!Untouched
<1> QED BY <1>5 DEF Contract!Next

LEMMA ContractSettled ==
  ASSUME Inv3, Settled
  PROVE  Contract!Next
<1>1. PICK response \in {"late", "none", "ok", "error", "closed"} :
        /\ answer = response \/ (answer = "none" /\ response = "late")
        /\ Return(Verdict(response), Succeeded(response))
  BY Typed DEF Settled, Inv3, Types, LinkTyped, Answers
<1>2. /\ call.at \in Settling /\ engine = "postgres" /\ wire' = wire /\ call \in Calls
      /\ call.op \in Ops /\ durable' = durable /\ Commits' = Commits
  BY Typed DEF Inv3, Settled, Forget, Settling, Commits
<1>3. Verdict(response) \in {"read", "unknown", "committed", "undone"} BY DEF Verdict
<1>4. /\ told' = [told EXCEPT ![call.op] = Verdict(response)] /\ kept' = Succeeded(response)
      /\ call'.op = call.op /\ call'.at = "idle" /\ call'.write = call.write
  BY <1>1, <1>2, <1>3 DEF Return, Abort, Calls
<1>5. CASE call.at \in {"undo", "clean"}
  <2>1. Verdict(response) \in {"read", "unknown", "undone"} BY <1>5 DEF Verdict
  <2>2. Verdict(response) = "read" <=> ~call.write BY <1>5 DEF Verdict
  <2>3. call.write => ~Succeeded(response)
    BY <1>5 DEF Succeeded, Inv3, Cleaned
  <2>4. Succeeded(response) \in BOOLEAN BY DEF Succeeded
  <2> QED BY <1>2, <1>4, <1>5, <2>1, <2>2, <2>3, <2>4, ContractReturned
<1>6. CASE call.at \in {"commit", "rollback"}
  <2>1. call.write /\ Held /\ kept BY <1>6 DEF Inv3, Inv2, Awaiting, Held
  <2>2. /\ Phase = IF call.at = "commit" THEN "committing" ELSE "rolling"
        /\ Phase' = "idle"
    BY <1>4, <1>6 DEF Phase
  <2>3. CASE response = "ok"
    <3>1. answer = "ok" BY <1>1, <2>3
    <3>2. wire = <<>> BY <1>2, <3>1 DEF Inv3, Inv, Settlement, Quiet
    <3>3. call.op \notin Commits BY <3>2, OwnCommits DEF Inv3
    <3>4. call.op \in durable <=> call.at = "commit"
      BY <1>6, <3>1 DEF Inv3, Inv2, Awaiting, NotYet
    <3>5. /\ Verdict(response) = IF call.at = "commit" THEN "committed" ELSE "undone"
          /\ kept' = kept
      <4>1. Succeeded(response) BY <1>6, <2>3 DEF Succeeded
      <4>2. kept' = TRUE BY <1>4, <4>1
      <4>3. kept = TRUE BY <2>1 DEF Inv3, Inv, Types, ClientTyped
      <4> QED BY <2>1, <2>3, <4>2, <4>3 DEF Verdict
    <3>6. Contract!Learned
      BY <1>2, <1>4, <1>6, <2>2, <3>3, <3>4, <3>5 DEF Contract!Learned
    <3> QED BY <3>6 DEF Contract!Next
  <2>4. CASE response # "ok"
    <3>1. Verdict(response) = "unknown" /\ kept' = FALSE
      BY <1>4, <1>6, <2>1, <2>4 DEF Verdict, Succeeded
    <3>2. Contract!Learned BY <1>2, <1>4, <1>6, <2>2, <3>1 DEF Contract!Learned
    <3> QED BY <3>2 DEF Contract!Next
  <2> QED BY <2>3, <2>4
<1> QED BY <1>2, <1>5, <1>6 DEF Settling

\* The COMMIT of the caller takes effect, is refused or is lost.
LEMMA ContractServed ==
  ASSUME Inv3, Commits = {call.op}, Commits' = {}, durable' \in {durable, durable \cup {call.op}},
         call.op \in Ops, UNCHANGED <<call, kept, told>>
  PROVE  Contract!Next
<1>1. Contract!Served(call.op) BY DEF Contract!Served, Phase
<1>2. call.op \in Contract!Ops BY DEF Ops, Contract!Ops
<1> QED BY <1>1, <1>2 DEF Contract!Next

LEMMA ContractServe ==
  ASSUME Inv3, Serve
  PROVE  [Contract!Next]_Contract!vars
<1> DEFINE r == Head(wire)
<1>1. /\ wire \in Seq(Requests) /\ wire # <<>> /\ session.open /\ session.running = 0
      /\ wire' = Tail(wire) /\ UNCHANGED <<call, kept, told>> /\ session \in Sessions
  BY Typed DEF Inv3, Serve, client
<1>2. /\ wire' \in Seq(Requests) /\ Len(wire') = Len(wire) - 1 /\ Len(wire) \in Nat
      /\ \A i \in 1 .. Len(wire) - 1 : wire'[i] = wire[i + 1]
      /\ r = wire[1] /\ r \in Requests /\ 1 \in 1 .. Len(wire)
  BY <1>1, Tailed
<1>3. /\ r.kind # "commit" => durable' = durable
      /\ r.kind = "commit" => durable' \in {durable, durable \cup session.effects}
  BY DEF Serve, ServeBegin, ServeSetting, ServeQuery, ServeRollback, ServeCommit
<1> HIDE DEF r
<1>4. r.op = call.op /\ r.op \in Ops /\ session.effects \subseteq {call.op}
  BY <1>2 DEF Requests, Inv3, Inv, OneOperation, Inv2, OwnTransaction
<1>5. CASE r.kind = "commit"
  <2>1. Len(wire) = 1 BY <1>2, <1>5 DEF Inv3, Inv, OneOperation, Enders
  <2>2. wire' = <<>> BY <1>2, <2>1, EmptySeq
  <2>3. Commits' = {} BY <2>2, Nothing DEF Commits
  <2>4. Commits = {call.op} BY <1>2, <1>4, <1>5, <2>1 DEF Commits
  <2>5. durable' \in {durable, durable \cup {call.op}} BY <1>3, <1>4, <1>5
  <2> QED BY <1>1, <1>4, <2>3, <2>4, <2>5, ContractServed
<1>6. CASE r.kind # "commit"
  <2>1. \A i \in 1 .. Len(wire) : i = 1 \/ (i - 1 \in 1 .. Len(wire') /\ wire'[i - 1] = wire[i])
    BY <1>2
  <2>2. \A i \in 1 .. Len(wire') : i + 1 \in 1 .. Len(wire) /\ wire'[i] = wire[i + 1] BY <1>2
  <2>3. Commits' = Commits BY <1>2, <1>6, <2>1, <2>2 DEF Commits
  <2>4. Phase' = Phase BY <1>1 DEF Phase
  <2> QED BY <1>1, <1>3, <1>6, <2>3, <2>4, ContractStutter
<1> QED BY <1>5, <1>6

\* The connection breaks: a COMMIT that was sent may be lost with it.
LEMMA ContractBroken ==
  ASSUME Inv3, DriverEnds \/ SessionEnds \/ SessionClosed
  PROVE  [Contract!Next]_Contract!vars
<1>1. UNCHANGED <<call, kept, told, durable>>
  BY DEF DriverEnds, SessionEnds, SessionClosed, client, server
<1>2. Commits' \subseteq Commits
  <2>1. CASE DriverEnds
    <3>1. PICK n \in 0 .. Len(wire) : wire' = SubSeq(wire, 1, n) BY <2>1 DEF DriverEnds
    <3>2. wire \in Seq(Requests) /\ Len(wire) \in Nat BY Typed, LenProperties DEF Inv3
    <3>3. \A i \in 1 .. Len(wire') : i \in 1 .. Len(wire) /\ wire'[i] = wire[i]
      BY <3>1, <3>2, Cut
    <3> QED BY <3>3 DEF Commits
  <2>2. CASE SessionEnds BY <2>2 DEF SessionEnds, link, Commits
  <2>3. CASE SessionClosed
    <3>1. wire' = <<>> BY <2>3 DEF SessionClosed
    <3> QED BY <3>1, Nothing DEF Commits
  <2> QED BY <2>1, <2>2, <2>3
<1>3. Commits \subseteq {call.op} /\ Commits \subseteq Ops BY OwnCommits DEF Inv3, Commits
<1>4. CASE Commits' = Commits
  <2>1. Phase' = Phase BY <1>1 DEF Phase
  <2> QED BY <1>1, <1>4, <2>1, ContractStutter
<1>5. CASE Commits' # Commits
  <2>1. Commits' = {} /\ Commits = {call.op} /\ call.op \in Ops BY <1>2, <1>3, <1>5
  <2> QED BY <1>1, <2>1, ContractServed
<1> QED BY <1>4, <1>5

\* A statement that ends counts for nothing yet, as it is in a transaction.
LEMMA ContractStatement ==
  ASSUME Inv3, StatementEnds \/ \E op \in Ops : PacketArrives(op)
  PROVE  UNCHANGED Contract!vars
<1>1. UNCHANGED <<call, kept, told, wire>> BY DEF StatementEnds, PacketArrives, client
<1>2. StatementEnds => session.tx # 0
  BY DEF StatementEnds, Inv3, Inv, OneOperation, Inv2, OwnTransaction
<1>3. durable' = durable BY <1>2 DEF StatementEnds, PacketArrives
<1>4. Phase' = Phase /\ Commits' = Commits BY <1>1 DEF Phase, Commits
<1> QED BY <1>1, <1>3, <1>4, ContractStutter

LEMMA ContractWorker ==
  ASSUME Inv3, SqliteBegin \/ SqliteRun \/ SqliteRest
  PROVE  [Contract!Next]_Contract!vars
<1>0. call.at \in {"work", "end"} /\ wire' = wire /\ durable' = durable
  BY DEF SqliteBegin, SqliteRun, SqliteRest, SqliteFrame
<1>1. /\ call.at \in {"work", "end"} /\ wire' = wire /\ call \in Calls /\ call.op \in Ops
      /\ durable' = durable /\ Commits' = Commits /\ kept /\ kept \in BOOLEAN
  BY <1>0, Typed DEF Inv3, Held, Types, ClientTyped, Commits
<1>2. CASE SqliteBegin \/ SqliteRun
  <2>1. call'.at \in {"work", "end"} /\ call'.op = call.op /\ call'.write = call.write
    BY <1>1, <1>2 DEF SqliteBegin, SqliteRun, SqliteEnd, Calls
  <2>2. UNCHANGED <<kept, told>> BY <1>2 DEF SqliteBegin, SqliteRun
  <2>3. Phase' = Phase BY <1>1, <2>1 DEF Phase
  <2> QED BY <1>1, <2>1, <2>2, <2>3, ContractStutter
<1>3. CASE SqliteRest
  <2> DEFINE succeeds == call.outcome # "failed"
             tells == IF succeeds /\ call.write THEN "open"
                      ELSE IF call.write THEN "undone" ELSE "read"
  <2>1. /\ told' = [told EXCEPT ![call.op] = tells] /\ kept' = succeeds
        /\ call'.at = IF tells = "open" THEN "open" ELSE "idle"
        /\ call'.op = call.op /\ call'.write = call.write
    BY <1>1, <1>3 DEF SqliteRest, Return, Abort, Calls
  <2>2. /\ tells \in {"read", "undone", "unknown", "open"} /\ succeeds \in BOOLEAN
        /\ tells = "read" <=> ~call.write
        /\ tells = "open" => succeeds = kept
        /\ tells \in {"undone", "unknown"} => ~succeeds
    BY <1>1
  <2> HIDE DEF tells, succeeds
  <2> QED BY <1>1, <2>1, <2>2, ContractReturned
<1> QED BY <1>2, <1>3

\* The settlement at once.
LEMMA ContractAtOnce ==
  ASSUME Inv3, NEW commit \in BOOLEAN, call.at = "open", call'.at = "idle", call'.op = call.op,
         call'.write = call.write, wire' = wire,
         \/ /\ told' = [told EXCEPT ![call.op] = IF commit THEN "committed" ELSE "undone"]
            /\ durable' = durable \cup (IF commit THEN {call.op} ELSE {}) /\ kept' = kept
         \/ told' = [told EXCEPT ![call.op] = "unknown"] /\ kept' = FALSE /\ durable' = durable
  PROVE  Contract!Next
<1>1. call.op \notin durable /\ Commits = {} /\ Commits' = Commits
  BY OwnCommits DEF Inv3, Inv2, NotYet, Commits
<1>2. Phase = "open" /\ Phase' = "idle" BY DEF Phase
<1>3. Contract!Settled(commit) BY <1>1, <1>2 DEF Contract!Settled, Contract!Untouched
<1> QED BY <1>3 DEF Contract!Next

LEMMA ContractStops ==
  ASSUME Inv3, SqliteStops
  PROVE  Contract!Next
<1> DEFINE tells == IF call.write THEN "unknown" ELSE "read"
<1>1. /\ call.at \in {"work", "end", "open"} /\ wire' = wire /\ call \in Calls
      /\ durable' = durable /\ Return(tells, FALSE)
  BY Typed DEF SqliteStops, SqliteFrame, Inv3
<1>2. tells \in {"read", "unknown"} /\ (tells = "read" <=> ~call.write) OBVIOUS
<1> HIDE DEF tells
<1>3. /\ told' = [told EXCEPT ![call.op] = tells] /\ kept' = FALSE
      /\ call'.at = "idle" /\ call'.op = call.op /\ call'.write = call.write
  BY <1>1, <1>2 DEF Return, Abort, Calls
<1>4. CASE call.at \in {"work", "end"} BY <1>1, <1>2, <1>3, <1>4, ContractReturned
<1>5. CASE call.at = "open"
  <2>1. tells = "unknown" BY <1>2, <1>5 DEF Inv3, Inv2, Awaiting
  <2> QED BY <1>1, <1>3, <1>5, <2>1, ContractAtOnce
<1> QED BY <1>1, <1>4, <1>5

LEMMA ContractSqliteSettle ==
  ASSUME Inv3, NEW commit \in BOOLEAN, SqliteSettle(commit)
  PROVE  Contract!Next
<1>1. /\ call.at = "open" /\ wire' = wire /\ session.open /\ call \in Calls
      /\ session.effects = {call.op}
  BY Typed DEF Inv3, SqliteSettle, SqliteFrame, Inv2, Alive, Awaiting, Written
<1>2. CASE Return("unknown", FALSE) /\ UNCHANGED durable
  <2>1. /\ told' = [told EXCEPT ![call.op] = "unknown"] /\ kept' = FALSE
        /\ call'.at = "idle" /\ call'.op = call.op /\ call'.write = call.write
    BY <1>1, <1>2 DEF Return, Abort, Calls
  <2> QED BY <1>1, <1>2, <2>1, ContractAtOnce
<1>3. CASE ~(Return("unknown", FALSE) /\ UNCHANGED durable)
  <2>1. /\ told' = [told EXCEPT ![call.op] = IF commit THEN "committed" ELSE "undone"]
        /\ durable' = durable \cup (IF commit THEN {call.op} ELSE {}) /\ kept' = kept
        /\ call'.at = "idle" /\ call'.op = call.op /\ call'.write = call.write
    BY <1>1, <1>3 DEF SqliteSettle, Calls
  <2> QED BY <1>1, <2>1, ContractAtOnce
<1> QED BY <1>2, <1>3

LEMMA ContractInit == Init => Contract!Init
BY DEF Init, Contract!Init, Contract!Ops, Ops, Phase, Commits

LEMMA ContractNext == Inv3 /\ [Next]_vars => [Contract!Next]_Contract!vars
<1> SUFFICES ASSUME Inv3, [Next]_vars PROVE [Contract!Next]_Contract!vars OBVIOUS
<1>1. CASE \E write \in BOOLEAN : Execute(write) BY <1>1, ContractExecute
<1>2. CASE \E commit \in BOOLEAN : Settle(commit) \/ SqliteSettle(commit)
  BY <1>2, ContractSettle, ContractSqliteSettle
<1>3. CASE Answered \/ CaptureFails
  <2>1. Working /\ UNCHANGED durable /\ \E outcome : Finished(outcome)
    BY <1>3 DEF Answered, CaptureFails, Streaming
  <2> QED BY <2>1, ContractFinished
<1>4. CASE Advance \/ Interrupted \/ Capped \/ SendCancel
  BY <1>4, ContractWork, ContractRetire
<1>5. CASE Settled BY <1>5, ContractSettled
<1>6. CASE Worker BY <1>6, ContractWorker, ContractStops DEF Worker
<1>7. CASE Serve \/ StatementEnds \/ \E op \in Ops : PacketArrives(op)
  BY <1>7, ContractServe, ContractStatement
<1>8. CASE DriverEnds \/ SessionEnds \/ SessionClosed BY <1>8, ContractBroken
<1>9. CASE UNCHANGED vars
  <2>1. UNCHANGED <<call, kept, told, wire, durable>>
    BY <1>9 DEF vars, client, link, server
  <2> QED BY <2>1, ContractStutter DEF Phase, Commits
<1> QED BY <1>1, <1>2, <1>3, <1>4, <1>5, <1>6, <1>7, <1>8, <1>9 DEF Next, Client

\* For any number of operations, execute and settle of either database keep
\* the contract of the facade: nothing but a COMMIT the caller has asked for
\* changes the database, what the caller is told no later step can make false,
\* and a connection whose operation failed or is uncertain takes no other.
THEOREM ContractKept == Spec => ImplementsContract
<1>1. Init => Cleaned /\ Held BY DEF Init, Cleaned, Held
<1>2. Inv /\ Cleaned /\ Held /\ [Next]_vars => Cleaned' /\ Held' BY CleanedKeeps, HeldKeeps
<1>3. Inv /\ Inv2 /\ Cleaned /\ Held /\ [Next]_vars => [Contract!Next]_Contract!vars
  BY ContractNext DEF Inv3
<1> QED
  BY InitInv, NextInv, InitInv2, NextInv2, ContractInit, <1>1, <1>2, <1>3, PTL
  DEF Spec, ImplementsContract, Contract!Spec
=============================================================================
