------------------------------- MODULE Prompts -------------------------------
(***************************************************************************)
(* What the user asks for and when it takes effect: commands open prompts, *)
(* whose answers open others or act (app/input.rs, commands.rs, work.rs),  *)
(* while connections come and go.  Every connection has a generation; SQL  *)
(* buffers, pages and prompts name the generation they belong to.          *)
(*                                                                         *)
(* A step is one message of the host or one completion.  The fields asked, *)
(* enabled, replaced, reviewed and transaction, and the number of the write *)
(* a profile is uncertain of, are history: they record what the user was   *)
(* shown, and no step of the code depends on them.                         *)
(***************************************************************************)
EXTENDS Integers, FiniteSets

CONSTANTS
  Profiles, Buffers, Texts,
  Prompted,         \* profiles whose password is asked for
  MaxConnections,   \* the limit of two
  MaxGeneration,    \* bound: connections ever opened
  MaxWrites,        \* bound: writes ever executed
  MaxPages          \* bound: pages with a generation, kept at once

ASSUME ProfileAssumption == Prompted \subseteq Profiles
ASSUME BoundAssumption == MaxConnections \in Nat /\ MaxGeneration \in Nat
                            /\ MaxWrites \in Nat /\ MaxPages \in Nat

VARIABLES
  connection,   \* App::connections
  attempt,      \* App::connecting
  generation,   \* App::generation
  uncertain,    \* Saved::uncertain, as the write it is about; 0: not uncertain
  buffer,       \* App::buffers: the connection each SQL buffer belongs to
  text,         \* what the SQL buffers contain
  input,        \* App::input
  pages,        \* views that name a connection, the reviews with their SQL
  writes,       \* writes executed so far
  wrong         \* an action took effect on something it was not asked for

vars == <<connection, attempt, generation, uncertain, buffer, text, input, pages,
          writes, wrong>>

NoText == "no text"
None == [open |-> FALSE, generation |-> 0, writable |-> FALSE, work |-> "none",
         pending |-> FALSE, sql |-> NoText, reviewed |-> NoText,
         enabled |-> 0, replaced |-> 0]
NoAttempt == [open |-> FALSE, write |-> FALSE, enabled |-> 0, replaced |-> 0]
Unassociated == [profile |-> "none", generation |-> 0]

Live(n) == connection[n].open
Busy(n) == connection[n].work # "none"
Pending(n) == connection[n].pending
Current(n) == connection[n].generation
Same(n, g) == Live(n) /\ Current(n) = g          \* check_generation
Ready(n) == /\ ~attempt[n].open /\ Live(n)
            /\ uncertain[n] = 0 \/ Pending(n)
            /\ ~Busy(n) /\ ~Pending(n)

(* A prompt: what it asks, of which profile and generation, and what the   *)
(* user knew when it was opened.                                           *)
Prompt(kind, n) ==
  [kind |-> kind, profile |-> n, generation |-> Current(n), write |-> FALSE,
   choices |-> {}, sql |-> NoText, buffer |-> "none", asked |-> Current(n),
   enabled |-> 0, transaction |-> uncertain[n]]

(* form, confirm and pick: the new prompt is the only one.                 *)
Ask(p) == input' = {p}

Init ==
  /\ connection = [n \in Profiles |-> None]
  /\ attempt = [n \in Profiles |-> NoAttempt]
  /\ generation = 0 /\ uncertain = [n \in Profiles |-> 0]
  /\ buffer = [b \in Buffers |-> Unassociated]
  /\ text \in [Buffers -> Texts]
  /\ input = {} /\ pages = {} /\ writes = 0 /\ wrong = FALSE

-----------------------------------------------------------------------------
(* What commands and answers share.                                        *)

(* The host shows a new page; old ones are forgotten by ForgetPage.        *)
Show(n, g, sql) ==
  /\ Cardinality(pages) < MaxPages
  /\ pages' = pages \cup {[profile |-> n, generation |-> g, sql |-> sql]}

Opened == Cardinality({n \in Profiles : Live(n) \/ attempt[n].open})

(* connect: the earlier connection of the profile is replaced.             *)
Connect(n, write, asked, enabled) ==
  /\ Opened < MaxConnections \/ Live(n)
  /\ ~attempt[n].open /\ ~Busy(n) /\ ~Pending(n) /\ uncertain[n] = 0
  /\ attempt' = [attempt EXCEPT ![n] = [open |-> TRUE, write |-> write,
                   enabled |-> enabled, replaced |-> Current(n)]]
  /\ connection' = [connection EXCEPT ![n] = None]
  /\ wrong' = (wrong \/ asked # Current(n))

(* password: a prompt that remembers the connection there is, or connect.  *)
(* old: the prompts that are left.                                         *)
Password(n, write, asked, enabled, old) ==
  IF n \in Prompted
  THEN /\ Ask([Prompt("password", n) EXCEPT
                 !.write = write, !.asked = asked, !.enabled = enabled])
       /\ UNCHANGED <<connection, attempt, wrong>>
  ELSE Connect(n, write, asked, enabled) /\ input' = old

(* mode_picker. *)
AskMode(n) == Live(n) /\ ~Busy(n) /\ Ask(Prompt("mode choice", n))

(* query_document: a new document is associated with the connection.       *)
Associate(b, n) == buffer' = [buffer EXCEPT ![b] = [profile |-> n, generation |-> Current(n)]]
NewDocument(n) == Ready(n) /\ \E b \in Buffers : buffer[b] = Unassociated /\ Associate(b, n)

(* settle: commit or rollback of the write the user was shown.             *)
Settle(n, shown) ==
  /\ Live(n) /\ ~Busy(n) /\ Pending(n)
  /\ connection' = [connection EXCEPT ![n].work = "settle"]
  /\ wrong' = (wrong \/ shown # uncertain[n])

(* disconnect: what is pending is rolled back only after a confirmation.   *)
Disconnect(n, old) ==
  /\ Live(n) /\ ~Busy(n)
  /\ IF Pending(n)
     THEN Ask(Prompt("disconnect", n)) /\ UNCHANGED connection
     ELSE connection' = [connection EXCEPT ![n] = None] /\ input' = old

AskAcknowledge(n) == uncertain[n] # 0 /\ Ask(Prompt("acknowledge", n))

(* load. *)
Load(n) == Ready(n) /\ connection' = [connection EXCEPT ![n].work = "read"]

(* execute: a write is marked first, and is what the connection's mode says. *)
Execute(n, g, sql, reviewed) ==
  /\ Ready(n) /\ Same(n, g) /\ writes < MaxWrites
  /\ LET write == connection[n].writable IN
     /\ connection' = [connection EXCEPT ![n].work = IF write THEN "write" ELSE "read",
                         ![n].sql = sql, ![n].reviewed = reviewed]
     /\ writes' = IF write THEN writes + 1 ELSE writes
     /\ uncertain' = IF write THEN [uncertain EXCEPT ![n] = writes + 1] ELSE uncertain

-----------------------------------------------------------------------------
(* Commands on a row of the list of databases, or on a page: profile n is  *)
(* the target.                                                             *)

CommandConnect(n) ==
  /\ ~Live(n) /\ Password(n, FALSE, Current(n), 0, input)
  /\ UNCHANGED <<generation, uncertain, buffer, text, pages, writes>>

(* activate, refresh, next, previous, schema. *)
CommandLoad(n) ==
  /\ Load(n) /\ Show(n, Current(n), NoText)
  /\ UNCHANGED <<attempt, generation, uncertain, buffer, text, input, writes, wrong>>

(* profile_choices. *)
Choices(n) ==
  IF uncertain[n] # 0 /\ ~Pending(n) /\ ~Busy(n) THEN {"acknowledge"}
  ELSE (IF Live(n) THEN {"query", "mode", "disconnect"} ELSE {"connect"})
         \cup (IF Pending(n) THEN {"settle"} ELSE {})

(* profile-actions, mode, acknowledge. *)
CommandAsk(n) ==
  /\ \/ Ask([Prompt("actions", n) EXCEPT !.choices = Choices(n)])
     \/ AskMode(n)
     \/ ~Busy(n) /\ ~Pending(n) /\ AskAcknowledge(n)
  /\ UNCHANGED <<connection, attempt, generation, uncertain, buffer, text, pages,
                 writes, wrong>>

CommandQuery(n) ==
  /\ NewDocument(n)
  /\ UNCHANGED <<connection, attempt, generation, uncertain, text, input, pages,
                 writes, wrong>>

CommandSettle(n) ==
  /\ Settle(n, uncertain[n])
  /\ UNCHANGED <<attempt, generation, uncertain, buffer, text, input, pages, writes>>

CommandDisconnect(n) ==
  /\ Disconnect(n, input)
  /\ UNCHANGED <<attempt, generation, uncertain, buffer, text, pages, writes, wrong>>

Command(n) == \/ CommandConnect(n) \/ CommandLoad(n) \/ CommandAsk(n)
              \/ CommandQuery(n) \/ CommandSettle(n) \/ CommandDisconnect(n)

(* A command on a page whose connection is gone is refused (target).       *)
OnPage(p) == Same(p.profile, p.generation) /\ Command(p.profile)

-----------------------------------------------------------------------------
(* Commands on an SQL buffer.                                              *)

(* use: any database may be chosen in the prompt. *)
CommandUse(b) ==
  /\ \E n \in Profiles : Live(n)
  /\ \E n \in Profiles : Ask([Prompt("use", n) EXCEPT !.buffer = b])
  /\ UNCHANGED <<connection, attempt, generation, uncertain, buffer, text, pages,
                 writes, wrong>>

\* Mutant: the SQL runs at once, whatever the mode.
RunUnreviewed(b) ==
  /\ buffer[b] # Unassociated
  /\ LET a == buffer[b] IN
     /\ Ready(a.profile) /\ Same(a.profile, a.generation)
     /\ Execute(a.profile, a.generation, text[b], NoText)
  /\ UNCHANGED <<attempt, generation, buffer, text, input, pages, wrong>>

(* run: the text is captured; on a writable connection it is reviewed.     *)
Run(b) ==
  /\ buffer[b] # Unassociated
  /\ LET a == buffer[b] IN
     /\ Ready(a.profile) /\ Same(a.profile, a.generation)
     /\ IF connection[a.profile].writable
        THEN /\ Show(a.profile, a.generation, text[b])
             /\ UNCHANGED <<connection, writes, uncertain>>
        ELSE /\ Execute(a.profile, a.generation, text[b], NoText)
             /\ UNCHANGED pages
  /\ UNCHANGED <<attempt, generation, buffer, text, input, wrong>>

(* The user goes on writing.                                               *)
EditText(b) ==
  /\ \E t \in Texts \ {text[b]} : text' = [text EXCEPT ![b] = t]
  /\ UNCHANGED <<connection, attempt, generation, uncertain, buffer, input, pages,
                 writes, wrong>>

(* activate on a review: the SQL it shows is to be confirmed.              *)
ActivateReview(p) ==
  /\ p.sql # NoText /\ Ready(p.profile)
  /\ Ask([Prompt("run", p.profile) EXCEPT !.generation = p.generation,
            !.asked = p.generation, !.sql = p.sql])
  /\ UNCHANGED <<connection, attempt, generation, uncertain, buffer, text, pages,
                 writes, wrong>>

ForgetPage(p) ==
  /\ pages' = pages \ {p}
  /\ UNCHANGED <<connection, attempt, generation, uncertain, buffer, text, input,
                 writes, wrong>>

-----------------------------------------------------------------------------
(* Answers.  A prompt is answered once (submit), whatever comes of it; it  *)
(* may have been replaced by then, which expires it.                       *)

(* The answer is refused, or the prompt is dismissed. *)
Refuse(p) ==
  /\ input' = input \ {p}
  /\ UNCHANGED <<connection, attempt, generation, uncertain, buffer, text, pages,
                 writes, wrong>>

\* Mutant: the connection there is when the password comes is not compared.
PasswordAnswerUnchecked(p) ==
  /\ p.kind = "password"
  /\ Connect(p.profile, p.write, p.asked, p.enabled) /\ input' = input \ {p}
  /\ UNCHANGED <<generation, uncertain, buffer, text, pages, writes>>

PasswordAnswer(p) ==
  /\ p.kind = "password" /\ Current(p.profile) = p.generation
  /\ Connect(p.profile, p.write, p.asked, p.enabled) /\ input' = input \ {p}
  /\ UNCHANGED <<generation, uncertain, buffer, text, pages, writes>>

(* The SQL buffer belongs to the connection there is now. *)
UseAnswer(p) ==
  /\ p.kind = "use" /\ Ready(p.profile)
  /\ Associate(p.buffer, p.profile) /\ input' = input \ {p}
  /\ UNCHANGED <<connection, attempt, generation, uncertain, text, pages, writes, wrong>>

(* profile-actions: the choices were those of the connection it names.     *)
ActionAnswer(p) ==
  LET n == p.profile  old == input \ {p} IN
  /\ p.kind = "actions"
  /\ IF p.generation # 0 THEN Same(n, p.generation) ELSE ~Live(n)
  /\ \/ /\ "query" \in p.choices /\ NewDocument(n) /\ input' = old
        /\ UNCHANGED <<connection, attempt, wrong>>
     \/ /\ "mode" \in p.choices /\ AskMode(n)
        /\ UNCHANGED <<buffer, connection, attempt, wrong>>
     \/ /\ "settle" \in p.choices /\ Settle(n, p.transaction) /\ input' = old
        /\ UNCHANGED <<buffer, attempt>>
     \/ /\ "disconnect" \in p.choices /\ Disconnect(n, old)
        /\ UNCHANGED <<buffer, attempt, wrong>>
     \/ /\ "connect" \in p.choices /\ Password(n, FALSE, p.asked, 0, old)
        /\ UNCHANGED buffer
     \/ /\ "acknowledge" \in p.choices /\ AskAcknowledge(n)
        /\ UNCHANGED <<buffer, connection, attempt, wrong>>
  /\ UNCHANGED <<generation, uncertain, text, pages, writes>>

\* Mutant: a writable connection is opened without the confirmation.
ModeUnconfirmed(p) ==
  /\ p.kind = "mode choice" /\ Same(p.profile, p.generation)
  /\ Ready(p.profile)
  /\ Password(p.profile, ~connection[p.profile].writable, p.asked, 0, input \ {p})
  /\ UNCHANGED <<generation, uncertain, buffer, text, pages, writes>>

(* The other mode is chosen: writing is to be confirmed.                   *)
ModeChoiceAnswer(p) ==
  LET n == p.profile IN
  /\ p.kind = "mode choice" /\ Same(n, p.generation)
  /\ ~Pending(n) /\ Ready(n)
  /\ IF connection[n].writable
     THEN Password(n, FALSE, p.asked, 0, input \ {p})
     ELSE /\ Ask([Prompt("mode", n) EXCEPT !.generation = p.generation,
                    !.asked = p.asked, !.write = TRUE])
          /\ UNCHANGED <<connection, attempt, wrong>>
  /\ UNCHANGED <<generation, uncertain, buffer, text, pages, writes>>

(* Writing is confirmed: the profile is connected again, writable.         *)
ModeAnswer(p) ==
  /\ p.kind = "mode" /\ Same(p.profile, p.generation) /\ Ready(p.profile)
  /\ Password(p.profile, p.write, p.asked, p.generation, input \ {p})
  /\ UNCHANGED <<generation, uncertain, buffer, text, pages, writes>>

(* The reviewed SQL is confirmed. *)
RunAnswer(p) ==
  /\ p.kind = "run"
  /\ Execute(p.profile, p.generation, p.sql, p.sql)
  /\ wrong' = (wrong \/ p.asked # Current(p.profile))
  /\ input' = input \ {p}
  /\ UNCHANGED <<attempt, generation, buffer, text, pages>>

(* The uncertain write was reviewed.                                       *)
AcknowledgeAnswer(p) ==
  LET n == p.profile IN
  /\ p.kind = "acknowledge" /\ ~Pending(n) /\ ~Busy(n)
  /\ wrong' = (wrong \/ uncertain[n] \notin {0, p.transaction})
  /\ uncertain' = [uncertain EXCEPT ![n] = 0]
  /\ input' = input \ {p}
  /\ UNCHANGED <<connection, attempt, generation, buffer, text, pages, writes>>

(* What is pending is rolled back, which may fail, and the connection ends. *)
RollBack(n) ==
  /\ connection' = [connection EXCEPT ![n] = None]
  /\ uncertain' \in {uncertain, [uncertain EXCEPT ![n] = 0]}

DisconnectAnswer(p) ==
  /\ p.kind = "disconnect" /\ Same(p.profile, p.generation) /\ ~Busy(p.profile)
  /\ wrong' = (wrong \/ uncertain[p.profile] \notin {0, p.transaction})
  /\ RollBack(p.profile) /\ input' = input \ {p}
  /\ UNCHANGED <<attempt, generation, buffer, text, pages, writes>>

Answer(p) == \/ PasswordAnswer(p) \/ UseAnswer(p) \/ ActionAnswer(p)
             \/ ModeChoiceAnswer(p) \/ ModeAnswer(p) \/ RunAnswer(p)
             \/ AcknowledgeAnswer(p) \/ DisconnectAnswer(p) \/ Refuse(p)

-----------------------------------------------------------------------------
(* Completions, and transactions that end by themselves.                   *)

(* complete, Connect: the new connection has a number of its own and reads *)
(* its catalog, unless its page is closed.                                 *)
Connected(n) ==
  /\ attempt[n].open /\ generation < MaxGeneration
  /\ generation' = generation + 1
  /\ \E work \in {"read", "none"} :
       connection' = [connection EXCEPT ![n] = [None EXCEPT !.open = TRUE,
         !.generation = generation', !.writable = attempt[n].write, !.work = work,
         !.enabled = attempt[n].enabled, !.replaced = attempt[n].replaced]]
  /\ attempt' = [attempt EXCEPT ![n] = NoAttempt]
  /\ UNCHANGED <<uncertain, buffer, text, input, pages, writes, wrong>>

ConnectFailed(n) ==
  /\ attempt[n].open
  /\ attempt' = [attempt EXCEPT ![n] = NoAttempt]
  /\ UNCHANGED <<connection, generation, uncertain, buffer, text, input, pages,
                 writes, wrong>>

(* Catalog, Data and Settled. *)
Succeeded(n) ==
  /\ Busy(n)
  /\ connection' = [connection EXCEPT ![n].work = "none",
                      ![n].pending = connection[n].work = "write"]
  /\ uncertain' = IF connection[n].work = "settle" THEN [uncertain EXCEPT ![n] = 0]
                  ELSE uncertain
  /\ UNCHANGED <<attempt, generation, buffer, text, input, pages, writes, wrong>>

(* Failed: the connection is retired; the outcome of a write may be known, *)
(* that of a settlement is not.                                            *)
Failed(n) ==
  /\ Busy(n)
  /\ connection' = [connection EXCEPT ![n] = None]
  /\ uncertain' \in {uncertain} \cup
       (IF connection[n].work = "write" THEN {[uncertain EXCEPT ![n] = 0]} ELSE {})
  /\ UNCHANGED <<attempt, generation, buffer, text, input, pages, writes, wrong>>

(* expire and cancel_lease. *)
Expire(n) ==
  /\ Pending(n) /\ ~Busy(n) /\ RollBack(n)
  /\ UNCHANGED <<attempt, generation, buffer, text, input, pages, writes, wrong>>

Next ==
  \/ \E n \in Profiles : \/ Command(n) \/ Connected(n) \/ ConnectFailed(n)
                         \/ Succeeded(n) \/ Failed(n) \/ Expire(n)
  \/ \E b \in Buffers : CommandUse(b) \/ Run(b) \/ EditText(b)
  \/ \E p \in pages : OnPage(p) \/ ActivateReview(p) \/ ForgetPage(p)
  \/ \E p \in input : Answer(p)

Spec == Init /\ [][Next]_vars

-----------------------------------------------------------------------------
(* Properties.                                                             *)

(* Everything names connections that were opened, and no two connections   *)
(* have the same number.                                                   *)
TypeOK ==
  /\ generation \in 0 .. MaxGeneration /\ writes \in 0 .. MaxWrites
  /\ uncertain \in [Profiles -> 0 .. writes] /\ wrong \in BOOLEAN
  /\ text \in [Buffers -> Texts]
  /\ \A n \in Profiles : /\ Current(n) <= generation
                         /\ Live(n) <=> Current(n) # 0
                         /\ Pending(n) \/ Busy(n) => Live(n)
  /\ \A n, m \in Profiles : n # m /\ Live(n) => Current(n) # Current(m)
  /\ \A p \in input \cup pages : p.generation <= generation

(* What the user answers takes effect on what the user was shown: a        *)
(* connection is replaced, SQL executed, a transaction settled or rolled   *)
(* back and an uncertain outcome acknowledged only if it is still the one  *)
(* the prompt was about (submit, settle, connect, execute).                *)
Fenced == ~wrong

(* A connection is writable only if the user confirmed that on the         *)
(* read-only connection it replaced (Input::Mode).                         *)
WritableConfirmed ==
  \A n \in Profiles :
    Live(n) /\ connection[n].writable =>
      connection[n].enabled # 0 /\ connection[n].enabled = connection[n].replaced

(* A profile that is uncertain runs nothing but its write, and gets no     *)
(* connection, until the outcome is known or acknowledged.                 *)
UncertainRests ==
  \A n \in Profiles :
    uncertain[n] # 0 => /\ ~attempt[n].open
                        /\ connection[n].work \in {"none", "write", "settle"}

(* A write is the SQL that was reviewed and confirmed, though the buffer   *)
(* may have changed since, and one that is not settled leaves its profile  *)
(* uncertain, which then rests (capture, Content::Review, Intent).         *)
WritesReviewed ==
  /\ TypeOK /\ UncertainRests
  /\ \A n \in Profiles :
       connection[n].work = "write" \/ Pending(n) =>
         /\ connection[n].sql = connection[n].reviewed /\ uncertain[n] # 0
=============================================================================
