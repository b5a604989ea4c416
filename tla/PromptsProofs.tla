---------------------------- MODULE PromptsProofs ----------------------------
(***************************************************************************)
(* Whatever is answered takes effect on what was asked about: the safety   *)
(* properties of module Prompts, for any profiles, buffers and texts, any  *)
(* limit of connections, and any number of connections and writes.         *)
(*                                                                         *)
(* A step changes at most one profile, and what it leaves there is sound   *)
(* by itself (Sound); there is at most one prompt, and it is about the     *)
(* connection and the write it was opened for, or about none (About).      *)
(***************************************************************************)
EXTENDS Prompts, TLAPS

Sql == Texts \cup {NoText}
Works == {"none", "read", "write", "settle"}
Kinds == {"password", "actions", "mode choice", "mode", "use", "run", "disconnect",
          "acknowledge"}
Actions == {"acknowledge", "query", "mode", "disconnect", "connect", "settle"}

Connections == [open : BOOLEAN, generation : Nat, writable : BOOLEAN, work : Works,
                pending : BOOLEAN, sql : Sql, reviewed : Sql, enabled : Nat,
                replaced : Nat]
Attempts == [open : BOOLEAN, write : BOOLEAN, enabled : Nat, replaced : Nat]
Inputs == [kind : Kinds, profile : Profiles, generation : Nat, write : BOOLEAN,
           choices : SUBSET Actions, sql : Sql, buffer : Buffers \cup {"none"},
           asked : Nat, enabled : Nat, transaction : Nat]
Views == [profile : Profiles, generation : Nat, sql : Sql]
Associations == [profile : Profiles, generation : Nat] \cup {Unassociated}

-----------------------------------------------------------------------------
(* The invariant.                                                          *)

(* Writing was confirmed on the connection that was replaced. *)
Enabled(r) == r.enabled # 0 /\ r.enabled = r.replaced

(* A connection c, an attempt a and the write u of one profile. *)
Sound(c, a, u) ==
  /\ c \in Connections /\ a \in Attempts
  /\ c.open <=> c.generation # 0
  /\ c.pending \/ c.work # "none" => c.open
  /\ c.writable => Enabled(c)
  /\ a.open /\ a.write => Enabled(a)
  /\ u # 0 => ~a.open /\ c.work \in {"none", "write", "settle"}
  /\ c.work = "write" \/ c.pending => c.sql = c.reviewed /\ u # 0

Counted == generation \in 0 .. MaxGeneration /\ writes \in 0 .. MaxWrites

Standing ==
  /\ connection \in [Profiles -> Connections] /\ attempt \in [Profiles -> Attempts]
  /\ uncertain \in [Profiles -> 0 .. writes]
  /\ \A n \in Profiles : Sound(connection[n], attempt[n], uncertain[n])
  /\ \A n \in Profiles : connection[n].generation <= generation
  /\ \A n, m \in Profiles : n # m /\ connection[n].generation # 0 =>
       connection[n].generation # connection[m].generation

(* A prompt is about the generation it was asked of and, while its profile *)
(* is uncertain, about the write the user was shown.                       *)
About(p) ==
  /\ p \in Inputs
  /\ p.asked = p.generation /\ p.generation <= generation
  /\ uncertain[p.profile] \in {0, p.transaction}
  /\ p.kind = "password" /\ p.write => p.enabled # 0 /\ p.enabled = p.generation

Asking ==
  /\ \A p, q \in input : p = q
  /\ \A p \in input : About(p)

Showing ==
  /\ pages \subseteq Views /\ \A p \in pages : p.generation <= generation
  /\ buffer \in [Buffers -> Associations] /\ text \in [Buffers -> Texts]

Inv == Counted /\ Standing /\ Asking /\ Showing /\ wrong = FALSE

-----------------------------------------------------------------------------
(* Lemmas: what one profile's step, and one new prompt, leave.             *)

(* Initially nothing is connected, asked or uncertain.                     *)
LEMMA InitInv == Init => Inv
<1> SUFFICES ASSUME Init PROVE Inv
  OBVIOUS
<1>1. Counted
  BY BoundAssumption DEF Init, Counted
<1>2. None \in Connections /\ NoAttempt \in Attempts
  BY DEF None, NoAttempt, Connections, Attempts, Works, Sql
<1>3. Sound(None, NoAttempt, 0)
  BY <1>2 DEF Sound, None, NoAttempt
<1>4. Standing
  <2>1. /\ connection = [n \in Profiles |-> None] /\ attempt = [n \in Profiles |-> NoAttempt]
        /\ uncertain = [n \in Profiles |-> 0] /\ generation = 0 /\ writes = 0
    BY DEF Init
  <2>2. /\ connection \in [Profiles -> Connections] /\ attempt \in [Profiles -> Attempts]
        /\ uncertain \in [Profiles -> 0 .. writes]
    BY <1>2, <2>1
  <2>3. \A n \in Profiles : Sound(connection[n], attempt[n], uncertain[n])
    BY <1>3, <2>1
  <2>4. \A n \in Profiles : connection[n].generation = 0
    BY <2>1 DEF None
  <2> QED
    BY <2>1, <2>2, <2>3, <2>4 DEF Standing
<1>5. Asking /\ Showing
  BY DEF Init, Asking, Showing, Associations
<1> QED
  BY <1>1, <1>4, <1>5 DEF Inv, Init

(* Types: what the invariant says of one profile. *)
LEMMA ProfileFacts ==
  ASSUME Inv, NEW n \in Profiles
  PROVE  /\ connection[n] \in Connections /\ attempt[n] \in Attempts
         /\ uncertain[n] \in Nat /\ uncertain[n] \in 0 .. writes
         /\ Sound(connection[n], attempt[n], uncertain[n])
         /\ connection[n].generation <= generation
         /\ connection[n].generation \in Nat
         /\ generation \in Nat /\ writes \in Nat
BY BoundAssumption DEF Inv, Standing, Counted, Connections

(* A step that leaves profile n with the connection c, the attempt a and   *)
(* the write u, of which c is the one it had, a new one or none.           *)
LEMMA ProfileMoves ==
  ASSUME Inv, Counted', NEW n \in Profiles, NEW c, NEW a, NEW u,
         connection' = [connection EXCEPT ![n] = c],
         attempt' = [attempt EXCEPT ![n] = a],
         uncertain' = [uncertain EXCEPT ![n] = u],
         Sound(c, a, u), u \in 0 .. writes',
         generation <= generation', writes <= writes',
         \/ c.generation = 0
         \/ c.generation = Current(n)
         \/ c.generation = generation' /\ generation < generation'
  PROVE  Standing'
<1>1. c \in Connections /\ a \in Attempts /\ c.generation \in Nat
  BY DEF Sound, Connections
<1>2. /\ connection \in [Profiles -> Connections] /\ attempt \in [Profiles -> Attempts]
      /\ uncertain \in [Profiles -> 0 .. writes]
  BY DEF Inv, Standing
<1>3. /\ generation \in Nat /\ generation' \in Nat /\ writes \in Nat /\ writes' \in Nat
  BY BoundAssumption DEF Inv, Counted
<1>4. connection' \in [Profiles -> Connections] /\ attempt' \in [Profiles -> Attempts]
  BY <1>1, <1>2
<1>5. uncertain' \in [Profiles -> 0 .. writes']
  BY <1>2, <1>3
<1>6. connection'[n] = c /\ attempt'[n] = a /\ uncertain'[n] = u
  BY <1>2
<1>7. \A m \in Profiles \ {n} : /\ connection'[m] = connection[m]
                                /\ attempt'[m] = attempt[m]
                                /\ uncertain'[m] = uncertain[m]
  BY <1>2
<1>8. \A m \in Profiles : Sound(connection'[m], attempt'[m], uncertain'[m])
  BY <1>6, <1>7 DEF Inv, Standing
<1>9. \A m \in Profiles : connection[m].generation \in Nat /\ connection[m].generation <= generation
  BY ProfileFacts
<1>10. \A m \in Profiles : connection'[m].generation <= generation'
  <2> TAKE m \in Profiles
  <2>1. CASE m = n
    BY <2>1, <1>1, <1>3, <1>6, <1>9 DEF Current
  <2>2. CASE m # n
    BY <2>2, <1>3, <1>7, <1>9
  <2> QED
    BY <2>1, <2>2
<1>11. \A m, k \in Profiles : m # k /\ connection'[m].generation # 0 =>
         connection'[m].generation # connection'[k].generation
  <2> TAKE m, k \in Profiles
  <2>1. m # k /\ connection[m].generation # 0 =>
          connection[m].generation # connection[k].generation
    BY DEF Inv, Standing
  <2>2. m # k /\ connection[k].generation # 0 =>
          connection[k].generation # connection[m].generation
    BY DEF Inv, Standing
  <2>3. CASE m # n /\ k # n
    BY <2>1, <2>3, <1>7
  <2>4. CASE m = n /\ k # n
    BY <2>1, <2>4, <1>1, <1>3, <1>6, <1>7, <1>9 DEF Current
  <2>5. CASE k = n /\ m # n
    BY <2>1, <2>2, <2>5, <1>1, <1>3, <1>6, <1>7, <1>9 DEF Current
  <2> QED
    BY <2>3, <2>4, <2>5
<1> QED
  BY <1>4, <1>5, <1>8, <1>10, <1>11 DEF Standing

(* Prompts that are still there stay about what they were about when the   *)
(* writes in doubt are the same or fewer.                                  *)
LEMMA PromptsStay ==
  ASSUME Inv, Counted', input' \subseteq input, generation <= generation',
         \A n \in Profiles : uncertain'[n] \in {0, uncertain[n]}
  PROVE  Asking'
<1>1. \A p, q \in input' : p = q
  BY DEF Inv, Asking
<1>2. ASSUME NEW p \in input' PROVE About(p)'
  <2>1. About(p)
    BY <1>2 DEF Inv, Asking
  <2>2. p \in Inputs /\ p.generation \in Nat /\ p.profile \in Profiles
    BY <2>1 DEF About, Inputs
  <2>3. generation \in Nat /\ generation' \in Nat
    BY BoundAssumption DEF Inv, Counted
  <2>4. p.generation <= generation'
    BY <2>1, <2>2, <2>3 DEF About
  <2>5. uncertain'[p.profile] \in {0, p.transaction}
    BY <2>1, <2>2 DEF About
  <2> QED
    BY <2>1, <2>4, <2>5 DEF About
<1> QED
  BY <1>1, <1>2 DEF Asking

(* A new prompt replaces all others.                                       *)
LEMMA PromptOpens ==
  ASSUME NEW p, Ask(p), About(p)'
  PROVE  Asking'
BY DEF Ask, Asking

(* A prompt of the present connection and write of its profile.            *)
LEMMA PromptFits ==
  ASSUME Inv, NEW n \in Profiles, NEW kind \in Kinds
  PROVE  /\ Prompt(kind, n) \in Inputs /\ Prompt(kind, n).kind = kind
         /\ Prompt(kind, n).asked = Prompt(kind, n).generation
         /\ Prompt(kind, n).generation <= generation
         /\ Prompt(kind, n).transaction = uncertain[Prompt(kind, n).profile]
<1>1. connection[n].generation \in Nat /\ connection[n].generation <= generation
  BY ProfileFacts
<1>2. uncertain[n] \in Nat
  BY ProfileFacts
<1> QED
  BY <1>1, <1>2 DEF Prompt, Inputs, Sql, Current

(* A question that changes nothing but the prompt is about what it names.  *)
LEMMA QuestionFits ==
  ASSUME Inv, NEW p \in Inputs,
         p.asked = p.generation, p.generation <= generation,
         uncertain[p.profile] = p.transaction,
         p.kind = "password" /\ p.write => p.enabled # 0 /\ p.enabled = p.generation,
         generation' = generation, uncertain' = uncertain
  PROVE  About(p)'
BY DEF About

(* What shows nothing new stays as it was.                                 *)
LEMMA ShowingStays ==
  ASSUME Inv, Counted', generation <= generation', UNCHANGED <<pages, buffer, text>>
  PROVE  Showing'
<1>1. \A p \in pages : p.generation \in Nat /\ p.generation <= generation
  BY DEF Inv, Showing, Views
<1>2. generation \in Nat /\ generation' \in Nat
  BY BoundAssumption DEF Inv, Counted
<1> QED
  BY <1>1, <1>2 DEF Inv, Showing

(* A step that leaves the profiles alone. *)
LEMMA ProfilesStay ==
  ASSUME Inv, UNCHANGED <<connection, attempt, generation, uncertain, writes>>
  PROVE  Counted' /\ Standing'
BY DEF Inv, Counted, Standing

-----------------------------------------------------------------------------
(* Lemmas: what commands and answers share.                                *)

(* connect replaces the connection the user was asked about. *)
LEMMA ConnectMoves ==
  ASSUME Inv, NEW n \in Profiles, NEW write \in BOOLEAN, NEW enabled \in Nat,
         Connect(n, write, Current(n), enabled),
         write => enabled # 0 /\ enabled = Current(n),
         UNCHANGED <<generation, uncertain, writes>>
  PROVE  Counted' /\ Standing' /\ wrong' = FALSE
<1> DEFINE a == [open |-> TRUE, write |-> write, enabled |-> enabled, replaced |-> Current(n)]
<1>1. /\ attempt' = [attempt EXCEPT ![n] = a] /\ connection' = [connection EXCEPT ![n] = None]
      /\ uncertain[n] = 0
      /\ wrong' = (wrong \/ Current(n) # Current(n))
  BY DEF Connect
<1>2. wrong' = FALSE
  BY <1>1 DEF Inv
<1>3. Current(n) \in Nat
  BY ProfileFacts DEF Current
<1>4. a \in Attempts
  BY <1>3 DEF Attempts
<1>5. None \in Connections
  BY DEF None, Connections, Works, Sql
<1>6. Sound(None, a, uncertain[n])
  BY <1>1, <1>4, <1>5 DEF Sound, None, Enabled
<1>7. uncertain' = [uncertain EXCEPT ![n] = uncertain[n]]
  BY DEF Inv, Standing
<1>8. Counted'
  BY DEF Inv, Counted
<1>9. /\ uncertain[n] \in 0 .. writes' /\ generation <= generation' /\ writes <= writes'
      /\ None.generation = 0
  BY ProfileFacts DEF None
<1> HIDE DEF a
<1>10. Standing'
  BY <1>1, <1>6, <1>7, <1>8, <1>9, ProfileMoves
<1> QED
  BY <1>2, <1>8, <1>10

(* The connection of n ends; its write is settled, or stays in doubt.      *)
LEMMA ConnectionEnds ==
  ASSUME Inv, NEW n \in Profiles,
         connection' = [connection EXCEPT ![n] = None],
         uncertain' = uncertain \/ uncertain' = [uncertain EXCEPT ![n] = 0],
         UNCHANGED <<attempt, generation, writes>>
  PROVE  /\ Counted' /\ Standing'
         /\ \A m \in Profiles : uncertain'[m] \in {0, uncertain[m]}
<1>1. PICK u \in {0, uncertain[n]} : uncertain' = [uncertain EXCEPT ![n] = u]
  BY DEF Inv, Standing
<1>2. None \in Connections
  BY DEF None, Connections, Works, Sql
<1>3. Sound(None, attempt[n], u)
  BY <1>1, <1>2, ProfileFacts DEF Sound, None
<1>4. attempt' = [attempt EXCEPT ![n] = attempt[n]]
  BY DEF Inv, Standing
<1>5. Counted'
  BY DEF Inv, Counted
<1>6. /\ u \in 0 .. writes' /\ generation <= generation' /\ writes <= writes'
      /\ None.generation = 0
  BY <1>1, ProfileFacts DEF None
<1>7. Standing'
  BY <1>1, <1>3, <1>4, <1>5, <1>6, ProfileMoves
<1>8. \A m \in Profiles : uncertain'[m] \in {0, uncertain[m]}
  BY <1>1 DEF Inv, Standing
<1> QED
  BY <1>5, <1>7, <1>8

(* The connection of n goes on, with other work.                           *)
LEMMA ConnectionWorks ==
  ASSUME Inv, Counted', NEW n \in Profiles, NEW c, NEW u \in 0 .. writes',
         Live(n), c.generation = Current(n),
         connection' = [connection EXCEPT ![n] = c],
         uncertain' = [uncertain EXCEPT ![n] = u],
         Sound(c, attempt[n], u), writes <= writes',
         UNCHANGED <<attempt, generation>>
  PROVE  Standing'
<1>1. attempt' = [attempt EXCEPT ![n] = attempt[n]]
  BY DEF Inv, Standing
<1>2. generation <= generation'
  BY ProfileFacts
<1> QED
  BY <1>1, <1>2, ProfileMoves

(* A settlement begins, of the transaction that the user was shown.        *)
LEMMA SettleMoves ==
  ASSUME Inv, NEW n \in Profiles, Settle(n, uncertain[n]),
         UNCHANGED <<attempt, generation, uncertain, writes>>
  PROVE  Counted' /\ Standing' /\ wrong' = FALSE
<1> DEFINE c == [connection[n] EXCEPT !.work = "settle"]
<1>1. Live(n) /\ Pending(n) /\ connection' = [connection EXCEPT ![n] = c] /\ wrong' = FALSE
  BY DEF Settle, Inv
<1>2. Counted'
  BY DEF Inv, Counted
<1>3. /\ c.work = "settle" /\ c.generation = Current(n)
      /\ c \in Connections
      /\ \A f \in {"open", "generation", "writable", "pending", "sql", "reviewed", "enabled",
                   "replaced"} : c[f] = connection[n][f]
  BY ProfileFacts DEF Connections, Works, Current
<1>4. Sound(c, attempt[n], uncertain[n])
  BY <1>1, <1>3, ProfileFacts DEF Sound, Enabled, Live, Pending
<1>5. uncertain' = [uncertain EXCEPT ![n] = uncertain[n]]
  BY DEF Inv, Standing
<1>6. uncertain[n] \in 0 .. writes' /\ writes <= writes'
  BY ProfileFacts
<1> HIDE DEF c
<1>7. Standing'
  BY <1>1, <1>2, <1>3, <1>4, <1>5, <1>6, ConnectionWorks
<1> QED
  BY <1>1, <1>2, <1>7

(* A read begins on a connection without a write. *)
LEMMA ReadBegins ==
  ASSUME Inv, NEW n \in Profiles, Ready(n), NEW sql \in Sql, NEW reviewed \in Sql,
         connection' = [connection EXCEPT ![n].work = "read", ![n].sql = sql,
                          ![n].reviewed = reviewed],
         UNCHANGED <<attempt, generation, uncertain, writes>>
  PROVE  Counted' /\ Standing'
<1> DEFINE c == [connection[n] EXCEPT !.work = "read", !.sql = sql, !.reviewed = reviewed]
<1>1. Live(n) /\ ~Pending(n) /\ uncertain[n] = 0 /\ connection' = [connection EXCEPT ![n] = c]
  BY DEF Ready, Inv, Standing, Connections
<1>2. Counted'
  BY DEF Inv, Counted
<1>3. /\ c.work = "read" /\ c.generation = Current(n)
      /\ c \in Connections
      /\ \A f \in {"open", "generation", "writable", "pending", "enabled", "replaced"} :
           c[f] = connection[n][f]
  BY ProfileFacts DEF Connections, Works, Current
<1>4. Sound(c, attempt[n], uncertain[n])
  BY <1>1, <1>3, ProfileFacts DEF Sound, Enabled, Live, Pending
<1>5. uncertain' = [uncertain EXCEPT ![n] = uncertain[n]]
  BY DEF Inv, Standing
<1>6. uncertain[n] \in 0 .. writes' /\ writes <= writes'
  BY ProfileFacts
<1> HIDE DEF c
<1>7. Standing'
  BY <1>1, <1>2, <1>3, <1>4, <1>5, <1>6, ConnectionWorks
<1> QED
  BY <1>2, <1>7

(* load. *)
LEMMA LoadMoves ==
  ASSUME Inv, NEW n \in Profiles, Load(n),
         UNCHANGED <<attempt, generation, uncertain, writes>>
  PROVE  Counted' /\ Standing'
<1>1. connection[n] \in Connections /\ connection \in [Profiles -> Connections]
  BY DEF Inv, Standing
<1>2. connection[n].sql \in Sql /\ connection[n].reviewed \in Sql
  BY <1>1 DEF Connections
<1>3. connection' = [connection EXCEPT ![n].work = "read", ![n].sql = connection[n].sql,
                       ![n].reviewed = connection[n].reviewed]
  BY <1>1 DEF Load, Connections
<1>4. Ready(n)
  BY DEF Load
<1> HIDE DEF Inv
<1> QED
  BY <1>2, <1>3, <1>4, ReadBegins

(* execute: what runs as a write is the SQL that was reviewed.             *)
LEMMA ExecuteMoves ==
  ASSUME Inv, NEW n \in Profiles, NEW g, NEW sql \in Sql, NEW reviewed \in Sql,
         Execute(n, g, sql, reviewed), connection[n].writable => sql = reviewed,
         UNCHANGED <<attempt, generation>>
  PROVE  Counted' /\ Standing'
<1>1. Ready(n) /\ Live(n) /\ writes < MaxWrites
  BY DEF Execute, Same
<1>2. CASE ~connection[n].writable
  BY <1>1, <1>2, ReadBegins DEF Execute
<1>3. CASE connection[n].writable
  <2> DEFINE c == [connection[n] EXCEPT !.work = "write", !.sql = sql, !.reviewed = reviewed]
  <2>1. /\ connection' = [connection EXCEPT ![n] = c] /\ writes' = writes + 1
        /\ uncertain' = [uncertain EXCEPT ![n] = writes + 1]
    BY <1>3 DEF Execute, Inv, Standing, Connections
  <2>2. Counted'
    BY <1>1, <2>1, ProfileFacts, BoundAssumption DEF Inv, Counted
  <2>3. ~attempt[n].open /\ ~Pending(n)
    BY <1>1 DEF Ready
  <2>4. /\ c.work = "write" /\ c.generation = Current(n) /\ c.sql = c.reviewed
        /\ c \in Connections
        /\ \A f \in {"open", "generation", "writable", "pending", "enabled", "replaced"} :
             c[f] = connection[n][f]
    BY <1>3, ProfileFacts DEF Connections, Works, Current
  <2>5. writes \in Nat /\ writes + 1 # 0 /\ writes + 1 \in 0 .. writes' /\ writes <= writes'
    BY <2>1, ProfileFacts
  <2>6. Sound(c, attempt[n], writes + 1)
    BY <1>1, <2>3, <2>4, <2>5, ProfileFacts DEF Sound, Enabled, Live, Pending
  <2> HIDE DEF c
  <2>7. Standing'
    BY <1>1, <2>1, <2>2, <2>4, <2>5, <2>6, ConnectionWorks
  <2> QED
    BY <2>2, <2>7
<1> QED
  BY <1>2, <1>3

(* password asks first, or connects. *)
LEMMA PasswordKeeps ==
  ASSUME Inv, NEW n \in Profiles, NEW write \in BOOLEAN, NEW enabled \in Nat,
         NEW old \in SUBSET input, Password(n, write, Current(n), enabled, old),
         write => enabled # 0 /\ enabled = Current(n),
         UNCHANGED <<generation, uncertain, buffer, text, pages, writes>>
  PROVE  Inv'
<1>1. Counted' /\ Showing'
  <2>1. Counted'
    BY DEF Inv, Counted
  <2> QED
    BY <2>1, ProfileFacts, ShowingStays
<1>2. CASE n \in Prompted
  <2> DEFINE q == [Prompt("password", n) EXCEPT
                     !.write = write, !.asked = Current(n), !.enabled = enabled]
  <2>1. Ask(q) /\ UNCHANGED <<connection, attempt, wrong>>
    BY <1>2 DEF Password
  <2>2. /\ q \in Inputs /\ q.asked = q.generation /\ q.generation <= generation
        /\ uncertain[q.profile] = q.transaction
        /\ q.kind = "password" /\ q.write => q.enabled # 0 /\ q.enabled = q.generation
    <3>1. /\ Current(n) \in Nat /\ Current(n) <= generation /\ uncertain[n] \in Nat
      BY ProfileFacts DEF Current
    <3> QED
      BY <3>1 DEF Prompt, Inputs, Kinds, Sql
  <2> HIDE DEF q
  <2>3. Asking'
    BY <2>1, <2>2, QuestionFits, PromptOpens
  <2> QED
    BY <1>1, <2>1, <2>3, ProfilesStay DEF Inv
<1>3. CASE n \notin Prompted
  <2>1. Connect(n, write, Current(n), enabled) /\ input' = old
    BY <1>3 DEF Password
  <2>2. Standing' /\ wrong' = FALSE
    BY <2>1, ConnectMoves
  <2>3. \A m \in Profiles : uncertain'[m] \in {0, uncertain[m]}
    OBVIOUS
  <2>4. Asking'
    BY <1>1, <2>1, <2>3, ProfileFacts, PromptsStay
  <2> QED
    BY <1>1, <2>2, <2>4 DEF Inv
<1> QED
  BY <1>2, <1>3

(* A question about the present connection and write of its profile.       *)
LEMMA AskKeeps ==
  ASSUME Inv, NEW q \in Inputs, Ask(q), q.kind # "password", q.asked = q.generation,
         q.generation <= generation, q.transaction = uncertain[q.profile],
         UNCHANGED <<connection, attempt, generation, uncertain, buffer, text, pages,
                     writes, wrong>>
  PROVE  Inv'
<1>1. Asking'
  BY QuestionFits, PromptOpens
<1>2. Counted' /\ Standing'
  BY ProfilesStay
<1>3. generation <= generation'
  BY BoundAssumption DEF Inv, Counted
<1> QED
  BY <1>1, <1>2, <1>3, ShowingStays DEF Inv

(* A prompt is dropped, or stays; nothing else changes but documents.      *)
LEMMA DropKeeps ==
  ASSUME Inv, input' \subseteq input, Showing',
         UNCHANGED <<connection, attempt, generation, uncertain, writes, wrong>>
  PROVE  Inv'
<1>1. Counted' /\ Standing'
  BY ProfilesStay
<1>2. generation <= generation'
  BY BoundAssumption DEF Inv, Counted
<1>3. \A m \in Profiles : uncertain'[m] \in {0, uncertain[m]}
  OBVIOUS
<1>4. Asking'
  BY <1>1, <1>2, <1>3, PromptsStay
<1> QED
  BY <1>1, <1>4 DEF Inv

(* Profiles change; prompts may go, and what is shown stays.               *)
LEMMA MoveKeeps ==
  ASSUME Inv, Counted', Standing', wrong' = FALSE, input' \subseteq input,
         generation <= generation', UNCHANGED <<pages, buffer, text>>,
         \A m \in Profiles : uncertain'[m] \in {0, uncertain[m]}
  PROVE  Inv'
BY PromptsStay, ShowingStays DEF Inv

(* mode_picker and AskAcknowledge, for the rest of the prompt's state.     *)
LEMMA PickersKeep ==
  ASSUME Inv, NEW n \in Profiles, AskMode(n) \/ AskAcknowledge(n),
         UNCHANGED <<connection, attempt, generation, uncertain, buffer, text, pages,
                     writes, wrong>>
  PROVE  Inv'
<1>1. PICK kind \in {"mode choice", "acknowledge"} : Ask(Prompt(kind, n))
  BY DEF AskMode, AskAcknowledge
<1>2. kind \in Kinds /\ kind # "password"
  BY DEF Kinds
<1> QED
  BY <1>1, <1>2, PromptFits, AskKeeps

(* disconnect asks first when a write is pending.                          *)
LEMMA DisconnectKeeps ==
  ASSUME Inv, NEW n \in Profiles, NEW old \in SUBSET input, Disconnect(n, old),
         UNCHANGED <<attempt, generation, uncertain, buffer, text, pages, writes, wrong>>
  PROVE  Inv'
<1>1. CASE Pending(n)
  <2>1. Ask(Prompt("disconnect", n)) /\ UNCHANGED connection
    BY <1>1 DEF Disconnect
  <2>2. "disconnect" \in Kinds
    BY DEF Kinds
  <2> QED
    BY <2>1, <2>2, PromptFits, AskKeeps
<1>2. CASE ~Pending(n)
  <2>1. connection' = [connection EXCEPT ![n] = None] /\ input' = old
    BY <1>2 DEF Disconnect
  <2>2. Counted' /\ Standing' /\ \A m \in Profiles : uncertain'[m] \in {0, uncertain[m]}
    BY <2>1, ConnectionEnds
  <2>3. wrong' = FALSE
    BY DEF Inv
  <2>4. generation <= generation'
    BY ProfileFacts
  <2> QED
    BY <2>1, <2>2, <2>3, <2>4, MoveKeeps
<1> QED
  BY <1>1, <1>2

(* query_document: the new document belongs to the present connection.     *)
LEMMA DocumentKeeps ==
  ASSUME Inv, NEW n \in Profiles, NEW b \in Buffers, Associate(b, n), input' \subseteq input,
         UNCHANGED <<connection, attempt, generation, uncertain, text, pages, writes, wrong>>
  PROVE  Inv'
<1>1. [profile |-> n, generation |-> Current(n)] \in Associations
  BY ProfileFacts DEF Associations, Current
<1>2. Showing'
  BY <1>1 DEF Inv, Showing, Associate
<1> QED
  BY <1>2, DropKeeps

-----------------------------------------------------------------------------
(* Commands. *)

LEMMA CommandConnectKeeps == ASSUME Inv, NEW n \in Profiles, CommandConnect(n) PROVE Inv'
<1>1. Password(n, FALSE, Current(n), 0, input)
  BY DEF CommandConnect
<1>2. UNCHANGED <<generation, uncertain, buffer, text, pages, writes>>
  BY DEF CommandConnect
<1> QED
  BY <1>1, <1>2, PasswordKeeps

(* A page that names a connection there is, or was. *)
LEMMA ShowKeeps ==
  ASSUME Inv, NEW n \in Profiles, NEW g \in Nat, NEW sql \in Sql, Show(n, g, sql),
         g <= generation, UNCHANGED <<generation, buffer, text>>
  PROVE  Showing'
<1>1. [profile |-> n, generation |-> g, sql |-> sql] \in Views
  BY DEF Views
<1> QED
  BY <1>1 DEF Inv, Showing, Show

LEMMA CommandLoadKeeps == ASSUME Inv, NEW n \in Profiles, CommandLoad(n) PROVE Inv'
<1>1. Load(n) /\ Show(n, Current(n), NoText)
  BY DEF CommandLoad
<1>2. UNCHANGED <<attempt, generation, uncertain, buffer, text, input, writes, wrong>>
  BY DEF CommandLoad
<1>3. Counted' /\ Standing'
  BY <1>1, <1>2, LoadMoves
<1>4. Current(n) \in Nat /\ Current(n) <= generation /\ NoText \in Sql
  BY ProfileFacts DEF Current, Sql
<1>5. Showing'
  BY <1>1, <1>2, <1>4, ShowKeeps
<1>6. generation <= generation' /\ \A m \in Profiles : uncertain'[m] \in {0, uncertain[m]}
  BY <1>2, ProfileFacts
<1>7. Asking'
  BY <1>2, <1>3, <1>6, PromptsStay
<1> QED
  BY <1>2, <1>3, <1>5, <1>7 DEF Inv

LEMMA ChoicesFit == ASSUME NEW n \in Profiles PROVE Choices(n) \in SUBSET Actions
BY DEF Choices, Actions

LEMMA CommandAskKeeps == ASSUME Inv, NEW n \in Profiles, CommandAsk(n) PROVE Inv'
<1>1. UNCHANGED <<connection, attempt, generation, uncertain, buffer, text, pages,
                  writes, wrong>>
  BY DEF CommandAsk
<1>2. CASE AskMode(n) \/ AskAcknowledge(n)
  BY <1>1, <1>2, PickersKeep
<1> DEFINE q == [Prompt("actions", n) EXCEPT !.choices = Choices(n)]
<1>3. CASE Ask(q)
  <2>1. /\ Current(n) \in Nat /\ Current(n) <= generation /\ uncertain[n] \in Nat
    BY ProfileFacts DEF Current
  <2>2. /\ q \in Inputs /\ q.kind # "password" /\ q.asked = q.generation
        /\ q.generation <= generation /\ q.transaction = uncertain[q.profile]
    BY <2>1, ChoicesFit DEF Prompt, Inputs, Kinds, Sql
  <2> HIDE DEF q
  <2> QED
    BY <1>1, <1>3, <2>2, AskKeeps
<1> QED
  BY <1>2, <1>3 DEF CommandAsk

LEMMA CommandQueryKeeps == ASSUME Inv, NEW n \in Profiles, CommandQuery(n) PROVE Inv'
<1>1. PICK b \in Buffers : Associate(b, n)
  BY DEF CommandQuery, NewDocument
<1>2. /\ input' \subseteq input
      /\ UNCHANGED <<connection, attempt, generation, uncertain, text, pages, writes, wrong>>
  BY DEF CommandQuery
<1> QED
  BY <1>1, <1>2, DocumentKeeps

LEMMA CommandSettleKeeps == ASSUME Inv, NEW n \in Profiles, CommandSettle(n) PROVE Inv'
<1>1. Settle(n, uncertain[n])
  BY DEF CommandSettle
<1>2. UNCHANGED <<attempt, generation, uncertain, buffer, text, input, pages, writes>>
  BY DEF CommandSettle
<1>3. Counted' /\ Standing' /\ wrong' = FALSE
  BY <1>1, <1>2, SettleMoves
<1>4. generation <= generation' /\ \A m \in Profiles : uncertain'[m] \in {0, uncertain[m]}
  BY <1>2, ProfileFacts
<1> QED
  BY <1>2, <1>3, <1>4, MoveKeeps

LEMMA CommandDisconnectKeeps ==
  ASSUME Inv, NEW n \in Profiles, CommandDisconnect(n) PROVE Inv'
<1>1. Disconnect(n, input)
  BY DEF CommandDisconnect
<1>2. UNCHANGED <<attempt, generation, uncertain, buffer, text, pages, writes, wrong>>
  BY DEF CommandDisconnect
<1> QED
  BY <1>1, <1>2, DisconnectKeeps

LEMMA CommandKeeps == ASSUME Inv, NEW n \in Profiles, Command(n) PROVE Inv'
BY CommandConnectKeeps, CommandLoadKeeps, CommandAskKeeps, CommandQueryKeeps,
   CommandSettleKeeps, CommandDisconnectKeeps DEF Command

(* What the invariant says of one page.                                    *)
LEMMA PageFacts ==
  ASSUME Inv, NEW p \in pages
  PROVE  /\ p \in Views /\ p.profile \in Profiles /\ p.generation \in Nat /\ p.sql \in Sql
         /\ p.generation <= generation
BY DEF Inv, Showing, Views

LEMMA OnPageKeeps == ASSUME Inv, NEW p \in pages, OnPage(p) PROVE Inv'
BY PageFacts, CommandKeeps DEF OnPage

(* Commands on an SQL buffer or a review, and what happens to either.      *)
LEMMA CommandUseKeeps == ASSUME Inv, NEW b \in Buffers, CommandUse(b) PROVE Inv'
<1> USE DEF CommandUse
<1>1. PICK n \in Profiles : Ask([Prompt("use", n) EXCEPT !.buffer = b])
  OBVIOUS
<1>2. UNCHANGED <<connection, attempt, generation, uncertain, buffer, text, pages,
                  writes, wrong>>
  OBVIOUS
<1> DEFINE q == [Prompt("use", n) EXCEPT !.buffer = b]
<1>3. /\ Current(n) \in Nat /\ Current(n) <= generation /\ uncertain[n] \in Nat
  BY ProfileFacts DEF Current
<1>4. /\ q \in Inputs /\ q.kind # "password" /\ q.asked = q.generation
      /\ q.generation <= generation /\ q.transaction = uncertain[q.profile]
  BY <1>3 DEF Prompt, Inputs, Kinds, Sql
<1>5. Ask(q)
  BY <1>1
<1> HIDE DEF q, CommandUse
<1> QED
  BY <1>2, <1>4, <1>5, AskKeeps

LEMMA RunKeeps == ASSUME Inv, NEW b \in Buffers, Run(b) PROVE Inv'
<1> DEFINE n == buffer[b].profile
           g == buffer[b].generation
<1>1. n \in Profiles /\ g \in Nat /\ text[b] \in Sql
  BY DEF Run, Inv, Showing, Associations, Sql
<1>2. Ready(n) /\ Same(n, g) /\ UNCHANGED <<attempt, generation, buffer, text, input, wrong>>
  BY DEF Run
<1> NoText \in Sql
  BY DEF Sql
<1>3. CASE connection[n].writable
  <2>1. Show(n, g, text[b]) /\ UNCHANGED <<connection, writes, uncertain>>
    BY <1>3 DEF Run
  <2>2. g <= generation
    BY <1>1, <1>2, ProfileFacts DEF Same, Current
  <2> HIDE DEF n, g
  <2>3. Showing'
    BY <1>1, <1>2, <2>1, <2>2, ShowKeeps
  <2> QED
    BY <1>2, <2>1, <2>3, DropKeeps
<1>4. CASE ~connection[n].writable
  <2>1. Execute(n, g, text[b], NoText) /\ UNCHANGED pages
    BY <1>4 DEF Run
  <2>2. uncertain' = uncertain
    BY <1>4, <2>1 DEF Execute
  <2> HIDE DEF n, g
  <2>3. Counted' /\ Standing'
    BY <1>1, <1>2, <1>4, <2>1, ExecuteMoves
  <2>4. generation <= generation' /\ \A m \in Profiles : uncertain'[m] \in {0, uncertain[m]}
    BY <1>1, <1>2, <2>2, ProfileFacts
  <2>5. wrong' = FALSE
    BY <1>2 DEF Inv
  <2> QED
    BY <1>2, <2>1, <2>3, <2>4, <2>5, MoveKeeps
<1> QED
  BY <1>3, <1>4

LEMMA EditTextKeeps == ASSUME Inv, NEW b \in Buffers, EditText(b) PROVE Inv'
<1>1. /\ UNCHANGED <<connection, attempt, generation, uncertain, buffer, input, pages,
                     writes, wrong>>
      /\ text' \in [Buffers -> Texts]
  BY DEF EditText, Inv, Showing
<1>2. Showing'
  BY <1>1 DEF Inv, Showing
<1> QED
  BY <1>1, <1>2, DropKeeps

LEMMA ActivateReviewKeeps == ASSUME Inv, NEW p \in pages, ActivateReview(p) PROVE Inv'
<1> DEFINE n == p.profile
           q == [Prompt("run", n) EXCEPT !.generation = p.generation,
                   !.asked = p.generation, !.sql = p.sql]
<1>1. Ask(q)
  BY DEF ActivateReview
<1>2. UNCHANGED <<connection, attempt, generation, uncertain, buffer, text, pages,
                  writes, wrong>>
  BY DEF ActivateReview
<1>3. Current(n) \in Nat /\ uncertain[n] \in Nat /\ n \in Profiles
  BY PageFacts, ProfileFacts DEF Current
<1>4. /\ q \in Inputs /\ q.kind # "password" /\ q.asked = q.generation
      /\ q.generation <= generation /\ q.transaction = uncertain[q.profile]
  BY <1>3, PageFacts DEF Prompt, Inputs, Kinds, Sql
<1> HIDE DEF q
<1> QED
  BY <1>1, <1>2, <1>4, AskKeeps

LEMMA ForgetPageKeeps == ASSUME Inv, NEW p \in pages, ForgetPage(p) PROVE Inv'
<1>1. /\ UNCHANGED <<connection, attempt, generation, uncertain, buffer, text, input,
                     writes, wrong>>
      /\ pages' \subseteq pages
  BY DEF ForgetPage
<1>2. Showing'
  BY <1>1 DEF Inv, Showing
<1> QED
  BY <1>1, <1>2, DropKeeps

-----------------------------------------------------------------------------
(* Answers. *)

(* What the invariant says of the prompt that is answered: it is the only  *)
(* one, so that none is left.                                              *)
LEMMA PromptFacts ==
  ASSUME Inv, NEW p \in input
  PROVE  /\ p \in Inputs /\ p.profile \in Profiles /\ p.generation \in Nat
         /\ p.asked = p.generation /\ p.generation <= generation
         /\ uncertain[p.profile] \in {0, p.transaction}
         /\ p.kind = "password" /\ p.write => p.enabled # 0 /\ p.enabled = p.generation
         /\ p.write \in BOOLEAN /\ p.enabled \in Nat /\ p.sql \in Sql
         /\ input \ {p} = {} /\ input \ {p} \in SUBSET input
<1>1. About(p) /\ input \ {p} = {}
  BY DEF Inv, Asking
<1>2. p \in Inputs
  BY <1>1 DEF About
<1> QED
  BY <1>1, <1>2 DEF About, Inputs

LEMMA RefuseKeeps == ASSUME Inv, NEW p \in input, Refuse(p) PROVE Inv'
<1>1. /\ UNCHANGED <<connection, attempt, generation, uncertain, buffer, text, pages,
                     writes, wrong>>
      /\ input' \subseteq input
  BY DEF Refuse
<1>2. Showing'
  BY <1>1 DEF Inv, Showing
<1> QED
  BY <1>1, <1>2, DropKeeps

LEMMA PasswordAnswerKeeps == ASSUME Inv, NEW p \in input, PasswordAnswer(p) PROVE Inv'
<1> DEFINE n == p.profile
<1>1. /\ p.kind = "password" /\ Current(n) = p.generation /\ input' = input \ {p}
      /\ UNCHANGED <<generation, uncertain, buffer, text, pages, writes>>
      /\ Connect(n, p.write, p.asked, p.enabled)
  BY DEF PasswordAnswer
<1>2. /\ n \in Profiles /\ p.write \in BOOLEAN /\ p.enabled \in Nat /\ p.asked = Current(n)
      /\ p.write => p.enabled # 0 /\ p.enabled = Current(n)
  BY <1>1, PromptFacts
<1>3. Connect(n, p.write, Current(n), p.enabled)
  BY <1>1, <1>2
<1> HIDE DEF n
<1>4. Counted' /\ Standing' /\ wrong' = FALSE
  BY <1>1, <1>2, <1>3, ConnectMoves
<1>5. generation <= generation' /\ \A m \in Profiles : uncertain'[m] \in {0, uncertain[m]}
  BY <1>1, <1>2, ProfileFacts
<1> QED
  BY <1>1, <1>4, <1>5, MoveKeeps

LEMMA UseAnswerKeeps == ASSUME Inv, NEW p \in input, UseAnswer(p) PROVE Inv'
<1>1. /\ Associate(p.buffer, p.profile) /\ input' \subseteq input
      /\ UNCHANGED <<connection, attempt, generation, uncertain, text, pages, writes, wrong>>
  BY DEF UseAnswer
<1>2. p.profile \in Profiles
  BY PromptFacts
<1>3. [profile |-> p.profile, generation |-> Current(p.profile)] \in Associations
  BY <1>2, ProfileFacts DEF Associations, Current
<1>4. Showing'
  BY <1>1, <1>3 DEF Inv, Showing, Associate
<1> QED
  BY <1>1, <1>4, DropKeeps

LEMMA ActionAnswerKeeps == ASSUME Inv, NEW p \in input, ActionAnswer(p) PROVE Inv'
<1> DEFINE n == p.profile
           old == input \ {p}
<1>1. n \in Profiles /\ old \in SUBSET input /\ p.asked = p.generation
  BY PromptFacts
<1>2. /\ IF p.generation # 0 THEN Same(n, p.generation) ELSE ~Live(n)
      /\ UNCHANGED <<generation, uncertain, text, pages, writes>>
  BY DEF ActionAnswer
<1>3. p.asked = Current(n)
  BY <1>1, <1>2, ProfileFacts DEF Same, Sound, Live, Current
<1>4. generation <= generation' /\ \A m \in Profiles : uncertain'[m] \in {0, uncertain[m]}
  BY <1>1, <1>2, ProfileFacts
<1>5. CASE NewDocument(n) /\ input' = old /\ UNCHANGED <<connection, attempt, wrong>>
  <2>1. PICK b \in Buffers : Associate(b, n)
    BY <1>5 DEF NewDocument
  <2> HIDE DEF n, old
  <2> QED
    BY <1>1, <1>2, <1>5, <2>1, DocumentKeeps
<1>6. CASE AskMode(n) /\ UNCHANGED <<buffer, connection, attempt, wrong>>
  BY <1>1, <1>2, <1>6, PickersKeep
<1>7. CASE Settle(n, p.transaction) /\ input' = old /\ UNCHANGED <<buffer, attempt>>
  <2>1. uncertain[n] # 0
    BY <1>1, <1>7, ProfileFacts DEF Settle, Pending, Sound
  <2>2. Settle(n, uncertain[n])
    BY <2>1, <1>7, PromptFacts
  <2>3. Counted' /\ Standing' /\ wrong' = FALSE
    BY <1>1, <1>2, <1>7, <2>2, SettleMoves
  <2> HIDE DEF n, old
  <2> QED
    BY <1>1, <1>2, <1>4, <1>7, <2>3, MoveKeeps
<1>8. CASE Disconnect(n, old) /\ UNCHANGED <<buffer, attempt, wrong>>
  BY <1>1, <1>2, <1>8, DisconnectKeeps
<1>9. CASE Password(n, FALSE, p.asked, 0, old) /\ UNCHANGED buffer
  <2>1. Password(n, FALSE, Current(n), 0, old)
    BY <1>3, <1>9
  <2> HIDE DEF n, old
  <2> QED
    BY <1>1, <1>2, <1>9, <2>1, PasswordKeeps
<1>10. CASE AskAcknowledge(n) /\ UNCHANGED <<buffer, connection, attempt, wrong>>
  BY <1>1, <1>2, <1>10, PickersKeep
<1> QED
  BY <1>5, <1>6, <1>7, <1>8, <1>9, <1>10 DEF ActionAnswer

LEMMA ModeChoiceAnswerKeeps == ASSUME Inv, NEW p \in input, ModeChoiceAnswer(p) PROVE Inv'
<1> DEFINE n == p.profile
<1>1. /\ n \in Profiles /\ input \ {p} \in SUBSET input /\ p.asked = p.generation
      /\ p.generation \in Nat /\ p.generation <= generation
  BY PromptFacts
<1>2. /\ Same(n, p.generation)
      /\ UNCHANGED <<generation, uncertain, buffer, text, pages, writes>>
  BY DEF ModeChoiceAnswer
<1>3. p.asked = Current(n)
  BY <1>1, <1>2 DEF Same
<1>4. CASE connection[n].writable
  <2>1. Password(n, FALSE, Current(n), 0, input \ {p})
    BY <1>3, <1>4 DEF ModeChoiceAnswer
  <2> HIDE DEF n
  <2> QED
    BY <1>1, <1>2, <2>1, PasswordKeeps
<1>5. CASE ~connection[n].writable
  <2> DEFINE q == [Prompt("mode", n) EXCEPT !.generation = p.generation,
                     !.asked = p.asked, !.write = TRUE]
  <2>1. Ask(q) /\ UNCHANGED <<connection, attempt, wrong>>
    BY <1>5 DEF ModeChoiceAnswer
  <2>2. uncertain[n] \in Nat
    BY <1>1, ProfileFacts
  <2>3. /\ q \in Inputs /\ q.kind # "password" /\ q.asked = q.generation
        /\ q.generation <= generation /\ q.transaction = uncertain[q.profile]
    BY <1>1, <2>2 DEF Prompt, Inputs, Kinds, Sql
  <2> HIDE DEF q, n
  <2> QED
    BY <1>2, <2>1, <2>3, AskKeeps
<1> QED
  BY <1>4, <1>5

LEMMA ModeAnswerKeeps == ASSUME Inv, NEW p \in input, ModeAnswer(p) PROVE Inv'
<1> DEFINE n == p.profile
<1>1. /\ n \in Profiles /\ input \ {p} \in SUBSET input /\ p.asked = p.generation
      /\ p.generation \in Nat /\ p.write \in BOOLEAN
  BY PromptFacts
<1>2. /\ Same(n, p.generation)
      /\ UNCHANGED <<generation, uncertain, buffer, text, pages, writes>>
      /\ Password(n, p.write, p.asked, p.generation, input \ {p})
  BY DEF ModeAnswer
<1>3. p.asked = Current(n) /\ p.generation = Current(n) /\ p.generation # 0
  BY <1>1, <1>2, ProfileFacts DEF Same, Sound, Live, Current
<1>4. Password(n, p.write, Current(n), p.generation, input \ {p})
  BY <1>2, <1>3
<1> HIDE DEF n
<1> QED
  BY <1>1, <1>2, <1>3, <1>4, PasswordKeeps

(* The only prompt is gone when a write begins, so that none is about an   *)
(* earlier write.                                                          *)
LEMMA RunAnswerKeeps == ASSUME Inv, NEW p \in input, RunAnswer(p) PROVE Inv'
<1> DEFINE n == p.profile
<1>1. /\ Execute(n, p.generation, p.sql, p.sql) /\ input' = input \ {p}
      /\ wrong' = (wrong \/ p.asked # Current(n))
      /\ UNCHANGED <<attempt, generation, buffer, text, pages>>
  BY DEF RunAnswer
<1>2. n \in Profiles /\ p.sql \in Sql /\ p.asked = p.generation /\ input \ {p} = {}
  BY PromptFacts
<1>3. Counted' /\ Standing'
  BY <1>1, <1>2, ExecuteMoves
<1>4. p.asked = Current(n)
  BY <1>1, <1>2 DEF Execute, Same
<1>5. wrong' = FALSE
  BY <1>1, <1>4 DEF Inv
<1>6. Asking'
  BY <1>1, <1>2 DEF Asking
<1>7. generation <= generation'
  BY <1>1, <1>2, ProfileFacts
<1>8. Showing'
  BY <1>1, <1>3, <1>7, ShowingStays
<1> QED
  BY <1>3, <1>5, <1>6, <1>8 DEF Inv

LEMMA AcknowledgeAnswerKeeps ==
  ASSUME Inv, NEW p \in input, AcknowledgeAnswer(p) PROVE Inv'
<1> DEFINE n == p.profile
           c == connection[n]
<1>1. /\ ~Pending(n) /\ ~Busy(n) /\ input' \subseteq input
      /\ wrong' = (wrong \/ uncertain[n] \notin {0, p.transaction})
      /\ uncertain' = [uncertain EXCEPT ![n] = 0]
      /\ UNCHANGED <<connection, attempt, generation, buffer, text, pages, writes>>
  BY DEF AcknowledgeAnswer
<1>2. n \in Profiles /\ uncertain[n] \in {0, p.transaction}
  BY PromptFacts
<1>3. wrong' = FALSE
  BY <1>1, <1>2 DEF Inv
<1>4. Counted'
  BY <1>1 DEF Inv, Counted
<1>5. Sound(c, attempt[n], 0)
  BY <1>1, <1>2, ProfileFacts DEF Sound, Pending, Busy
<1>6. connection' = [connection EXCEPT ![n] = c] /\ attempt' = [attempt EXCEPT ![n] = attempt[n]]
  BY <1>1 DEF Inv, Standing
<1>7. /\ 0 \in 0 .. writes' /\ generation <= generation' /\ writes <= writes'
      /\ c.generation = Current(n)
  BY <1>1, <1>2, ProfileFacts DEF Current
<1>8. \A m \in Profiles : uncertain'[m] \in {0, uncertain[m]}
  BY <1>1 DEF Inv, Standing
<1> HIDE DEF c, n
<1>9. Standing'
  BY <1>1, <1>2, <1>4, <1>5, <1>6, <1>7, ProfileMoves
<1> QED
  BY <1>1, <1>3, <1>4, <1>7, <1>8, <1>9, MoveKeeps

LEMMA DisconnectAnswerKeeps ==
  ASSUME Inv, NEW p \in input, DisconnectAnswer(p) PROVE Inv'
<1> DEFINE n == p.profile
<1>1. /\ RollBack(n) /\ input' \subseteq input
      /\ wrong' = (wrong \/ uncertain[n] \notin {0, p.transaction})
      /\ UNCHANGED <<attempt, generation, buffer, text, pages, writes>>
  BY DEF DisconnectAnswer
<1>2. n \in Profiles /\ uncertain[n] \in {0, p.transaction}
  BY PromptFacts
<1>3. wrong' = FALSE
  BY <1>1, <1>2 DEF Inv
<1>4. /\ connection' = [connection EXCEPT ![n] = None]
      /\ uncertain' = uncertain \/ uncertain' = [uncertain EXCEPT ![n] = 0]
  BY <1>1 DEF RollBack
<1> HIDE DEF n
<1>5. Counted' /\ Standing' /\ \A m \in Profiles : uncertain'[m] \in {0, uncertain[m]}
  BY <1>1, <1>2, <1>4, ConnectionEnds
<1>6. generation <= generation'
  BY <1>1, <1>2, ProfileFacts
<1> QED
  BY <1>1, <1>3, <1>5, <1>6, MoveKeeps

LEMMA AnswerKeeps == ASSUME Inv, NEW p \in input, Answer(p) PROVE Inv'
BY PasswordAnswerKeeps, UseAnswerKeeps, ActionAnswerKeeps, ModeChoiceAnswerKeeps,
   ModeAnswerKeeps, RunAnswerKeeps, AcknowledgeAnswerKeeps, DisconnectAnswerKeeps,
   RefuseKeeps DEF Answer

-----------------------------------------------------------------------------
(* Completions, and transactions that end by themselves. *)

LEMMA ConnectedKeeps == ASSUME Inv, NEW n \in Profiles, Connected(n) PROVE Inv'
<1>1. /\ attempt[n].open /\ generation < MaxGeneration /\ generation' = generation + 1
      /\ attempt' = [attempt EXCEPT ![n] = NoAttempt]
      /\ UNCHANGED <<uncertain, buffer, text, input, pages, writes, wrong>>
  BY DEF Connected
<1>2. PICK work \in {"read", "none"} :
        connection' = [connection EXCEPT ![n] = [None EXCEPT !.open = TRUE,
          !.generation = generation', !.writable = attempt[n].write, !.work = work,
          !.enabled = attempt[n].enabled, !.replaced = attempt[n].replaced]]
  BY DEF Connected
<1> DEFINE c == [None EXCEPT !.open = TRUE,
          !.generation = generation', !.writable = attempt[n].write, !.work = work,
          !.enabled = attempt[n].enabled, !.replaced = attempt[n].replaced]
<1>3. /\ attempt[n] \in Attempts /\ generation \in Nat /\ uncertain[n] \in 0 .. writes
      /\ Sound(connection[n], attempt[n], uncertain[n]) /\ writes \in Nat
  BY ProfileFacts
<1>4. Counted'
  BY <1>1, <1>3, BoundAssumption DEF Inv, Counted
<1>5. generation' \in Nat /\ generation' # 0 /\ generation < generation'
  BY <1>1, <1>3
<1>6. /\ c \in Connections /\ c.open /\ c.generation = generation' /\ ~c.pending
      /\ c.work \in {"read", "none"} /\ c.writable = attempt[n].write
      /\ c.enabled = attempt[n].enabled /\ c.replaced = attempt[n].replaced
  BY <1>2, <1>3, <1>5 DEF Connections, Attempts, None, Works, Sql
<1>7. NoAttempt \in Attempts /\ ~NoAttempt.open
  BY DEF NoAttempt, Attempts
<1>8. uncertain[n] = 0
  BY <1>1, <1>3 DEF Sound
<1>9. Sound(c, NoAttempt, uncertain[n])
  BY <1>1, <1>3, <1>5, <1>6, <1>7, <1>8 DEF Sound, Enabled
<1>10. uncertain' = [uncertain EXCEPT ![n] = uncertain[n]]
  BY <1>1 DEF Inv, Standing
<1>11. connection' = [connection EXCEPT ![n] = c]
  BY <1>2
<1>12. generation <= generation' /\ writes <= writes' /\ uncertain[n] \in 0 .. writes'
  BY <1>1, <1>3, <1>5
<1> HIDE DEF c
<1>13. Standing'
  BY <1>1, <1>4, <1>5, <1>6, <1>9, <1>10, <1>11, <1>12, ProfileMoves
<1>14. wrong' = FALSE
  BY <1>1 DEF Inv
<1>15. \A m \in Profiles : uncertain'[m] \in {0, uncertain[m]}
  BY <1>1
<1> QED
  BY <1>1, <1>4, <1>12, <1>13, <1>14, <1>15, MoveKeeps

LEMMA ConnectFailedKeeps == ASSUME Inv, NEW n \in Profiles, ConnectFailed(n) PROVE Inv'
<1>1. /\ attempt' = [attempt EXCEPT ![n] = NoAttempt]
      /\ UNCHANGED <<connection, generation, uncertain, buffer, text, input, pages,
                     writes, wrong>>
  BY DEF ConnectFailed
<1>2. NoAttempt \in Attempts /\ ~NoAttempt.open
  BY DEF NoAttempt, Attempts
<1>3. Sound(connection[n], NoAttempt, uncertain[n])
  BY <1>2, ProfileFacts DEF Sound
<1>4. /\ connection' = [connection EXCEPT ![n] = connection[n]]
      /\ uncertain' = [uncertain EXCEPT ![n] = uncertain[n]]
  BY <1>1 DEF Inv, Standing
<1>5. Counted'
  BY <1>1 DEF Inv, Counted
<1>6. /\ uncertain[n] \in 0 .. writes' /\ generation <= generation' /\ writes <= writes'
      /\ connection[n].generation = Current(n)
  BY <1>1, ProfileFacts DEF Current
<1>7. Standing'
  BY <1>1, <1>3, <1>4, <1>5, <1>6, ProfileMoves
<1>8. wrong' = FALSE
  BY <1>1 DEF Inv
<1>9. \A m \in Profiles : uncertain'[m] \in {0, uncertain[m]}
  BY <1>1
<1> QED
  BY <1>1, <1>5, <1>6, <1>7, <1>8, <1>9, MoveKeeps

LEMMA SucceededKeeps == ASSUME Inv, NEW n \in Profiles, Succeeded(n) PROVE Inv'
<1> DEFINE w == connection[n].work = "write"
           s == connection[n].work = "settle"
           c == [connection[n] EXCEPT !.work = "none", !.pending = w]
           u == IF s THEN 0 ELSE uncertain[n]
<1>1. /\ Busy(n) /\ UNCHANGED <<attempt, generation, buffer, text, input, pages, writes, wrong>>
      /\ connection' = [connection EXCEPT ![n].work = "none", ![n].pending = w]
      /\ uncertain' = IF s THEN [uncertain EXCEPT ![n] = 0] ELSE uncertain
  BY DEF Succeeded
<1>2. /\ connection' = [connection EXCEPT ![n] = c] /\ uncertain' = [uncertain EXCEPT ![n] = u]
  BY <1>1 DEF Inv, Standing, Connections
<1>3. /\ c \in Connections /\ c.work = "none" /\ c.pending = w /\ c.generation = Current(n)
      /\ \A f \in {"open", "generation", "writable", "sql", "reviewed", "enabled", "replaced"} :
           c[f] = connection[n][f]
  BY ProfileFacts DEF Connections, Works, Current
<1>4. Live(n)
  BY <1>1, ProfileFacts DEF Sound, Busy, Live
<1>5. w => ~s
  OBVIOUS
<1>6. w => uncertain[n] # 0 /\ connection[n].sql = connection[n].reviewed
  BY ProfileFacts DEF Sound
<1>7. u # 0 => uncertain[n] # 0
  OBVIOUS
<1>8. w => u # 0
  BY <1>5, <1>6
<1>9. u \in {0, uncertain[n]}
  OBVIOUS
<1> HIDE DEF u, w
<1>10. Sound(c, attempt[n], u)
  BY <1>3, <1>4, <1>6, <1>7, <1>8, ProfileFacts DEF Sound, Enabled, Live
<1>11. Counted'
  BY <1>1 DEF Inv, Counted
<1>12. u \in 0 .. writes' /\ writes <= writes' /\ generation <= generation'
  BY <1>1, <1>9, ProfileFacts
<1> HIDE DEF c
<1>13. Standing'
  BY <1>1, <1>2, <1>3, <1>4, <1>10, <1>11, <1>12, ConnectionWorks
<1>14. \A m \in Profiles : uncertain'[m] \in {0, uncertain[m]}
  BY <1>2, <1>9 DEF Inv, Standing
<1>15. wrong' = FALSE
  BY <1>1 DEF Inv
<1> QED
  BY <1>1, <1>11, <1>12, <1>13, <1>14, <1>15, MoveKeeps

LEMMA FailedKeeps == ASSUME Inv, NEW n \in Profiles, Failed(n) PROVE Inv'
<1>1. /\ connection' = [connection EXCEPT ![n] = None]
      /\ uncertain' = uncertain \/ uncertain' = [uncertain EXCEPT ![n] = 0]
      /\ UNCHANGED <<attempt, generation, buffer, text, input, pages, writes, wrong>>
  BY DEF Failed
<1>2. Counted' /\ Standing' /\ \A m \in Profiles : uncertain'[m] \in {0, uncertain[m]}
  BY <1>1, ConnectionEnds
<1>3. wrong' = FALSE
  BY <1>1 DEF Inv
<1>4. generation <= generation'
  BY <1>1, ProfileFacts
<1> QED
  BY <1>1, <1>2, <1>3, <1>4, MoveKeeps

LEMMA ExpireKeeps == ASSUME Inv, NEW n \in Profiles, Expire(n) PROVE Inv'
<1>1. /\ connection' = [connection EXCEPT ![n] = None]
      /\ uncertain' = uncertain \/ uncertain' = [uncertain EXCEPT ![n] = 0]
      /\ UNCHANGED <<attempt, generation, buffer, text, input, pages, writes, wrong>>
  BY DEF Expire, RollBack
<1>2. Counted' /\ Standing' /\ \A m \in Profiles : uncertain'[m] \in {0, uncertain[m]}
  BY <1>1, ConnectionEnds
<1>3. wrong' = FALSE
  BY <1>1 DEF Inv
<1>4. generation <= generation'
  BY <1>1, ProfileFacts
<1> QED
  BY <1>1, <1>2, <1>3, <1>4, MoveKeeps

-----------------------------------------------------------------------------
(* Theorems. *)

LEMMA NextInv == Inv /\ [Next]_vars => Inv'
<1> SUFFICES ASSUME Inv, [Next]_vars PROVE Inv'
  OBVIOUS
<1>1. CASE \E n \in Profiles : \/ Command(n) \/ Connected(n) \/ ConnectFailed(n)
                               \/ Succeeded(n) \/ Failed(n) \/ Expire(n)
  BY <1>1, CommandKeeps, ConnectedKeeps, ConnectFailedKeeps, SucceededKeeps, FailedKeeps,
     ExpireKeeps
<1>2. CASE \E b \in Buffers : CommandUse(b) \/ Run(b) \/ EditText(b)
  BY <1>2, CommandUseKeeps, RunKeeps, EditTextKeeps
<1>3. CASE \E p \in pages : OnPage(p) \/ ActivateReview(p) \/ ForgetPage(p)
  BY <1>3, OnPageKeeps, ActivateReviewKeeps, ForgetPageKeeps
<1>4. CASE \E p \in input : Answer(p)
  BY <1>4, AnswerKeeps
<1>5. CASE UNCHANGED vars
  BY <1>5 DEF vars, Inv, Counted, Standing, Asking, About, Showing
<1> QED
  BY <1>1, <1>2, <1>3, <1>4, <1>5 DEF Next

(* The invariant holds in every reachable state.                           *)
THEOREM Invariance == Spec => []Inv
BY InitInv, NextInv, PTL DEF Spec

(* Whatever the user answers takes effect on the connection, the write and *)
(* the transaction that the prompt was about.                              *)
THEOREM AnswersAreFenced == Spec => []Fenced
<1>1. Inv => Fenced
  BY DEF Inv, Fenced
<1> QED
  BY <1>1, Invariance, PTL

(* A connection is writable only after the user confirmed that on the      *)
(* read-only connection it replaced.                                       *)
THEOREM WritingIsConfirmed == Spec => []WritableConfirmed
<1>1. Inv => WritableConfirmed
  BY DEF Inv, Standing, Sound, Enabled, WritableConfirmed
<1> QED
  BY <1>1, Invariance, PTL

(* What is written is what was reviewed, and leaves its profile uncertain  *)
(* until it is settled or acknowledged.                                    *)
THEOREM WritesAreReviewed == Spec => []WritesReviewed
<1>1. ASSUME Inv PROVE TypeOK
  <2>1. \A n \in Profiles : /\ Current(n) <= generation /\ (Live(n) <=> Current(n) # 0)
                            /\ (Pending(n) \/ Busy(n) => Live(n))
    BY <1>1, ProfileFacts DEF Sound, Current, Live, Pending, Busy
  <2>2. \A n, m \in Profiles : n # m /\ Live(n) => Current(n) # Current(m)
    BY <1>1, <2>1 DEF Inv, Standing, Current
  <2>3. \A p \in input \cup pages : p.generation <= generation
    BY <1>1, PromptFacts, PageFacts
  <2> QED
    BY <1>1, <2>1, <2>2, <2>3 DEF Inv, Counted, Standing, Showing, TypeOK
<1>2. ASSUME Inv PROVE UncertainRests
  BY <1>2 DEF Inv, Standing, Sound, UncertainRests
<1>3. ASSUME Inv, NEW n \in Profiles, connection[n].work = "write" \/ Pending(n)
      PROVE  connection[n].sql = connection[n].reviewed /\ uncertain[n] # 0
  BY <1>3, ProfileFacts DEF Sound, Pending
<1>4. Inv => WritesReviewed
  BY <1>1, <1>2, <1>3 DEF WritesReviewed
<1> QED
  BY <1>4, Invariance, PTL

=============================================================================
