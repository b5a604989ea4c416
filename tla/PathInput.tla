------------------------------ MODULE PathInput ------------------------------
(***************************************************************************)
(* Saved profiles and the prompts that add them (app/input.rs): the choice *)
(* of a backend, the PostgreSQL form, and the SQLite form, whose path is   *)
(* completed by a worker outside the application's task (paths.rs).  The   *)
(* stored document is validated when the plugin starts (profiles.rs).      *)
(*                                                                         *)
(* The application is one task: what it does between two messages is one   *)
(* step.  Path workers block in the file system, where nothing can stop    *)
(* them, and share their slots with the validation of forms.               *)
(***************************************************************************)
EXTENDS Integers, Sequences, FiniteSets, SequencesExt

CONSTANTS
  Names,        \* names of profiles
  Surfaces,     \* the identities the host gives to prompts
  MaxProfiles,  \* the limit of 32
  Slots,        \* path_slots
  MaxPrompts    \* bound: prompts opened

ASSUME LimitAssumption == MaxProfiles \in Nat /\ Slots \in Nat /\ MaxPrompts \in Nat

VARIABLES
  profiles,    \* Saved::profiles in memory: their names
  document,    \* the document of the host's state
  running,     \* the plugin runs
  input,       \* App::input: the prompts an answer may belong to
  offered,     \* the prompts that the user can still answer
  epoch,       \* App::input_epoch
  pending,     \* App::path_pending
  waiting,     \* the task that waits for a path worker, at most eight seconds
  blocking,    \* path workers that hold a slot
  validating,  \* validations that hold a slot
  done,        \* the path completion in the channel
  newer        \* the user has opened a prompt since the path was submitted

stored == <<profiles, document, running>>
prompts == <<input, offered, epoch, newer>>
paths == <<pending, waiting, blocking, done>>
vars == <<profiles, document, running, input, offered, epoch, pending, waiting,
          blocking, validating, done, newer>>

Kinds == {"backend", "sqlite", "path", "postgres", "other"}
NoName == "none"
Prompts == [surface : Surfaces, kind : Kinds, name : Names \cup {NoName}]
Results == {"file", "choices", "error"}
Waits == [name : Names, epoch : Nat, result : Results \cup {"running"}]

Init ==
  /\ profiles = << >> /\ document = << >> /\ running = TRUE
  /\ input = {} /\ offered = {} /\ epoch = 0
  /\ pending = FALSE /\ waiting = {} /\ blocking = {}
  /\ validating = 0 /\ done = {} /\ newer = FALSE

(* Bound: the host keeps no more prompts than there are identities.        *)
Room(gone) == epoch < MaxPrompts /\ ~(Surfaces \subseteq offered \ gone)

\* Mutant: a prompt does not begin a new epoch.
PromptSameEpoch(kind, name, gone) ==
  /\ epoch' = IF pending THEN epoch ELSE epoch + 1
  /\ Room(gone)
  /\ LET s == CHOOSE s \in Surfaces : s \notin offered \ gone IN
       /\ input' = {[surface |-> s, kind |-> kind, name |-> name]}
       /\ offered' = (offered \ gone) \cup {s}
  /\ newer' = TRUE

(* form, confirm and pick: the new prompt replaces the earlier one, which  *)
(* the user may still be about to answer.                                  *)
Prompt(kind, name, gone) ==
  /\ epoch' = epoch + 1
  /\ Room(gone)
  /\ LET s == CHOOSE s \in Surfaces : s \notin offered \ gone IN
       /\ input' = {[surface |-> s, kind |-> kind, name |-> name]}
       /\ offered' = (offered \ gone) \cup {s}
  /\ newer' = TRUE

-----------------------------------------------------------------------------
(* Commands and answers.                                                   *)

(* connect-new, and any other command that asks something. *)
Open ==
  /\ running
  /\ Prompt("backend", NoName, {}) \/ Prompt("other", NoName, {})
  /\ UNCHANGED <<stored, paths, validating>>

(* The user's answer removes the prompt; one that is no longer the current *)
(* prompt has expired.                                                     *)
Answered(p) ==
  /\ running /\ p.surface \in offered /\ p \in input

Expired(s) ==
  /\ running /\ s \in offered /\ \A p \in input : p.surface # s
  /\ offered' = offered \ {s}
  /\ UNCHANGED <<stored, input, epoch, newer, paths, validating>>

Dismiss(p) ==
  /\ Answered(p)
  /\ input' = input \ {p} /\ offered' = offered \ {p.surface}
  /\ UNCHANGED <<stored, epoch, newer, paths, validating>>

ChooseBackend(p) ==
  /\ Answered(p) /\ p.kind = "backend"
  /\ \E kind \in {"sqlite", "postgres"} : Prompt(kind, NoName, {p.surface})
  /\ UNCHANGED <<stored, paths, validating>>

(* save: a refused document is undone in memory. *)
Saved(names) ==
  \/ profiles' = names /\ document' = names
  \/ UNCHANGED <<profiles, document>>

Addable(name) == Len(profiles) < MaxProfiles /\ name \notin ToSet(profiles)

(* The PostgreSQL form: the profile is saved, and its password asked for   *)
(* unless it comes from the environment.                                   *)
AddPostgres(p, name) ==
  /\ Answered(p) /\ p.kind = "postgres"
  /\ IF Addable(name) THEN Saved(Append(profiles, name)) ELSE UNCHANGED <<profiles, document>>
  /\ \/ profiles' # profiles /\ Prompt("other", NoName, {p.surface})
     \/ /\ input' = input \ {p} /\ offered' = offered \ {p.surface}
        /\ UNCHANGED <<epoch, newer>>
  /\ UNCHANGED <<running, paths, validating>>

Free == Cardinality(blocking) + validating < Slots

\* Mutant: a second path may be submitted while one is completed.
DeferAgain(p, name) ==
  /\ Answered(p) /\ p.kind \in {"sqlite", "path"}
  /\ name = p.name \/ p.name = NoName
  /\ input' = input \ {p} /\ offered' = offered \ {p.surface}
  /\ IF name \notin ToSet(profiles) /\ Free
     THEN /\ pending' = TRUE /\ newer' = FALSE
          /\ waiting' = waiting \cup {[name |-> name, epoch |-> epoch, result |-> "running"]}
          /\ blocking' = blocking \cup {epoch}
     ELSE UNCHANGED <<pending, waiting, blocking, newer>>
  /\ UNCHANGED <<stored, epoch, validating, done>>

(* defer_path: the name is checked and a worker resolves the path.         *)
Defer(p, name) ==
  /\ Answered(p) /\ p.kind \in {"sqlite", "path"}
  /\ name = p.name \/ p.name = NoName
  /\ IF pending
     THEN UNCHANGED <<input, offered, pending, waiting, blocking, newer>>
     ELSE /\ input' = input \ {p} /\ offered' = offered \ {p.surface}
          /\ IF name \notin ToSet(profiles) /\ Free
             THEN /\ pending' = TRUE /\ newer' = FALSE
                  /\ waiting' = {[name |-> name, epoch |-> epoch, result |-> "running"]}
                  /\ blocking' = blocking \cup {epoch}
             ELSE UNCHANGED <<pending, waiting, blocking, newer>>
  /\ UNCHANGED <<stored, epoch, validating, done>>

-----------------------------------------------------------------------------
(* Workers.                                                                *)

(* The worker of the path submitted at epoch e returns: its slot is free.  *)
Resolve(e, r) ==
  /\ e \in blocking
  /\ blocking' = blocking \ {e}
  /\ waiting' = {IF w.epoch = e THEN [w EXCEPT !.result = r] ELSE w : w \in waiting}
  /\ UNCHANGED <<stored, prompts, pending, validating, done>>

\* Mutant: a worker that outlives its eight seconds is not reported.
ReportFinished ==
  /\ done = {} /\ \E w \in waiting : w.result # "running" /\ done' = {w}
  /\ waiting' = {}
  /\ UNCHANGED <<stored, prompts, pending, blocking, validating>>

(* The waiting task reports the result, or an error after its timeout.     *)
Report ==
  /\ done = {} /\ \E w \in waiting :
       /\ done' = {IF w.result = "running" THEN [w EXCEPT !.result = "error"] ELSE w}
       /\ waiting' = waiting \ {w}
  /\ UNCHANGED <<stored, prompts, pending, blocking, validating>>

(* validate_form takes a slot, or answers "unavailable" at once.           *)
Validate ==
  /\ running /\ input # {} /\ Free
  /\ validating' = validating + 1
  /\ UNCHANGED <<stored, prompts, paths>>

ValidateEnds ==
  /\ validating > 0
  /\ validating' = validating - 1
  /\ UNCHANGED <<stored, prompts, paths>>

-----------------------------------------------------------------------------
(* Completions, and the end of the plugin.                                 *)

\* Mutant: the epoch of a completion is not compared.
CurrentAlways(w) == TRUE

Current(w) == w.epoch = epoch

(* complete_path and sqlite_destination: choices are offered, a file is    *)
(* saved, or the answer is an error, of the path, the limit or the host.   *)
CompletePath ==
  /\ running
  /\ \E w \in done :
       /\ done' = {} /\ pending' = FALSE
       /\ \/ /\ Current(w) /\ w.result = "choices"
             /\ Prompt("path", w.name, {})
             /\ UNCHANGED <<profiles, document>>
          \/ /\ Current(w) /\ w.result = "file" /\ Len(profiles) < MaxProfiles
             /\ Saved(Append(profiles, w.name))
             /\ UNCHANGED prompts
          \/ UNCHANGED <<profiles, document, prompts>>
  /\ UNCHANGED <<running, waiting, blocking, validating>>

(* The plugin ends, with whatever it was doing, and starts again.          *)
End ==
  /\ running
  /\ running' = FALSE
  /\ profiles' = << >> /\ input' = {} /\ offered' = {} /\ newer' = FALSE
  /\ pending' = FALSE /\ waiting' = {} /\ blocking' = {} /\ validating' = 0 /\ done' = {}
  /\ UNCHANGED <<document, epoch>>

(* Saved::validate. *)
Valid(names) == Len(names) <= MaxProfiles /\ IsInjective(names)

Start ==
  /\ ~running /\ Valid(document)
  /\ running' = TRUE /\ profiles' = document
  /\ UNCHANGED <<document, prompts, paths, validating>>

Next ==
  \/ Open
  \/ \E s \in offered : Expired(s)
  \/ \E p \in input : Dismiss(p)
  \/ \E p \in input : ChooseBackend(p)
  \/ \E p \in input, name \in Names : AddPostgres(p, name)
  \/ \E p \in input, name \in Names : Defer(p, name)
  \/ \E e \in blocking, r \in Results : Resolve(e, r)
  \/ Report \/ Validate \/ ValidateEnds \/ CompletePath
  \/ End \/ Start

(* The waiting task has a timeout, and the application takes completions;  *)
(* nothing is assumed of workers in the file system.                       *)
Spec == Init /\ [][Next]_vars /\ WF_vars(Report) /\ WF_vars(CompletePath)

-----------------------------------------------------------------------------
(* Properties.                                                             *)

(* The types; at most one prompt and one completion are outstanding.       *)
TypeOK ==
  /\ profiles \in Seq(Names) /\ document \in Seq(Names) /\ running \in BOOLEAN
  /\ input \subseteq Prompts /\ Cardinality(input) <= 1
  /\ offered \subseteq Surfaces
  /\ epoch \in 0 .. MaxPrompts /\ pending \in BOOLEAN /\ newer \in BOOLEAN
  /\ waiting \subseteq Waits /\ done \subseteq Waits
  /\ blocking \subseteq 0 .. MaxPrompts /\ validating \in Nat

(* The stored document passes the validation of the next start, although   *)
(* sqlite_destination does not look at the names again after the worker:   *)
(* a plugin that wrote another document could never start.                 *)
StartsAgain == Valid(document)

(* However slow the file system, blocked workers do not pile up.           *)
SlotsKept == Cardinality(blocking) + validating <= Slots

(* path_pending says exactly that one path is on its way: each submission  *)
(* gets one answer, no second worker is started for it, and no worker      *)
(* without a slot.                                                         *)
OnePath ==
  /\ TypeOK /\ SlotsKept
  /\ Cardinality(waiting) + Cardinality(done) = (IF pending THEN 1 ELSE 0)

(* A path that comes back after the user has opened another prompt         *)
(* neither replaces that prompt nor adds a profile.                        *)
Superseded == 
  [][newer /\ pending /\ ~pending' /\ running' => UNCHANGED <<input, profiles>>]_vars

(* A submitted path is answered.                                           *)
PathAnswered == pending ~> ~pending
=============================================================================
