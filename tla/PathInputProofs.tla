--------------------------- MODULE PathInputProofs ---------------------------
(***************************************************************************)
(* For any names, prompts and limits: the stored document can be read at   *)
(* the next start, one path is on its way at a time, and one that comes    *)
(* back late changes nothing.                                              *)
(*                                                                         *)
(* None of them is inductive.  sqlite_destination saves a profile without  *)
(* looking at the names again, so StartsAgain needs that nothing else is   *)
(* added while a current path is on its way (Fresh): the prompt that gave  *)
(* it is gone, and any other prompt begins an epoch of its own.            *)
(***************************************************************************)
EXTENDS PathInput, FiniteSetTheorems, TLAPS

\* The variables, without counting the elements of sets.
Types ==
  /\ profiles \in Seq(Names) /\ document \in Seq(Names) /\ running \in BOOLEAN
  /\ input \subseteq Prompts /\ offered \subseteq Surfaces
  /\ epoch \in 0 .. MaxPrompts /\ pending \in BOOLEAN /\ newer \in BOOLEAN
  /\ waiting \subseteq Waits /\ done \subseteq Waits
  /\ blocking \subseteq 0 .. MaxPrompts /\ validating \in Nat

\* At most one prompt can be answered with effect.
OnePrompt == \A p, q \in input : p = q

\* The path on its way is with its waiting task or in the channel.
OneWay ==
  \/ ~pending /\ waiting = {} /\ done = {}
  \/ pending /\ done = {} /\ \E w \in Waits : waiting = {w}
  \/ pending /\ waiting = {} /\ \E w \in Waits : done = {w}

\* What is in memory is what is stored; a plugin that is not running has
\* neither prompts nor paths.
InStore ==
  /\ running => profiles = document
  /\ ~running => input = {} /\ waiting = {} /\ done = {}

\* While a path of the current epoch is on its way there is no prompt that
\* could add a profile, and its own name is free; a later prompt has begun
\* another epoch.
Fresh == \A w \in waiting \cup done :
  /\ w.epoch <= epoch
  /\ w.epoch = epoch => input = {} /\ w.name \notin ToSet(profiles)
  /\ newer => w.epoch < epoch

Inv ==
  Types /\ OnePrompt /\ OneWay /\ InStore /\ Fresh /\ StartsAgain /\ SlotsKept

-----------------------------------------------------------------------------
(* Lemmas about the operators.                                             *)

\* A name that is not in the document can be added to it.
LEMMA Extended ==
  ASSUME NEW names \in Seq(Names), NEW name \in Names, Valid(names),
         Len(names) < MaxProfiles, name \notin ToSet(names)
  PROVE  Append(names, name) \in Seq(Names) /\ Valid(Append(names, name))
BY LimitAssumption DEF Valid, IsInjective, ToSet

\* A set of epochs is finite, and counted.
LEMMA Counted ==
  ASSUME NEW S, S \subseteq 0 .. MaxPrompts, NEW T, T \subseteq S, NEW e \in 0 .. MaxPrompts
  PROVE  /\ Cardinality(S) \in Nat /\ Cardinality(T) <= Cardinality(S)
         /\ Cardinality(T) \in Nat /\ Cardinality(S \cup {e}) \in Nat
         /\ Cardinality(S \cup {e}) <= Cardinality(S) + 1
<1>1. IsFiniteSet(0 .. MaxPrompts)
  BY FS_Interval, LimitAssumption
<1>2. IsFiniteSet(S)
  BY <1>1, FS_Subset
<1>3. /\ Cardinality(S) \in Nat
      /\ IsFiniteSet(T) /\ Cardinality(T) <= Cardinality(S)
  BY <1>2, FS_Subset, FS_CardinalityType
<1>4. Cardinality(T) \in Nat
  BY <1>3, FS_CardinalityType
<1>5. Cardinality(S \cup {e}) = IF e \in S THEN Cardinality(S) ELSE Cardinality(S) + 1
  BY <1>2, FS_AddElement
<1> QED
  BY <1>3, <1>4, <1>5

\* A new prompt is the only one, and supersedes the path on its way.
LEMMA PromptKeeps ==
  ASSUME Inv, NEW kind \in Kinds, NEW name \in Names \cup {NoName}, NEW gone,
         Prompt(kind, name, gone),
         waiting' \cup done' \subseteq waiting \cup done
  PROVE  /\ input' \subseteq Prompts /\ offered' \subseteq Surfaces
         /\ epoch' \in 0 .. MaxPrompts /\ newer' \in BOOLEAN
         /\ OnePrompt' /\ Fresh'
<1> DEFINE s == CHOOSE s \in Surfaces : s \notin offered \ gone
<1>1. s \in Surfaces
  BY DEF Prompt, Room
<1>2. epoch' = epoch + 1 /\ epoch' \in 0 .. MaxPrompts
  BY LimitAssumption DEF Prompt, Room, Inv, Types
<1>3. input' = {[surface |-> s, kind |-> kind, name |-> name]}
  BY DEF Prompt
<1>4. \A w \in waiting' \cup done' : w.epoch < epoch'
  BY <1>2 DEF Inv, Types, Fresh, Waits
<1>5. Fresh'
  BY <1>2, <1>4 DEF Fresh, Waits, Inv, Types
<1>6. input' \subseteq Prompts /\ OnePrompt'
  BY <1>1, <1>3 DEF Prompts, OnePrompt
<1>7. offered' \subseteq Surfaces /\ newer' \in BOOLEAN
  BY <1>1 DEF Prompt, Inv, Types
<1> QED
  BY <1>2, <1>5, <1>6, <1>7

-----------------------------------------------------------------------------
(* The actions.                                                            *)

LEMMA InitInv == Init => Inv
<1> SUFFICES ASSUME Init PROVE Inv
  OBVIOUS
<1>1. Cardinality({}) = 0
  BY FS_EmptySet
<1>2. << >> \in Seq(Names) /\ Valid(<< >>)
  BY LimitAssumption DEF Valid, IsInjective
<1>3. Types
  <2>1. /\ profiles \in Seq(Names) /\ document \in Seq(Names)
        /\ running \in BOOLEAN /\ pending \in BOOLEAN /\ newer \in BOOLEAN
    BY <1>2, Zenon DEF Init
  <2>2. epoch \in 0 .. MaxPrompts /\ validating \in Nat
    BY LimitAssumption DEF Init
  <2>3. /\ input \subseteq Prompts /\ offered \subseteq Surfaces
        /\ waiting \subseteq Waits /\ done \subseteq Waits /\ blocking \subseteq 0 .. MaxPrompts
    BY DEF Init
  <2> QED BY <2>1, <2>2, <2>3 DEF Types
<1>4. OnePrompt /\ OneWay /\ InStore /\ Fresh
  BY DEF Init, OnePrompt, OneWay, InStore, Fresh
<1>5. SlotsKept
  BY <1>1, LimitAssumption DEF Init, SlotsKept
<1> QED
  BY <1>2, <1>3, <1>4, <1>5 DEF Init, Inv, StartsAgain

\* Commands and answers that only ask something else.
LEMMA AskKeeps ==
  ASSUME Inv, Open \/ \E p \in input : ChooseBackend(p)
  PROVE  Inv'
<1>1. UNCHANGED <<profiles, document, running, pending, waiting, blocking, done, validating>>
  BY DEF Open, ChooseBackend, stored, paths
<1>2. \E kind \in Kinds, name \in Names \cup {NoName}, gone \in SUBSET Surfaces :
        Prompt(kind, name, gone) /\ running
  <2>1. CASE Open
    BY <2>1 DEF Open, Kinds
  <2>2. ASSUME NEW p \in input, ChooseBackend(p)
        PROVE  \E kind \in Kinds, name \in Names \cup {NoName}, gone \in SUBSET Surfaces :
                 Prompt(kind, name, gone) /\ running
    <3>1. \E kind \in {"sqlite", "postgres"} : Prompt(kind, NoName, {p.surface}) /\ running
      BY <2>2 DEF ChooseBackend, Answered
    <3>2. {p.surface} \in SUBSET Surfaces
      BY DEF Inv, Types, Prompts
    <3> QED BY <3>1, <3>2 DEF Kinds
  <2> QED BY <2>1, <2>2
<1>3. PICK kind \in Kinds, name \in Names \cup {NoName}, gone \in SUBSET Surfaces :
        Prompt(kind, name, gone) /\ running
  BY <1>2
<1>4. /\ input' \subseteq Prompts /\ offered' \subseteq Surfaces
      /\ epoch' \in 0 .. MaxPrompts /\ newer' \in BOOLEAN
      /\ OnePrompt' /\ Fresh'
  BY <1>1, <1>3, PromptKeeps
<1> QED
  BY <1>1, <1>3, <1>4 DEF Inv, Types, OneWay, InStore, StartsAgain, SlotsKept

\* A prompt goes without effect.
LEMMA GoneKeeps ==
  ASSUME Inv, (\E s \in offered : Expired(s)) \/ (\E p \in input : Dismiss(p))
  PROVE  Inv'
<1>1. /\ UNCHANGED <<profiles, document, running, pending, waiting, blocking, done, validating>>
      /\ UNCHANGED <<epoch, newer>>
      /\ input' \subseteq input /\ offered' \subseteq offered
  BY DEF Expired, Dismiss, stored, paths
<1> QED
  BY <1>1 DEF Inv, Types, OnePrompt, OneWay, InStore, Fresh, StartsAgain, SlotsKept

LEMMA AddPostgresKeeps ==
  ASSUME Inv, NEW p \in input, NEW name \in Names, AddPostgres(p, name)
  PROVE  Inv'
<1>1. /\ UNCHANGED <<running, pending, waiting, blocking, done, validating>>
      /\ running
  BY DEF AddPostgres, Answered, paths
<1>2. /\ profiles' \in Seq(Names) /\ document' \in Seq(Names)
      /\ profiles' = document' /\ Valid(document')
  <2>1. profiles = document /\ Valid(profiles) /\ profiles \in Seq(Names)
    BY <1>1 DEF Inv, Types, InStore, StartsAgain
  <2>2. CASE UNCHANGED <<profiles, document>>
    BY <2>1, <2>2
  <2>3. CASE ~UNCHANGED <<profiles, document>>
    <3>1. Addable(name) /\ profiles' = Append(profiles, name) /\ document' = profiles'
      BY <2>3 DEF AddPostgres, Saved
    <3> QED BY <2>1, <3>1, Extended DEF Addable
  <2> QED BY <2>2, <2>3
<1>3. /\ input' \subseteq Prompts /\ offered' \subseteq Surfaces
      /\ epoch' \in 0 .. MaxPrompts /\ newer' \in BOOLEAN
      /\ OnePrompt' /\ Fresh'
  <2>1. CASE Prompt("other", NoName, {p.surface})
    BY <1>1, <2>1, PromptKeeps DEF Kinds
  <2>2. CASE /\ input' = input \ {p} /\ offered' = offered \ {p.surface}
             /\ UNCHANGED <<epoch, newer>>
    <3>1. \A w \in waiting \cup done : w.epoch # epoch
      BY DEF Inv, Fresh
    <3> QED BY <1>1, <2>2, <3>1 DEF Inv, Types, OnePrompt, Fresh
  <2> QED BY <2>1, <2>2 DEF AddPostgres
<1> QED
  BY <1>1, <1>2, <1>3 DEF Inv, Types, OneWay, InStore, StartsAgain, SlotsKept

\* The path that is submitted is current, and the only one.
LEMMA DeferKeeps ==
  ASSUME Inv, NEW p \in input, NEW name \in Names, Defer(p, name)
  PROVE  Inv'
<1>1. UNCHANGED <<profiles, document, running, epoch, validating, done>> /\ running
  BY DEF Defer, Answered, stored
<1>2. CASE UNCHANGED <<pending, waiting, blocking, newer>>
  <2>1. input' \subseteq input /\ offered' \subseteq offered
    BY DEF Defer
  <2> QED
    BY <1>1, <1>2, <2>1
    DEF Inv, Types, OnePrompt, OneWay, InStore, Fresh, StartsAgain, SlotsKept
<1>3. CASE ~UNCHANGED <<pending, waiting, blocking, newer>>
  <2> DEFINE w == [name |-> name, epoch |-> epoch, result |-> "running"]
  <2>1. /\ ~pending /\ name \notin ToSet(profiles) /\ Free
        /\ input' = input \ {p} /\ offered' = offered \ {p.surface}
        /\ pending' = TRUE /\ newer' = FALSE
        /\ waiting' = {w} /\ blocking' = blocking \cup {epoch}
    BY <1>3 DEF Defer
  <2>2. w \in Waits
    BY DEF Waits, Inv, Types
  <2>3. done = {} /\ input' = {}
    BY <2>1 DEF Inv, OneWay, OnePrompt
  <2>4. blocking' \subseteq 0 .. MaxPrompts /\ SlotsKept'
    <3>1. epoch \in 0 .. MaxPrompts /\ blocking \subseteq 0 .. MaxPrompts /\ validating \in Nat
      BY DEF Inv, Types
    <3>2. /\ Cardinality(blocking) \in Nat /\ Cardinality(blocking') \in Nat
          /\ Cardinality(blocking') <= Cardinality(blocking) + 1
      BY <2>1, <3>1, Counted
    <3> QED BY <1>1, <2>1, <3>1, <3>2, LimitAssumption DEF SlotsKept, Free
  <2>5. Fresh'
    BY <1>1, <2>1, <2>3 DEF Fresh, Inv, Types
  <2>6. OneWay'
    BY <1>1, <2>1, <2>2, <2>3 DEF OneWay
  <2>7. Types'
    BY <1>1, <2>1, <2>2, <2>4 DEF Inv, Types
  <2> QED
    BY <1>1, <2>1, <2>3, <2>4, <2>5, <2>6, <2>7
    DEF Inv, OnePrompt, InStore, StartsAgain
<1> QED BY <1>2, <1>3

LEMMA ResolveKeeps ==
  ASSUME Inv, NEW e \in blocking, NEW r \in Results, Resolve(e, r)
  PROVE  Inv'
<1>1. /\ UNCHANGED <<profiles, document, running, input, offered, epoch, newer, pending>>
      /\ UNCHANGED <<validating, done>>
      /\ blocking' = blocking \ {e}
  BY DEF Resolve, stored, prompts
<1> DEFINE then(w) == IF w.epoch = e THEN [w EXCEPT !.result = r] ELSE w
<1>2. waiting' = {then(w) : w \in waiting}
  BY DEF Resolve
<1>3. \A w \in Waits : then(w) \in Waits /\ then(w).epoch = w.epoch /\ then(w).name = w.name
  BY DEF Waits
<1>4. waiting' \subseteq Waits /\ Fresh'
  BY <1>1, <1>2, <1>3 DEF Inv, Types, Fresh
<1>5. OneWay'
  <2>1. CASE waiting = {}
    BY <1>1, <1>2, <2>1 DEF Inv, OneWay
  <2>2. ASSUME NEW w \in Waits, waiting = {w}
        PROVE  waiting' = {then(w)} /\ then(w) \in Waits /\ pending /\ done = {}
    BY <1>2, <1>3, <2>2 DEF Inv, OneWay
  <2> HIDE DEF then
  <2> QED BY <1>1, <2>1, <2>2 DEF Inv, OneWay
<1>6. SlotsKept' /\ blocking' \subseteq 0 .. MaxPrompts
  <2>1. /\ Cardinality(blocking) \in Nat /\ Cardinality(blocking') \in Nat
        /\ Cardinality(blocking') <= Cardinality(blocking)
    BY <1>1, Counted DEF Inv, Types
  <2> QED BY <1>1, <2>1, LimitAssumption DEF Inv, Types, SlotsKept
<1>7. InStore'
  BY <1>1, <1>2 DEF Inv, InStore
<1> QED
  BY <1>1, <1>4, <1>5, <1>6, <1>7 DEF Inv, Types, OnePrompt, StartsAgain

LEMMA ReportKeeps == ASSUME Inv, Report PROVE Inv'
<1>1. /\ UNCHANGED <<profiles, document, running, input, offered, epoch, newer, pending>>
      /\ UNCHANGED <<blocking, validating>>
  BY DEF Report, stored, prompts
<1>2. PICK w \in waiting :
        /\ done' = {IF w.result = "running" THEN [w EXCEPT !.result = "error"] ELSE w}
        /\ waiting' = waiting \ {w}
  BY DEF Report
<1>3. w \in Waits /\ pending /\ waiting = {w}
  BY DEF Inv, Types, OneWay
<1>4. PICK d \in Waits : done' = {d} /\ d.epoch = w.epoch /\ d.name = w.name
  <2>1. [w EXCEPT !.result = "error"] \in Waits
    BY <1>3 DEF Waits, Results
  <2>2. [w EXCEPT !.result = "error"].epoch = w.epoch /\ [w EXCEPT !.result = "error"].name = w.name
    BY <1>3 DEF Waits
  <2> QED BY <1>2, <1>3, <2>1, <2>2
<1>5. waiting' = {}
  BY <1>2, <1>3
<1> QED
  BY <1>1, <1>3, <1>4, <1>5
  DEF Inv, Types, OnePrompt, OneWay, InStore, Fresh, StartsAgain, SlotsKept

LEMMA ValidationKeeps == ASSUME Inv, Validate \/ ValidateEnds PROVE Inv'
<1>1. /\ UNCHANGED <<profiles, document, running, input, offered, epoch, newer>>
      /\ UNCHANGED <<pending, waiting, blocking, done>>
  BY DEF Validate, ValidateEnds, stored, prompts, paths
<1>2. Cardinality(blocking) \in Nat
  BY Counted DEF Inv, Types
<1>3. validating' \in Nat /\ SlotsKept'
  BY <1>1, <1>2, LimitAssumption DEF Validate, ValidateEnds, Free, Inv, Types, SlotsKept
<1> QED
  BY <1>1, <1>3 DEF Inv, Types, OnePrompt, OneWay, InStore, Fresh, StartsAgain

\* A current path adds its name, which is still free, or asks again; any
\* other changes nothing.
LEMMA CompletePathKeeps == ASSUME Inv, CompletePath PROVE Inv'
<1>1. UNCHANGED <<running, waiting, blocking, validating>> /\ running
  BY DEF CompletePath
<1>2. PICK w \in done :
        /\ done' = {} /\ pending' = FALSE
        /\ \/ /\ Current(w) /\ w.result = "choices"
              /\ Prompt("path", w.name, {})
              /\ UNCHANGED <<profiles, document>>
           \/ /\ Current(w) /\ w.result = "file" /\ Len(profiles) < MaxProfiles
              /\ Saved(Append(profiles, w.name))
              /\ UNCHANGED prompts
           \/ UNCHANGED <<profiles, document, prompts>>
  BY DEF CompletePath
<1>3. w \in Waits /\ waiting' = {}
  BY <1>1 DEF Inv, Types, OneWay
<1>4. /\ input' \subseteq Prompts /\ offered' \subseteq Surfaces
      /\ epoch' \in 0 .. MaxPrompts /\ newer' \in BOOLEAN
      /\ OnePrompt' /\ Fresh'
  <2>1. CASE Prompt("path", w.name, {})
    BY <1>1, <1>2, <1>3, <2>1, PromptKeeps DEF Kinds, Waits
  <2>2. CASE UNCHANGED prompts
    BY <1>2, <1>3, <2>2 DEF prompts, Inv, Types, OnePrompt, Fresh
  <2> QED BY <1>2, <2>1, <2>2 DEF prompts
<1>5. /\ profiles' \in Seq(Names) /\ document' \in Seq(Names)
      /\ profiles' = document' /\ Valid(document')
  <2>1. w.name \in Names /\ (Current(w) => w.name \notin ToSet(profiles))
    BY <1>3 DEF Waits, Inv, Fresh, Current
  <2> QED
    BY <1>1, <1>2, <2>1, Extended DEF Saved, Inv, Types, InStore, StartsAgain
<1> QED
  BY <1>1, <1>2, <1>3, <1>4, <1>5 DEF Inv, Types, OneWay, InStore, StartsAgain, SlotsKept

LEMMA EndKeeps == ASSUME Inv, End \/ Start PROVE Inv'
<1>1. Cardinality({}) = 0
  BY FS_EmptySet
<1>2. CASE End
  <2>1. Types'
    <3>1. /\ document' \in Seq(Names)
          /\ running' \in BOOLEAN /\ pending' \in BOOLEAN /\ newer' \in BOOLEAN
      BY <1>2, Zenon DEF End, Inv, Types
    <3>2. profiles' \in Seq(Names) /\ epoch' \in 0 .. MaxPrompts /\ validating' \in Nat
      <4>1. << >> \in Seq(Names)
        OBVIOUS
      <4> QED BY <1>2, <4>1 DEF End, Inv, Types
    <3>3. /\ input' \subseteq Prompts /\ offered' \subseteq Surfaces
          /\ waiting' \subseteq Waits /\ done' \subseteq Waits
          /\ blocking' \subseteq 0 .. MaxPrompts
      BY <1>2 DEF End
    <3> QED BY <3>1, <3>2, <3>3 DEF Types
  <2>2. OnePrompt' /\ OneWay' /\ InStore' /\ Fresh'
    BY <1>2 DEF End, OnePrompt, OneWay, InStore, Fresh
  <2>3. SlotsKept' /\ StartsAgain'
    BY <1>1, <1>2, LimitAssumption DEF End, Inv, SlotsKept, StartsAgain, Valid
  <2> QED
    BY <2>1, <2>2, <2>3 DEF Inv
<1>3. CASE Start
  BY <1>3
  DEF Start, prompts, paths, Inv, Types, OnePrompt, OneWay, InStore, Fresh, StartsAgain,
      SlotsKept
<1> QED BY <1>2, <1>3

LEMMA NextInv == Inv /\ [Next]_vars => Inv'
<1> SUFFICES ASSUME Inv, [Next]_vars PROVE Inv'
  OBVIOUS
<1>1. CASE Next
  BY <1>1, AskKeeps, GoneKeeps, AddPostgresKeeps, DeferKeeps, ResolveKeeps, ReportKeeps,
     ValidationKeeps, CompletePathKeeps, EndKeeps
  DEF Next
<1>2. CASE UNCHANGED vars
  BY <1>2 DEF vars, Inv, Types, OnePrompt, OneWay, InStore, Fresh, StartsAgain, SlotsKept
<1> QED BY <1>1, <1>2

-----------------------------------------------------------------------------
(* Theorems.                                                               *)

\* The inductive invariant.
THEOREM Invariance == Spec => []Inv
BY InitInv, NextInv, PTL DEF Spec

\* However prompts, path workers, refused saves and restarts interleave, the
\* document that is stored passes Saved::validate at the next start.
THEOREM DocumentStartsAgain == Spec => []StartsAgain
<1>1. Inv => StartsAgain BY DEF Inv
<1> QED BY <1>1, Invariance, PTL

\* path_pending says exactly that one path is on its way, and blocked workers
\* never exceed their slots; with the types of all variables.
THEOREM PathsOneAtATime == Spec => []OnePath
<1>1. ASSUME Inv PROVE OnePath
  <2>1. Cardinality({}) = 0
    BY FS_EmptySet
  <2>2. ASSUME NEW S, NEW x, S = {x} PROVE Cardinality(S) = 1
    BY <2>2, FS_Singleton
  <2>3. Cardinality(waiting) + Cardinality(done) = (IF pending THEN 1 ELSE 0)
    <3>1. CASE pending /\ done = {}
      <4>1. PICK w \in Waits : waiting = {w}
        BY <1>1, <3>1 DEF Inv, OneWay
      <4>2. Cardinality(waiting) = 1
        BY <4>1, <2>2
      <4> QED BY <2>1, <3>1, <4>2
    <3>2. CASE pending /\ waiting = {}
      <4>1. PICK w \in Waits : done = {w}
        BY <1>1, <3>2 DEF Inv, OneWay
      <4>2. Cardinality(done) = 1
        BY <4>1, <2>2
      <4> QED BY <2>1, <3>2, <4>2
    <3> QED BY <1>1, <2>1, <3>1, <3>2 DEF Inv, OneWay
  <2>4. Cardinality(input) <= 1
    <3>1. CASE input = {}
      BY <2>1, <3>1
    <3>2. ASSUME NEW p \in input PROVE Cardinality(input) <= 1
      <4>1. input = {p}
        BY <1>1 DEF Inv, OnePrompt
      <4>2. Cardinality(input) = 1
        BY <4>1, <2>2
      <4> QED BY <4>2
    <3> QED BY <3>1, <3>2
  <2> QED BY <1>1, <2>3, <2>4 DEF OnePath, TypeOK, Inv, Types
<1> QED BY <1>1, Invariance, PTL

\* A path that comes back after the user has opened another prompt neither
\* replaces that prompt nor adds a profile (complete_path).
SupersededStep == newer /\ pending /\ ~pending' /\ running' => UNCHANGED <<input, profiles>>

LEMMA SupersededNext == Inv /\ [Next]_vars => [SupersededStep]_vars
<1> SUFFICES ASSUME Inv, Next, newer, pending, ~pending', running'
             PROVE  UNCHANGED <<input, profiles>>
  BY DEF SupersededStep
<1>1. CompletePath
  BY DEF Next, Open, Expired, Dismiss, ChooseBackend, AddPostgres, Defer, Resolve, Report,
         Validate, ValidateEnds, End, Start, paths
<1>2. \A w \in done : ~Current(w)
  BY DEF Inv, Types, Fresh, Waits, Current
<1> QED
  BY <1>1, <1>2 DEF CompletePath, prompts

\* An answer that comes too late changes neither the prompt nor the profiles.
THEOREM LatePathsAreIgnored == Spec => Superseded
<1>1. [][SupersededStep]_vars => Superseded
  BY PTL DEF SupersededStep, Superseded
<1> QED BY <1>1, SupersededNext, Invariance, PTL DEF Spec
=============================================================================
