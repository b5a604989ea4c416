------------------------- MODULE ResultStorageProofs -------------------------
(***************************************************************************)
(* Proofs about ResultStorage for any number of results and files and any  *)
(* limits.                                                                 *)
(***************************************************************************)
EXTENDS ResultStorage, FiniteSetTheorems, WellFoundedInduction, TLAPS

(* The files that exist, close or are about to be created are counted.     *)
Counted == spools = Cardinality(Present) + Cardinality(Creating)

Limited == /\ bytes <= MaxOwner /\ spools <= MaxSpools
           /\ \A s \in Spools : size[s] <= MaxResult

(* Only a failed write leaves a file shorter than its reservation.         *)
Files == \A s \in Spools :
  /\ length[s] <= size[s]
  /\ ~failed[s] => length[s] = size[s]

(* What is referenced is open. *)
Live == \A s \in Spools : Referenced(s) => file[s] = "open"

(* A file with a capture belongs to that capture's result alone.           *)
Private == \A c \in Results : spool[c] # NoSpool =>
  /\ \A d \in Results \ {c} :
       /\ spool[d] # spool[c] /\ checkpoint[d].spool # spool[c]
       /\ \A v \in row[d] \cup kept[d] : v.spool # spool[c]
  /\ \A v \in reading : v.spool # spool[c]

(* What a result holds at each stage of its capture. *)
Staged(c) ==
  /\ checkpoint[c].spool \in {NoSpool, spool[c]}
  /\ at[c] \in {"idle", "creating", "page"} => spool[c] = NoSpool
  /\ at[c] \in {"idle", "between", "end", "page"} => checkpoint[c] =
      NoCheckpoint
  /\ at[c] # "row" => row[c] = {}
  /\ at[c] = "idle" => kept[c] = {}
  /\ at[c] # "page" => \A v \in row[c] \cup kept[c] : v.spool = spool[c]
  /\ at[c] \in {"row", "creating", "rejected"} =>
       IF checkpoint[c].spool = NoSpool
         THEN kept[c] = {}
         ELSE /\ checkpoint[c].bytes <= size[spool[c]]
              /\ \A v \in kept[c] : v.offset + v.len <= checkpoint[c].bytes
Stages == \A c \in Results : Staged(c)

Written == \A v \in Held : v.offset + v.len <= length[v.spool]
Apart == \A v, w \in Held :
           v # w /\ v.spool = w.spool => Span(v) \cap Span(w) = {}

(* The inductive invariant. *)
Inv == /\ TypeOK /\ Counted /\ Limited /\ Files /\ Live /\ Private /\ Stages
       /\ Written /\ Apart

-----------------------------------------------------------------------------
(* Values, references and counts.                                          *)

(* The sets whose sizes the quota counts are finite. *)
LEMMA FiniteSets == IsFiniteSet(Present) /\ IsFiniteSet(Creating)
  BY SpoolAssumption, ResultAssumption, FS_Subset DEF Present, Creating

(* A value is held by a row, a result or the reader. *)
LEMMA HeldBy ==
  ASSUME NEW v
  PROVE  v \in Held <=> \/ \E c \in Results : v \in row[c] \cup kept[c]
                        \/ v \in reading
<1>1. v \in UNION {row[c] \cup kept[c] : c \in Results}
        <=> \E c \in Results : v \in row[c] \cup kept[c]
  OBVIOUS
<1> DEFINE rows == UNION {row[c] \cup kept[c] : c \in Results}
<1>2. v \in rows \/ v \in reading <=> v \in Held
  BY DEF Held
<1> QED BY <1>1, <1>2

LEMMA HeldKept ==
  ASSUME \A c \in Results : (row[c] \cup kept[c])' \subseteq row[c] \cup
      kept[c],
         reading' \subseteq reading
  PROVE  Held' \subseteq Held
  BY HeldBy DEF Held

(* Fewer values remain apart. *)
LEMMA ApartKept == ASSUME Apart, Held' \subseteq Held PROVE Apart'
  BY DEF Apart, Span

(* Fewer values of the same files remain written. *)
LEMMA WrittenKept ==
  ASSUME Written, Held' \subseteq Held, length' = length PROVE Written'
  BY DEF Written

(* Where the files and their counts are unchanged, and no value or         *)
(* reference is new, the invariants of files and values hold.              *)
LEMMA Unchanged ==
  ASSUME Inv, UNCHANGED <<usage, files>>, Held' \subseteq Held,
         Creating' = Creating, \A s \in Spools : Referenced(s)' =>
             Referenced(s)
  PROVE  (Counted /\ Limited /\ Files /\ Live /\ Written /\ Apart)'
<1>1. (Limited /\ Files /\ Live)' BY DEF Inv, Limited, Files, Live, usage,
      files
<1>2. Present' = Present BY DEF Present, files
<1>3. Counted' BY <1>2 DEF Inv, Counted, usage
<1>4. (Written /\ Apart)' BY ApartKept, WrittenKept DEF Inv, files
<1> QED BY <1>1, <1>3, <1>4

(* A step that only drops references closes files and changes no count.    *)
LEMMA Releases ==
  ASSUME Inv, Dropped, UNCHANGED <<usage, size, length, failed>>,
         Held' \subseteq Held, Creating' = Creating,
         \A s \in Spools : Referenced(s)' => Referenced(s)
  PROVE  (Counted /\ Limited /\ Files /\ Live /\ Written /\ Apart)'
<1>1. (Limited /\ Files)' BY DEF Inv, Limited, Files, usage
<1>2. Live' BY DEF Inv, TypeOK, Live, Dropped
<1>3. Present' = Present BY DEF Inv, TypeOK, Present, Dropped
<1>4. Counted' BY <1>3 DEF Inv, Counted, usage
<1>5. (Written /\ Apart)' BY ApartKept, WrittenKept DEF Inv
<1> QED BY <1>1, <1>2, <1>4, <1>5

-----------------------------------------------------------------------------
(* The steps that change no file.                                          *)

LEMMA BeginInv == ASSUME Inv, NEW c \in Results, Begin(c) PROVE Inv'
<1>1. TypeOK' BY DEF Inv, TypeOK, At, usage, files, values, Begin
<1>2. Held' \subseteq Held BY DEF Held, values, Begin
<1>3. Creating' = Creating BY DEF Inv, TypeOK, Creating, Begin
<1>4. \A s \in Spools : Referenced(s)' => Referenced(s)
  BY DEF Inv, TypeOK, Referenced, Shared, NoCheckpoint, values, Stages, Staged,
      Begin
<1>5. UNCHANGED <<usage, files>> BY DEF Begin
<1>6. Private' BY DEF Inv, TypeOK, Private, Stages, Staged, values, Begin
<1>7. Stages'
  BY SpoolAssumption DEF Inv, TypeOK, Values, Stages, Staged, Written, Held,
      Files, NoCheckpoint, files, values, Begin
<1> QED BY <1>1, <1>2, <1>3, <1>4, <1>5, <1>6, <1>7, Unchanged DEF Inv

LEMMA StartRowInv == ASSUME Inv, NEW c \in Results, StartRow(c) PROVE Inv'
<1>1. TypeOK' BY DEF Inv, TypeOK, At, usage, files, values, Checkpoints,
      StartRow
<1>2. Held' \subseteq Held BY DEF Held, values, StartRow
<1>3. Creating' = Creating BY DEF Inv, TypeOK, Creating, StartRow
<1>4. \A s \in Spools : Referenced(s)' => Referenced(s)
  BY DEF Inv, TypeOK, Referenced, Shared, NoCheckpoint, values, Stages, Staged,
      StartRow
<1>5. UNCHANGED <<usage, files>> BY DEF StartRow
<1>6. Private' BY DEF Inv, TypeOK, Private, Stages, Staged, values, StartRow
<1>7. Stages'
  BY SpoolAssumption DEF Inv, TypeOK, Values, Stages, Staged, Written, Held,
      Files, NoCheckpoint, files, values, StartRow
<1> QED BY <1>1, <1>2, <1>3, <1>4, <1>5, <1>6, <1>7, Unchanged DEF Inv

LEMMA LoadInv == ASSUME Inv, NEW c \in Results, Load(c) PROVE Inv'
<1>1. TypeOK' BY DEF Inv, TypeOK, At, usage, files, captures, Load
<1>2. Held' \subseteq Held
  <2>1. reading' \subseteq Held BY HeldBy DEF Load
  <2>2. Held' = (UNION {row[d] \cup kept[d] : d \in Results}) \cup reading'
    BY DEF Held, Load
  <2>3. UNION {row[d] \cup kept[d] : d \in Results} \subseteq Held BY DEF Held
  <2> QED BY <2>1, <2>2, <2>3
<1>3. Creating' = Creating BY DEF Inv, TypeOK, Creating, captures, Load
<1>4. \A s \in Spools : Referenced(s)' => Referenced(s)
  BY DEF Inv, TypeOK, Referenced, Shared, NoCheckpoint, captures, Stages,
      Staged, Load
<1>5. UNCHANGED <<usage, files>> BY DEF Load
<1>6. Private' BY DEF Inv, TypeOK, Private, Stages, Staged, captures, Load
<1>7. Stages'
  BY SpoolAssumption DEF Inv, TypeOK, Values, Stages, Staged, Written, Held,
      Files, NoCheckpoint, files, captures, Load
<1> QED BY <1>1, <1>2, <1>3, <1>4, <1>5, <1>6, <1>7, Unchanged DEF Inv

LEMMA ReserveInv ==
  ASSUME Inv, NEW c \in Results, NEW n \in Lengths, Reserve(c, n) PROVE Inv'
<1>1. TypeOK' BY LimitAssumption DEF Inv, TypeOK, Lengths, files, values, At,
      Reserve
<1>2. (Limited /\ Files /\ Live /\ Private)'
  BY LimitAssumption DEF Inv, TypeOK, Limited, Files, Live, Private,
      Referenced, Shared, files, values, Reserve
<1>3. Stages' BY SpoolAssumption DEF Inv, TypeOK, Values, Stages, Staged,
      files, values, Reserve
<1>4. Held' = Held BY DEF Held, values, Reserve
<1>5. (Written /\ Apart)' BY <1>4, ApartKept, WrittenKept DEF Inv, files,
      Reserve
<1>6. Counted'
  <2>1. Present' = Present BY DEF Present, files, Reserve
  <2>2. Creating' = Creating \cup {c} /\ c \notin Creating
    BY DEF Inv, TypeOK, Creating, Reserve
  <2>3. Cardinality(Creating') = Cardinality(Creating) + 1
    BY <2>2, FiniteSets, FS_AddElement
  <2>4. Cardinality(Creating) \in Nat /\ Cardinality(Present) \in Nat
    BY FiniteSets, FS_CardinalityType
  <2> QED BY <2>1, <2>3, <2>4 DEF Inv, Counted, Reserve
<1> QED BY <1>1, <1>2, <1>3, <1>5, <1>6 DEF Inv

LEMMA CreateFailsInv ==
  ASSUME Inv, NEW c \in Results, CreateFails(c) PROVE Inv'
<1>1. TypeOK' BY LimitAssumption DEF Inv, TypeOK, files, values, At,
      CreateFails
<1>2. (Limited /\ Files /\ Live /\ Private)'
  BY LimitAssumption DEF Inv, TypeOK, Limited, Files, Live, Private,
      Referenced, Shared, files, values, CreateFails
<1>3. Stages' BY DEF Inv, TypeOK, Stages, Staged, files, values, CreateFails
<1>4. Held' = Held BY DEF Held, values, CreateFails
<1>5. (Written /\ Apart)' BY <1>4, ApartKept, WrittenKept DEF Inv, files,
      CreateFails
<1>6. Counted'
  <2>1. Present' = Present BY DEF Present, files, CreateFails
  <2>2. Creating' = Creating \ {c} /\ c \in Creating
    BY DEF Inv, TypeOK, Creating, CreateFails
  <2>3. Cardinality(Creating') = Cardinality(Creating) - 1
    BY <2>2, FiniteSets, FS_RemoveElement
  <2>4. Cardinality(Creating) \in Nat /\ Cardinality(Present) \in Nat
    BY FiniteSets, FS_CardinalityType
  <2> QED BY <2>1, <2>3, <2>4 DEF Inv, Counted, CreateFails
<1> QED BY <1>1, <1>2, <1>3, <1>5, <1>6 DEF Inv

-----------------------------------------------------------------------------
(* The steps that only drop references.                                    *)

LEMMA AcceptRowInv == ASSUME Inv, NEW c \in Results, AcceptRow(c) PROVE Inv'
<1>1. TypeOK' BY DEF Inv, TypeOK, Checkpoints, NoCheckpoint, usage, At,
      Dropped, AcceptRow
<1>2. Held' \subseteq Held BY HeldKept DEF Inv, TypeOK, AcceptRow
<1>3. Creating' = Creating BY DEF Inv, TypeOK, Creating, AcceptRow
<1>4. \A s \in Spools : Referenced(s)' => Referenced(s)
  BY SpoolAssumption DEF Inv, TypeOK, Referenced, Shared, NoCheckpoint,
      AcceptRow
<1>5. Dropped /\ UNCHANGED <<usage, size, length, failed>> BY DEF AcceptRow
<1>6. Private' BY SpoolAssumption DEF Inv, TypeOK, Private, NoCheckpoint,
      Stages, Staged, AcceptRow
<1>7. Stages' BY SpoolAssumption DEF Inv, TypeOK, Stages, Staged, Written,
      Held, Files, NoCheckpoint, AcceptRow
<1> QED BY <1>1, <1>2, <1>3, <1>4, <1>5, <1>6, <1>7, Releases DEF Inv

LEMMA RejectRowInv == ASSUME Inv, NEW c \in Results, RejectRow(c) PROVE Inv'
<1>1. TypeOK' BY DEF Inv, TypeOK, Checkpoints, NoCheckpoint, usage, At,
      Dropped, RejectRow
<1>2. Held' \subseteq Held BY HeldKept DEF Inv, TypeOK, RejectRow
<1>3. Creating' = Creating BY DEF Inv, TypeOK, Creating, RejectRow
<1>4. \A s \in Spools : Referenced(s)' => Referenced(s)
  BY SpoolAssumption DEF Inv, TypeOK, Referenced, Shared, NoCheckpoint,
      RejectRow
<1>5. Dropped /\ UNCHANGED <<usage, size, length, failed>> BY DEF RejectRow
<1>6. Private' BY SpoolAssumption DEF Inv, TypeOK, Private, NoCheckpoint,
      Stages, Staged, RejectRow
<1>7. Stages' BY SpoolAssumption DEF Inv, TypeOK, Stages, Staged, Written,
      Held, Files, NoCheckpoint, RejectRow
<1> QED BY <1>1, <1>2, <1>3, <1>4, <1>5, <1>6, <1>7, Releases DEF Inv

LEMMA DiscardFailsInv == ASSUME Inv, NEW c \in Results, DiscardFails(c) PROVE
    Inv'
<1>1. TypeOK' BY DEF Inv, TypeOK, Checkpoints, NoCheckpoint, usage, At,
      Dropped, Abandoned, DiscardFails
<1>2. Held' \subseteq Held BY HeldKept DEF Inv, TypeOK, Abandoned, DiscardFails
<1>3. Creating' = Creating BY DEF Inv, TypeOK, Creating, Abandoned,
      DiscardFails
<1>4. \A s \in Spools : Referenced(s)' => Referenced(s)
  BY SpoolAssumption DEF Inv, TypeOK, Referenced, Shared, NoCheckpoint,
      Abandoned, DiscardFails
<1>5. Dropped /\ UNCHANGED <<usage, size, length, failed>> BY DEF DiscardFails
<1>6. Private' BY SpoolAssumption DEF Inv, TypeOK, Private, NoCheckpoint,
      Stages, Staged, Abandoned, DiscardFails
<1>7. Stages' BY SpoolAssumption DEF Inv, TypeOK, Stages, Staged, Written,
      Held, Files, NoCheckpoint, Abandoned, DiscardFails
<1> QED BY <1>1, <1>2, <1>3, <1>4, <1>5, <1>6, <1>7, Releases DEF Inv

LEMMA AbortInv == ASSUME Inv, NEW c \in Results, Abort(c) PROVE Inv'
<1>1. TypeOK' BY DEF Inv, TypeOK, Checkpoints, NoCheckpoint, usage, At,
      Dropped, Abandoned, Abort
<1>2. Held' \subseteq Held BY HeldKept DEF Inv, TypeOK, Abandoned, Abort
<1>3. Creating' = Creating BY DEF Inv, TypeOK, Creating, Abandoned, Abort
<1>4. \A s \in Spools : Referenced(s)' => Referenced(s)
  BY SpoolAssumption DEF Inv, TypeOK, Referenced, Shared, NoCheckpoint,
      Abandoned, Abort
<1>5. Dropped /\ UNCHANGED <<usage, size, length, failed>> BY DEF Abort
<1>6. Private' BY SpoolAssumption DEF Inv, TypeOK, Private, NoCheckpoint,
      Stages, Staged, Abandoned, Abort
<1>7. Stages' BY SpoolAssumption DEF Inv, TypeOK, Stages, Staged, Written,
      Held, Files, NoCheckpoint, Abandoned, Abort
<1> QED BY <1>1, <1>2, <1>3, <1>4, <1>5, <1>6, <1>7, Releases DEF Inv

LEMMA OrphanInv == ASSUME Inv, NEW c \in Results, Orphan(c) PROVE Inv'
<1>1. TypeOK' BY DEF Inv, TypeOK, Checkpoints, NoCheckpoint, usage, At,
      Dropped, Orphan
<1>2. Held' \subseteq Held BY HeldKept DEF Inv, TypeOK, Orphan
<1>3. Creating' = Creating BY DEF Inv, TypeOK, Creating, Orphan
<1>4. \A s \in Spools : Referenced(s)' => Referenced(s)
  BY SpoolAssumption DEF Inv, TypeOK, Referenced, Shared, NoCheckpoint, Orphan
<1>5. Dropped /\ UNCHANGED <<usage, size, length, failed>> BY DEF Orphan
<1>6. Private' BY SpoolAssumption DEF Inv, TypeOK, Private, NoCheckpoint,
      Stages, Staged, Orphan
<1>7. Stages' BY SpoolAssumption DEF Inv, TypeOK, Stages, Staged, Written,
      Held, Files, NoCheckpoint, Orphan
<1> QED BY <1>1, <1>2, <1>3, <1>4, <1>5, <1>6, <1>7, Releases DEF Inv

LEMMA FinishInv == ASSUME Inv, NEW c \in Results, Finish(c) PROVE Inv'
<1>1. TypeOK' BY DEF Inv, TypeOK, Checkpoints, NoCheckpoint, usage, At,
      Dropped, values, Finish
<1>2. Held' \subseteq Held BY HeldKept DEF Inv, TypeOK, values, Finish
<1>3. Creating' = Creating BY DEF Inv, TypeOK, Creating, values, Finish
<1>4. \A s \in Spools : Referenced(s)' => Referenced(s)
  BY SpoolAssumption DEF Inv, TypeOK, Referenced, Shared, NoCheckpoint, values,
      Finish
<1>5. Dropped /\ UNCHANGED <<usage, size, length, failed>> BY DEF Finish
<1>6. Private' BY SpoolAssumption DEF Inv, TypeOK, Private, NoCheckpoint,
      Stages, Staged, values, Finish
<1>7. Stages' BY SpoolAssumption DEF Inv, TypeOK, Stages, Staged, Written,
      Held, Files, NoCheckpoint, values, Finish
<1> QED BY <1>1, <1>2, <1>3, <1>4, <1>5, <1>6, <1>7, Releases DEF Inv

LEMMA DropPageInv == ASSUME Inv, NEW c \in Results, DropPage(c) PROVE Inv'
<1>1. TypeOK' BY DEF Inv, TypeOK, Checkpoints, NoCheckpoint, usage, At,
      Dropped, DropPage
<1>2. Held' \subseteq Held BY HeldKept DEF Inv, TypeOK, DropPage
<1>3. Creating' = Creating BY DEF Inv, TypeOK, Creating, DropPage
<1>4. \A s \in Spools : Referenced(s)' => Referenced(s)
  BY SpoolAssumption DEF Inv, TypeOK, Referenced, Shared, NoCheckpoint,
      DropPage
<1>5. Dropped /\ UNCHANGED <<usage, size, length, failed>> BY DEF DropPage
<1>6. Private' BY SpoolAssumption DEF Inv, TypeOK, Private, NoCheckpoint,
      Stages, Staged, DropPage
<1>7. Stages' BY SpoolAssumption DEF Inv, TypeOK, Stages, Staged, Written,
      Held, Files, NoCheckpoint, DropPage
<1> QED BY <1>1, <1>2, <1>3, <1>4, <1>5, <1>6, <1>7, Releases DEF Inv

LEMMA LoadDoneInv == ASSUME Inv, LoadDone PROVE Inv'
<1>1. TypeOK' BY DEF Inv, TypeOK, usage, captures, Dropped, LoadDone
<1>2. Held' \subseteq Held BY DEF Held, LoadDone
<1>3. Creating' = Creating BY DEF Creating, captures, LoadDone
<1>4. \A s \in Spools : Referenced(s)' => Referenced(s)
  BY DEF Referenced, Shared, captures, LoadDone
<1>5. Dropped /\ UNCHANGED <<usage, size, length, failed>> BY DEF LoadDone
<1>6. Private' BY DEF Inv, Private, captures, LoadDone
<1>7. Stages' BY DEF Inv, Stages, Staged, captures, LoadDone
<1> QED BY <1>1, <1>2, <1>3, <1>4, <1>5, <1>6, <1>7, Releases DEF Inv

-----------------------------------------------------------------------------
(* The steps that write, truncate and remove files.                        *)

(* A write adds at most one value, after everything its file holds.        *)
LEMMA Appended ==
  ASSUME Inv, NEW c \in Results, NEW s \in Spools, NEW n \in Nat,
         Room(s, n), Append(c, s, n), UNCHANGED <<kept, reading>>
  PROVE  /\ (Files /\ Written /\ Apart)'
         /\ bytes' <= MaxOwner /\ \A t \in Spools : size'[t] <= MaxResult
<1> DEFINE new == [spool |-> s, offset |-> size[s], len |-> n]
<1>1. length[s] = size[s] /\ size[s] \in Nat /\ length \in [Spools -> Nat]
  BY DEF Inv, TypeOK, Files, Room
<1>2. Files' BY <1>1 DEF Inv, TypeOK, Files, Append
<1>3. /\ bytes' <= MaxOwner /\ \A t \in Spools : size'[t] <= MaxResult
  BY DEF Inv, TypeOK, Limited, Room, Append
<1>4. \A t \in Spools : length[t] <= length'[t] /\ length'[t] \in Nat
  BY <1>1 DEF Append
<1>5. Held \subseteq Values BY DEF Inv, TypeOK, Held
<1>6. \/ Held' \subseteq Held
      \/ Held' \subseteq Held \cup {new} /\ length'[s] = size[s] + n
  <2>1. CASE row' = row BY <2>1 DEF Held
  <2>2. CASE row' # row
    <3>1. /\ row' = [row EXCEPT ![c] = row[c] \cup {new}]
          /\ length'[s] = size[s] + n
      BY <2>2, <1>1 DEF Append
    <3>2. \A d \in Results : row'[d] \subseteq row[d] \cup {new}
      BY <3>1 DEF Inv, TypeOK
    <3>3. Held' \subseteq Held \cup {new} BY <3>2 DEF Held
    <3> QED BY <3>1, <3>3
  <2> QED BY <2>1, <2>2
<1>7. \A v \in Held : v.offset + v.len <= length[v.spool] BY DEF Inv, Written
<1>8. Written'
  <2>1. \A v \in Held : v.offset + v.len <= length'[v.spool]
    BY <1>1, <1>4, <1>5, <1>7 DEF Values
  <2>2. CASE Held' \subseteq Held BY <2>1, <2>2 DEF Written
  <2>3. CASE Held' \subseteq Held \cup {new} /\ length'[s] = size[s] + n
    <3>1. new.offset + new.len <= length'[new.spool] BY <1>1, <2>3
    <3> QED BY <2>1, <2>3, <3>1 DEF Written
  <2> QED BY <1>6, <2>2, <2>3
<1>9. Apart'
  <2>1. \A v \in Held : v.spool = s => Span(v) \cap Span(new) = {}
    BY <1>1, <1>5, <1>7 DEF Span, Values
  <2>2. \A v \in Held \cup {new}, w \in Held \cup {new} :
          v # w /\ v.spool = w.spool => Span(v) \cap Span(w) = {}
    BY <2>1 DEF Inv, Apart
  <2>3. Held' \subseteq Held \cup {new} BY <1>6
  <2> QED BY <2>2, <2>3 DEF Apart, Span
<1> QED BY <1>2, <1>3, <1>8, <1>9

LEMMA AppendType ==
  ASSUME Inv, NEW c \in Results, NEW s \in Spools, NEW n \in Nat, Append(c, s,
      n)
  PROVE  /\ bytes' \in Int
         /\ size' \in [Spools -> Nat] /\ length' \in [Spools -> Nat]
         /\ failed' \in [Spools -> BOOLEAN]
         /\ row' \in [Results -> SUBSET Values]
<1>1. size[s] \in Nat BY DEF Inv, TypeOK
<1>2. /\ bytes' \in Int /\ size' \in [Spools -> Nat]
      /\ failed' \in [Spools -> BOOLEAN]
  <2>1. bytes' \in Int BY DEF Inv, TypeOK, Append
  <2>2. size[s] + n \in Nat BY <1>1
  <2>3. size' \in [Spools -> Nat] BY <2>2 DEF Inv, TypeOK, Append
  <2>4. failed' \in [Spools -> BOOLEAN] BY DEF Inv, TypeOK, Append
  <2> QED BY <2>1, <2>3, <2>4
<1>3. length' \in [Spools -> Nat]
  <2>1. PICK k \in 0 .. n : length' = [length EXCEPT ![s] = size[s] + k]
    BY DEF Append
  <2> QED BY <1>1, <2>1 DEF Inv, TypeOK
<1>4. [spool |-> s, offset |-> size[s], len |-> n] \in Values BY <1>1 DEF
      Values
<1>5. row' \in [Results -> SUBSET Values] BY <1>4 DEF Inv, TypeOK, Append
<1> QED BY <1>2, <1>3, <1>5

LEMMA StoreInv ==
  ASSUME Inv, NEW c \in Results, NEW n \in Lengths, Store(c, n) PROVE Inv'
<1> DEFINE s == spool[c]
<1>1. s \in Spools /\ n \in Nat /\ size[s] \in Nat /\ n \in 1 .. MaxValue
  BY LimitAssumption DEF Inv, TypeOK, Lengths, Store
<1>2. (Files /\ Written /\ Apart /\ Limited)'
  <2>1. Room(s, n) /\ Append(c, s, n) /\ UNCHANGED <<spools, kept, reading>>
    BY DEF Store
  <2> QED BY <1>1, <2>1, Appended DEF Inv, Limited
<1>3. TypeOK'
  BY <1>1, AppendType DEF Inv, TypeOK, captures, Store
<1>4. /\ row' \in [Results -> SUBSET Values]
      /\ \A d \in Results \ {c} : row'[d] = row[d]
      /\ \A v \in row'[c] \ row[c] : v.spool = s
  BY <1>3 DEF Inv, TypeOK, Append, Store
<1>5. Live' BY <1>1, <1>4 DEF Inv, TypeOK, Live, Referenced, Shared, captures,
      Store
<1>6. Private' BY <1>1, <1>4 DEF Inv, TypeOK, Private, captures, Store
<1>7. Stages'
  BY <1>1, <1>4 DEF Inv, TypeOK, Checkpoints, Stages, Staged, captures, Append,
      Store
<1>8. Counted' BY DEF Inv, Counted, Present, Creating, captures, Store
<1> QED BY <1>2, <1>3, <1>5, <1>6, <1>7, <1>8 DEF Inv

LEMMA CreateInv ==
  ASSUME Inv, NEW c \in Results, NEW s \in Spools, Create(c, s) PROVE Inv'
<1> DEFINE n == want[c]
<1>1. n \in Nat /\ n \in 0 .. MaxValue /\ size[s] \in Nat
  BY LimitAssumption DEF Inv, TypeOK
<1>2. \/ Room(s, n) /\ Append(c, s, n)
      \/ UNCHANGED <<bytes, size, length, failed, row>>
  BY DEF Create
<1>3. (Files /\ Written /\ Apart /\ Limited)'
  <2>1. UNCHANGED <<spools, kept, reading>> BY DEF Create
  <2>2. CASE Room(s, n) /\ Append(c, s, n)
    BY <1>1, <2>1, <2>2, Appended DEF Inv, Limited
  <2>3. CASE UNCHANGED <<bytes, size, length, failed, row>>
    <3>1. Held' = Held BY <2>1, <2>3 DEF Held
    <3>2. (Files /\ Limited)' BY <2>1, <2>3 DEF Inv, Files, Limited
    <3> QED BY <2>3, <3>1, <3>2, ApartKept, WrittenKept DEF Inv
  <2> QED BY <1>2, <2>2, <2>3
<1>4. TypeOK'
  <2>1. /\ bytes' \in Int
        /\ size' \in [Spools -> Nat] /\ length' \in [Spools -> Nat]
        /\ failed' \in [Spools -> BOOLEAN]
        /\ row' \in [Results -> SUBSET Values]
    <3>1. CASE Append(c, s, n) BY <1>1, <3>1, AppendType
    <3>2. CASE UNCHANGED <<bytes, size, length, failed, row>>
      BY <3>2 DEF Inv, TypeOK
    <3> QED BY <1>2, <3>1, <3>2
  <2>2. /\ at' \in [Results -> At] /\ want' \in [Results -> 0 .. MaxValue]
        /\ spool' \in [Results -> Spools \cup {NoSpool}]
        /\ file' \in [Spools -> {"absent", "open", "closed"}]
    BY LimitAssumption DEF Inv, TypeOK, At, Create
  <2>3. UNCHANGED <<spools, checkpoint, orphaned, kept, reading>> BY DEF Create
  <2> QED BY <2>1, <2>2, <2>3 DEF Inv, TypeOK
<1>5. /\ \A d \in Results \ {c} : row'[d] = row[d]
      /\ \A v \in row'[c] \ row[c] : v.spool = s
  BY <1>2 DEF Inv, TypeOK, Append
<1>6. /\ ~Referenced(s) /\ spool[c] = NoSpool /\ checkpoint[c].spool = NoSpool
      /\ row[c] = {} /\ kept[c] = {}
  BY DEF Inv, Live, Stages, Staged, Create
<1>7. /\ spool' = [spool EXCEPT ![c] = s] /\ at' = [at EXCEPT ![c] = "row"]
      /\ file' = [file EXCEPT ![s] = "open"] /\ UNCHANGED <<checkpoint, kept,
          reading>>
  BY DEF Create
<1>8. Live'
  <2>1. \A t \in Spools \ {s} : Referenced(t)' => Referenced(t)
    BY <1>5, <1>7 DEF Inv, TypeOK, Referenced, Shared
  <2> QED BY <1>7, <2>1 DEF Inv, TypeOK, Live
<1>9. Private'
  BY <1>5, <1>6, <1>7 DEF Inv, TypeOK, Private, Referenced, Shared
<1>10. \A t \in Spools : size[t] <= size'[t] /\ size'[t] \in Nat
  BY <1>1, <1>2 DEF Inv, TypeOK, Append
<1>11. Stages'
  BY <1>5, <1>6, <1>7, <1>10, SpoolAssumption
  DEF Inv, TypeOK, Checkpoints, Stages, Staged
<1>12. Counted'
  <2>1. Present' = Present \cup {s} /\ s \notin Present
    BY <1>7 DEF Inv, TypeOK, Present, Create
  <2>2. Creating' = Creating \ {c} /\ c \in Creating
    BY <1>7 DEF Inv, TypeOK, Creating, Create
  <2>3. /\ Cardinality(Present') = Cardinality(Present) + 1
        /\ Cardinality(Creating') = Cardinality(Creating) - 1
    BY <2>1, <2>2, FiniteSets, FS_AddElement, FS_RemoveElement
  <2>4. Cardinality(Creating) \in Nat /\ Cardinality(Present) \in Nat
    BY FiniteSets, FS_CardinalityType
  <2> QED BY <2>3, <2>4 DEF Inv, Counted, Create
<1> QED BY <1>3, <1>4, <1>8, <1>9, <1>11, <1>12 DEF Inv

LEMMA ReturnInv == ASSUME Inv, NEW s \in Spools, Return(s) PROVE Inv'
<1>1. TypeOK' BY DEF Inv, TypeOK, captures, values, Return
<1>2. (Limited /\ Files)'
  BY LimitAssumption DEF Inv, TypeOK, Limited, Files, Return
<1>3. Held' = Held BY DEF Held, values, Return
<1>4. ~Referenced(s) BY DEF Inv, Live, Return
<1>5. Live'
  BY <1>4 DEF Inv, TypeOK, Live, Referenced, Shared, captures, values, Return
<1>6. Private' BY DEF Inv, Private, captures, values, Return
<1>7. Stages'
  BY <1>4 DEF Inv, TypeOK, Stages, Staged, Referenced, captures, values, Return
<1>8. Written'
  <2>1. \A v \in Held : v.spool # s /\ v.spool \in Spools
    BY <1>4, HeldBy DEF Referenced, Shared, Inv, TypeOK, Values
  <2> QED BY <1>3, <2>1 DEF Inv, TypeOK, Written, Return
<1>9. Apart' BY <1>3, ApartKept DEF Inv
<1>10. Counted'
  <2>1. Present' = Present \ {s} /\ s \in Present
    BY DEF Inv, TypeOK, Present, Return
  <2>2. Creating' = Creating BY DEF Creating, captures, Return
  <2>3. Cardinality(Present') = Cardinality(Present) - 1
    BY <2>1, FiniteSets, FS_RemoveElement
  <2>4. Cardinality(Creating) \in Nat /\ Cardinality(Present) \in Nat
    BY FiniteSets, FS_CardinalityType
  <2> QED BY <2>2, <2>3, <2>4 DEF Inv, Counted, Return
<1> QED BY <1>1, <1>2, <1>5, <1>6, <1>7, <1>8, <1>9, <1>10 DEF Inv

(* A discard closes the row's own file, changes nothing, or truncates the  *)
(* file behind the values of earlier rows.                                 *)
LEMMA DiscardInv == ASSUME Inv, NEW c \in Results, Discard(c) PROVE Inv'
<1>1. Held' \subseteq Held BY HeldKept DEF values, Discard
<1>2. Creating' = Creating BY DEF Inv, TypeOK, Creating, Discard
<1>3. \A s \in Spools : Referenced(s)' => Referenced(s)
  BY SpoolAssumption
  DEF Inv, TypeOK, Stages, Staged, Referenced, Shared, NoCheckpoint, values,
      Discard
<1>4. Private'
  BY SpoolAssumption
  DEF Inv, TypeOK, Private, Stages, Staged, NoCheckpoint, values, Discard
<1>5. at' = [at EXCEPT ![c] = "end"]
  /\ checkpoint' = [checkpoint EXCEPT ![c] = NoCheckpoint]
  /\ spool' = [spool EXCEPT ![c] = checkpoint[c].spool]
  /\ UNCHANGED <<spools, failed, want, orphaned, row, kept, reading>>
  BY DEF Discard, values
<1>6. CASE UNCHANGED <<bytes, size, length>>
  <2>1. UNCHANGED <<usage, size, length, failed>> BY <1>5, <1>6 DEF usage
  <2>2. Dropped BY DEF Discard
  <2>3. TypeOK'
    BY <1>5, <1>6, <2>2 DEF Inv, TypeOK, Checkpoints, NoCheckpoint, At, Dropped
  <2>4. Stages'
    BY <1>5, <1>6, SpoolAssumption
    DEF Inv, TypeOK, Stages, Staged, NoCheckpoint, Discard
  <2> QED BY <1>1, <1>2, <1>3, <1>4, <2>1, <2>2, <2>3, <2>4, Releases DEF Inv
<1>7. CASE checkpoint[c].spool # NoSpool /\ Truncate(c, spool[c])
  <2> DEFINE s == spool[c]
  <2> DEFINE start == checkpoint[c].bytes
  <2>1. /\ s \in Spools /\ checkpoint[c].spool = s /\ start \in Nat
        /\ start <= size[s] /\ size[s] \in Nat
        /\ \A v \in kept[c] : v.spool = s /\ v.offset + v.len <= start
        /\ row[c] = {}
    BY <1>7, SpoolAssumption DEF Inv, TypeOK, Checkpoints, Stages, Staged,
        Discard
  <2>2. /\ bytes' = bytes - (size[s] - start)
        /\ size' = [size EXCEPT ![s] = start]
        /\ length' = [length EXCEPT ![s] = start]
    BY <1>7 DEF Truncate
  <2>3. TypeOK'
    BY <1>5, <2>1, <2>2
    DEF Inv, TypeOK, Checkpoints, NoCheckpoint, At, Dropped, Discard
  <2>4. (Limited /\ Files)'
    <3>1. bytes' <= bytes /\ bytes' \in Int /\ bytes \in Int
      BY <2>1, <2>2 DEF Inv, TypeOK
    <3>2. \A t \in Spools : size'[t] <= size[t] /\ size'[t] \in Nat
      BY <2>1, <2>2 DEF Inv, TypeOK
    <3>3. Limited'
      BY <1>5, <3>1, <3>2, LimitAssumption DEF Inv, TypeOK, Limited
    <3>4. Files' BY <1>5, <2>1, <2>2 DEF Inv, TypeOK, Files
    <3> QED BY <3>3, <3>4
  <2>5. Live' BY <1>3 DEF Inv, TypeOK, Live, Dropped, Discard
  <2>6. Stages'
    BY <1>5, <2>1, <2>2 DEF Inv, TypeOK, Private, Stages, Staged, NoCheckpoint
  <2>7. \A v \in Held : v.spool = s => v.offset + v.len <= start
    <3>1. s # NoSpool BY <2>1, SpoolAssumption
    <3> QED BY <2>1, <3>1, HeldBy DEF Inv, Private
  <2>8. \A v \in Held : v.spool \in Spools BY HeldBy DEF Inv, TypeOK, Values
  <2>9. Written' BY <1>1, <2>2, <2>7, <2>8 DEF Inv, TypeOK, Written
  <2>10. Apart' BY <1>1, ApartKept DEF Inv
  <2>11. Counted'
    <3>1. Present' = Present BY DEF Inv, TypeOK, Present, Dropped, Discard
    <3> QED BY <1>2, <1>5, <3>1 DEF Inv, Counted
  <2> QED BY <1>4, <2>3, <2>4, <2>5, <2>6, <2>9, <2>10, <2>11 DEF Inv
<1> QED BY <1>6, <1>7 DEF Discard

-----------------------------------------------------------------------------
(* The theorems.                                                           *)

LEMMA InitInv == Init => Inv
<1> SUFFICES ASSUME Init PROVE Inv OBVIOUS
<1>1. TypeOK BY SpoolAssumption, LimitAssumption
             DEF Init, TypeOK, NoCheckpoint, Checkpoints, At
<1>2. Held = {}
  <2>1. \A v : v \notin Held BY HeldBy DEF Init
  <2> QED BY <2>1
<1>3. Written /\ Apart BY <1>2 DEF Written, Apart
<1>4. Limited /\ Files BY LimitAssumption DEF Init, Limited, Files
<1>5. Live /\ Private BY SpoolAssumption
  DEF Init, Live, Private, Referenced, Shared, NoCheckpoint
<1>6. Stages BY DEF Init, Stages, Staged, NoCheckpoint
<1>7. Counted
  <2>1. Present = {} /\ Creating = {} BY DEF Init, Present, Creating
  <2> QED BY <2>1, FS_EmptySet DEF Init, Counted
<1> QED BY <1>1, <1>3, <1>4, <1>5, <1>6, <1>7 DEF Inv

LEMMA NextInv == Inv /\ [Next]_vars => Inv'
<1> SUFFICES ASSUME Inv, [Next]_vars PROVE Inv' OBVIOUS
<1>1. ASSUME NEW c \in Results, Capture(c) PROVE Inv'
  BY <1>1, BeginInv, StartRowInv, ReserveInv, StoreInv, CreateFailsInv,
     CreateInv, AcceptRowInv, RejectRowInv, DiscardInv,
     DiscardFailsInv, AbortInv, OrphanInv, FinishInv DEF Capture
<1>2. ASSUME NEW c \in Results, DropPage(c) PROVE Inv' BY <1>2, DropPageInv
<1>3. ASSUME NEW c \in Results, Load(c) PROVE Inv' BY <1>3, LoadInv
<1>4. CASE LoadDone BY <1>4, LoadDoneInv
<1>5. ASSUME NEW s \in Spools, Return(s) PROVE Inv' BY <1>5, ReturnInv
<1>6. CASE UNCHANGED vars
  <2>1. UNCHANGED <<bytes, spools, file, size, length, failed, at, want, spool,
                    checkpoint, orphaned, row, kept, reading>>
    BY <1>6 DEF vars
  <2>2. Held' = Held BY <2>1 DEF Held
  <2> QED
    BY <2>1, <2>2 DEF Inv, TypeOK, Counted, Present, Creating, Limited, Files,
       Live, Referenced, Shared, Private, Stages, Staged, Written, Apart, Span
<1> QED BY <1>1, <1>2, <1>3, <1>4, <1>5, <1>6 DEF Next

(* The inductive invariant holds for any number of results and files and   *)
(* any limits.                                                             *)
THEOREM Invariance == Spec => []Inv
BY InitInv, NextInv, PTL DEF Spec

(* Every variable keeps its type. *)
THEOREM TypeCorrect == Spec => []TypeOK
<1>1. Inv => TypeOK BY DEF Inv
<1> QED BY <1>1, Invariance, PTL

(* Two captures that race for the quota between its two checks never take  *)
(* more than it allows, in bytes, files or descriptors.                    *)
THEOREM QuotasKept == Spec => []Quotas
<1>1. Inv => Quotas
  <2> SUFFICES ASSUME Inv PROVE Quotas OBVIOUS
  <2> DEFINE open == {s \in Spools : file[s] = "open"}
  <2>1. open \subseteq Present BY DEF Present
  <2>2. Cardinality(open) <= Cardinality(Present) /\ Cardinality(open) \in Nat
    BY <2>1, FiniteSets, FS_Subset, FS_CardinalityType
  <2>3. Cardinality(Creating) \in Nat /\ Cardinality(Present) \in Nat
    BY FiniteSets, FS_CardinalityType
  <2>4. Cardinality(open) <= MaxSpools
    BY <2>2, <2>3, LimitAssumption DEF Inv, Counted, Limited
  <2> QED BY <2>4 DEF Inv, Limited, Quotas
<1> QED BY <1>1, Invariance, PTL

(* No write, truncation, drop or closing of a file touches a value that a  *)
(* result, a page or the reader still holds.                               *)
THEOREM ValuesRetained == Spec => []Retained
<1>1. Inv => Retained
  <2> SUFFICES ASSUME Inv PROVE Retained OBVIOUS
  <2>1. \A v \in Held : v.spool \in Spools /\ Referenced(v.spool)
    BY HeldBy DEF Inv, TypeOK, Values, Referenced, Shared
  <2>2. \A v \in Held : file[v.spool] = "open" BY <2>1 DEF Inv, Live
  <2> QED BY <2>2 DEF Inv, Written, Apart, Retained
<1> QED BY <1>1, Invariance, PTL

(* A rejected row can always be discarded: the error branches of           *)
(* discard_since are unreachable.                                          *)
THEOREM DiscardsPossible == Spec => []DiscardPossible
<1>1. ASSUME Inv, NEW c \in Results, at[c] = "rejected" PROVE ~Refused(c)
  <2>1. CASE spool[c] # NoSpool /\ checkpoint[c].spool = NoSpool
    <3>1. row[c] = {} /\ kept[c] = {} BY <1>1, <2>1 DEF Inv, Stages, Staged
    <3>2. ~Shared(spool[c]) BY <1>1, <2>1, <3>1 DEF Inv, Private, Shared
    <3> QED BY <2>1, <3>2 DEF Refused
  <2>2. CASE spool[c] # NoSpool /\ checkpoint[c].spool # NoSpool
    <3>1. checkpoint[c].spool = spool[c] /\ checkpoint[c].bytes <=
          size[spool[c]]
      BY <1>1, <2>2 DEF Inv, Stages, Staged
    <3>2. /\ checkpoint[c].bytes \in Nat /\ spool[c] \in Spools
          /\ size[spool[c]] \in Nat
      BY <1>1, <2>2 DEF Inv, TypeOK, Checkpoints
    <3> QED BY <2>2, <3>1, <3>2 DEF Refused
  <2> QED BY <2>1, <2>2 DEF Refused
<1>2. Inv => DiscardPossible BY <1>1 DEF DiscardPossible
<1> QED BY <1>2, Invariance, PTL
-----------------------------------------------------------------------------
(***************************************************************************)
(* The bytes of the quota.  Their sum over the files is the number of      *)
(* places that are reserved in them, which needs no recursion to count.    *)
(***************************************************************************)

Pick(T) == CHOOSE s \in T : TRUE
Summed(g, v, S) ==
  g = [T \in SUBSET S |-> IF T = {} THEN 0 ELSE v[Pick(T)] + g[T \ {Pick(T)}]]

Places(v, T) == {p \in T \X Nat : p[2] < v[p[1]]}
Bounded(v, S, m) == \A s \in S : v[s] \in Nat /\ v[s] <= m

\* The places of one file.
LEMMA Column ==
  ASSUME NEW s, NEW n \in Nat
  PROVE  /\ IsFiniteSet({s} \X (0 .. n - 1))
         /\ Cardinality({s} \X (0 .. n - 1)) = n
<1>1. IsFiniteSet({s}) /\ Cardinality({s}) = 1 BY FS_Singleton
<1>2. IsFiniteSet(0 .. n - 1) /\ Cardinality(0 .. n - 1) = n
  <2>1. 0 \in Int /\ n - 1 \in Int OBVIOUS
  <2>2. IsFiniteSet(0 .. n - 1)
        /\ Cardinality(0 .. n - 1) = IF 0 > n - 1 THEN 0 ELSE (n - 1) - 0 + 1
    BY <2>1, FS_Interval
  <2> QED BY <2>2
<1>3. /\ IsFiniteSet({s} \X (0 .. n - 1))
      /\ Cardinality({s} \X (0 .. n - 1)) = Cardinality({s}) * Cardinality(0 .. n - 1)
  BY <1>1, <1>2, FS_Product
<1>4. 1 * n = n OBVIOUS
<1> QED BY <1>1, <1>2, <1>3, <1>4

\* Finitely many files have finitely many places.
LEMMA PlacesFinite ==
  ASSUME NEW T, IsFiniteSet(T), NEW v, NEW m \in Nat, Bounded(v, T, m)
  PROVE  IsFiniteSet(Places(v, T)) /\ Cardinality(Places(v, T)) \in Nat
<1>1. IsFiniteSet(0 .. m)
  <2>1. 0 \in Int /\ m \in Int OBVIOUS
  <2> QED BY <2>1, FS_Interval
<1>2. IsFiniteSet(T \X (0 .. m)) BY <1>1, FS_Product
<1>3. Places(v, T) \in SUBSET (T \X (0 .. m))
  <2> SUFFICES ASSUME NEW s \in T, NEW k \in Nat, k < v[s] PROVE k \in 0 .. m
    BY DEF Places
  <2>1. v[s] \in Nat /\ v[s] <= m BY DEF Bounded
  <2> QED BY <2>1
<1> QED BY <1>2, <1>3, FS_Subset, FS_CardinalityType

\* One file's places are apart from the others'.
LEMMA PlacesSplit ==
  ASSUME NEW T, IsFiniteSet(T), NEW v, NEW m \in Nat, Bounded(v, T, m), NEW x \in T
  PROVE  Cardinality(Places(v, T)) = Cardinality(Places(v, T \ {x})) + v[x]
<1> DEFINE rest == Places(v, T \ {x})
           own == {x} \X (0 .. v[x] - 1)
<1>1. v[x] \in Nat BY DEF Bounded
<1>2. IsFiniteSet(own) /\ Cardinality(own) = v[x] BY <1>1, Column
<1>3. IsFiniteSet(T \ {x}) /\ Bounded(v, T \ {x}, m) BY FS_RemoveElement DEF Bounded
<1>4. IsFiniteSet(rest) /\ Cardinality(rest) \in Nat BY <1>3, PlacesFinite
<1>5. Places(v, T) = rest \cup own
  <2>1. \A s \in T, k \in Nat :
          k < v[s] <=> (s \in T \ {x} /\ k < v[s]) \/ (s = x /\ k \in 0 .. v[x] - 1)
    BY <1>1
  <2> QED BY <2>1, <1>1 DEF Places
<1>6. rest \cap own = {} BY DEF Places
<1>7. Cardinality({}) = 0 BY FS_EmptySet
<1> HIDE DEF rest, own
<1>8. Cardinality(rest \cup own) = Cardinality(rest) + Cardinality(own) - Cardinality(rest \cap own)
  BY <1>2, <1>4, FS_Union
<1>9. Cardinality(Places(v, T)) = Cardinality(rest) + v[x]
  BY <1>1, <1>2, <1>4, <1>5, <1>6, <1>7, <1>8
<1> QED BY <1>9 DEF rest

\* No file has no place.
LEMMA NoPlaces == ASSUME NEW v PROVE Cardinality(Places(v, {})) = 0
<1>1. Places(v, {}) = {} BY DEF Places
<1> QED BY <1>1, FS_EmptySet

\* Whatever satisfies the recursion counts the places.
LEMMA SumUnique ==
  ASSUME NEW S, IsFiniteSet(S), NEW v, NEW m \in Nat, Bounded(v, S, m),
         NEW g, Summed(g, v, S)
  PROVE  g[S] = Cardinality(Places(v, S))
<1> DEFINE bad == {T \in SUBSET S : g[T] # Cardinality(Places(v, T))}
<1>1. SUFFICES ASSUME bad # {} PROVE FALSE OBVIOUS
<1>2. IsWellFoundedOn(StrictSubsetOrdering(S), FiniteSubsetsOf(S))
  BY FS_StrictSubsetOrderingWellFounded
<1>3. bad \subseteq FiniteSubsetsOf(S) BY FS_FiniteSubsetsOfFinite
<1>4. PICK T \in bad : \A U \in bad : <<U, T>> \notin StrictSubsetOrdering(S)
  <2> HIDE DEF bad
  <2> QED BY <1>1, <1>2, <1>3, WFMin
<1>5. \A U \in SUBSET T : U # T => g[U] = Cardinality(Places(v, U))
  BY <1>4 DEF StrictSubsetOrdering
<1>6. g[{}] = 0 BY DEF Summed
<1>7. T # {} BY <1>4, <1>6, NoPlaces
<1>8. Pick(T) \in T BY <1>7 DEF Pick
<1>9. g[T] = v[Pick(T)] + g[T \ {Pick(T)}] BY <1>4, <1>7 DEF Summed
<1>10. g[T \ {Pick(T)}] = Cardinality(Places(v, T \ {Pick(T)})) BY <1>5, <1>8
<1>11. IsFiniteSet(T) /\ Bounded(v, T, m) BY <1>4, FS_Subset DEF Bounded
<1>12. Cardinality(Places(v, T)) = Cardinality(Places(v, T \ {Pick(T)})) + v[Pick(T)]
  BY <1>8, <1>11, PlacesSplit
<1>13. v[Pick(T)] \in Nat BY <1>8, <1>11 DEF Bounded
<1>14. IsFiniteSet(T \ {Pick(T)}) /\ Bounded(v, T \ {Pick(T)}, m)
  BY <1>11, FS_RemoveElement DEF Bounded
<1>15. Cardinality(Places(v, T \ {Pick(T)})) \in Nat BY <1>14, PlacesFinite
<1>16. g[T] = Cardinality(Places(v, T)) BY <1>9, <1>10, <1>12, <1>13, <1>15
<1> QED BY <1>4, <1>16

\* The count of the places satisfies the recursion.
LEMMA SumExists ==
  ASSUME NEW S, IsFiniteSet(S), NEW v, NEW m \in Nat, Bounded(v, S, m)
  PROVE  \E g : Summed(g, v, S)
<1> DEFINE g == [T \in SUBSET S |-> Cardinality(Places(v, T))]
<1>1. ASSUME NEW T \in SUBSET S
      PROVE  g[T] = IF T = {} THEN 0 ELSE v[Pick(T)] + g[T \ {Pick(T)}]
  <2>1. CASE T = {} BY <2>1, NoPlaces
  <2>2. CASE T # {}
    <3>1. Pick(T) \in T BY <2>2 DEF Pick
    <3>2. IsFiniteSet(T) /\ Bounded(v, T, m) BY FS_Subset DEF Bounded
    <3>3. Cardinality(Places(v, T)) = Cardinality(Places(v, T \ {Pick(T)})) + v[Pick(T)]
      BY <3>1, <3>2, PlacesSplit
    <3>4. v[Pick(T)] \in Nat BY <3>1, <3>2 DEF Bounded
    <3>5. IsFiniteSet(T \ {Pick(T)}) /\ Bounded(v, T \ {Pick(T)}, m)
      BY <3>2, FS_RemoveElement DEF Bounded
    <3>6. Cardinality(Places(v, T \ {Pick(T)})) \in Nat BY <3>5, PlacesFinite
    <3>7. g[T \ {Pick(T)}] = Cardinality(Places(v, T \ {Pick(T)})) OBVIOUS
    <3> QED BY <2>2, <3>3, <3>4, <3>6, <3>7
  <2> QED BY <2>1, <2>2
<1>2. g = [T \in SUBSET S |-> g[T]] OBVIOUS
<1> HIDE DEF g
<1>3. Summed(g, v, S) BY <1>1, <1>2 DEF Summed
<1> QED BY <1>3

\* What the quota's sum is.
LEMMA Sums ==
  ASSUME NEW S, IsFiniteSet(S), NEW v, NEW m \in Nat, Bounded(v, S, m)
  PROVE  (CHOOSE g : Summed(g, v, S))[S] = Cardinality(Places(v, S))
<1> DEFINE g == CHOOSE h : Summed(h, v, S)
<1>1. Summed(g, v, S) BY SumExists
<1> HIDE DEF g
<1>2. g[S] = Cardinality(Places(v, S)) BY <1>1, SumUnique
<1> QED BY <1>2 DEF g

-----------------------------------------------------------------------------
\* A file that does not exist has reserved nothing; the others' places are
\* the bytes that are counted.
Blank == \A s \in Spools : file[s] = "absent" => size[s] = 0
Balanced == Blank /\ bytes = Cardinality(Places(size, Present))

\* The sizes of the files that exist are bounded.
LEMMA SizesBounded ==
  ASSUME Inv
  PROVE  /\ IsFiniteSet(Present) /\ MaxResult \in Nat
         /\ Bounded(size, Present, MaxResult)
  BY FiniteSets, LimitAssumption DEF Inv, TypeOK, Limited, Bounded, Present

\* No file's existence or size changes.
LEMMA BalanceKept ==
  ASSUME Inv, Balanced, UNCHANGED <<bytes, size>>,
         \A s \in Spools : file'[s] = "absent" <=> file[s] = "absent"
  PROVE  Balanced'
<1>1. Present' = Present BY DEF Present
<1> QED BY <1>1 DEF Balanced, Blank

\* One file changes, and the bytes change by as much.
Own(s) == IF file[s] = "absent" THEN 0 ELSE size[s]
LEMMA Resized ==
  ASSUME Inv, Inv', Balanced, NEW s \in Spools, bytes' - Own(s)' = bytes - Own(s),
         \A t \in Spools \ {s} : /\ file'[t] = "absent" <=> file[t] = "absent"
                                 /\ size'[t] = size[t]
  PROVE  bytes' = Cardinality(Places(size, Present)')
<1> DEFINE others == Places(size, Present \ {s})
<1>0. /\ bytes = Cardinality(Places(size, Present)) /\ bytes' \in Int /\ bytes \in Int
      /\ size[s] \in Nat /\ size'[s] \in Nat
  BY DEF Balanced, Inv, TypeOK
<1>1. Present' \ {s} = Present \ {s} BY DEF Present
<1>2. Places(size', Present' \ {s}) = others BY <1>1 DEF Places, Present
<1>3. IsFiniteSet(others) /\ Cardinality(others) \in Nat
  <2>1. IsFiniteSet(Present \ {s}) /\ Bounded(size, Present \ {s}, MaxResult)
    BY SizesBounded, FS_RemoveElement DEF Bounded
  <2> QED BY <2>1, SizesBounded, PlacesFinite
<1>4. Cardinality(Places(size, Present)) = Cardinality(others) + Own(s)
  <2>1. CASE s \in Present
    <3>1. Cardinality(Places(size, Present)) = Cardinality(others) + size[s]
      BY <2>1, SizesBounded, PlacesSplit
    <3> QED BY <2>1, <3>1 DEF Own, Present
  <2>2. CASE s \notin Present
    <3>1. Present \ {s} = Present BY <2>2
    <3> QED BY <2>2, <3>1, <1>3 DEF Own, Present
  <2> QED BY <2>1, <2>2
<1>5. Cardinality(Places(size', Present')) = Cardinality(others) + Own(s)'
  <2>0. IsFiniteSet(Present') /\ Bounded(size', Present', MaxResult) /\ MaxResult \in Nat
    <3>1. Present' \in SUBSET Spools BY DEF Present
    <3>2. IsFiniteSet(Present') BY <3>1, SpoolAssumption, FS_Subset
    <3>3. Bounded(size', Present', MaxResult)
      BY <3>1 DEF Inv, TypeOK, Limited, Bounded
    <3> QED BY <3>2, <3>3, LimitAssumption
  <2>1. CASE s \in Present'
    <3>1. Cardinality(Places(size', Present'))
            = Cardinality(Places(size', Present' \ {s})) + size'[s]
      BY <2>0, <2>1, PlacesSplit
    <3> QED BY <2>1, <3>1, <1>2 DEF Own, Present
  <2>2. CASE s \notin Present'
    <3>1. Present' \ {s} = Present' BY <2>2
    <3> QED BY <2>2, <3>1, <1>2, <1>3 DEF Own, Present
  <2> QED BY <2>1, <2>2
<1> HIDE DEF others
<1>6. Own(s) \in Int /\ Own(s)' \in Int BY <1>0 DEF Own
<1>7. bytes' = Cardinality(others) + Own(s)' BY <1>0, <1>3, <1>4, <1>6
<1> QED BY <1>5, <1>7

\* A value is reserved whether or not its write succeeds.
LEMMA AppendBalanced ==
  ASSUME Inv, Inv', Balanced, NEW c \in Results, NEW s \in Spools, NEW n \in Nat,
         Append(c, s, n), file'[s] # "absent",
         file[s] = "absent" => size[s] = 0,
         \A t \in Spools \ {s} : file'[t] = file[t]
  PROVE  Balanced'
<1>1. /\ bytes' = bytes + n /\ size'[s] = size[s] + n /\ bytes \in Int /\ size[s] \in Nat
      /\ \A t \in Spools \ {s} : size'[t] = size[t]
  BY DEF Inv, TypeOK, Append
<1>2. Own(s)' = size[s] + n /\ Own(s) = size[s] BY <1>1 DEF Own
<1>3. bytes' - Own(s)' = bytes - Own(s) BY <1>1, <1>2
<1>4. bytes' = Cardinality(Places(size, Present)') BY <1>1, <1>3, Resized
<1>5. Blank' BY <1>1 DEF Balanced, Blank
<1> QED BY <1>4, <1>5 DEF Balanced

LEMMA CreateBalanced ==
  ASSUME Inv, Inv', Balanced, NEW c \in Results, NEW s \in Spools, Create(c, s)
  PROVE  Balanced'
<1>1. /\ file[s] = "absent" /\ file'[s] = "open" /\ size[s] = 0 /\ want[c] \in Nat
      /\ \A t \in Spools \ {s} : file'[t] = file[t]
  BY LimitAssumption DEF Inv, TypeOK, Balanced, Blank, Create
<1>2. CASE Append(c, s, want[c]) BY <1>1, <1>2, AppendBalanced
<1>3. CASE UNCHANGED <<bytes, size>>
  <2>1. Own(s)' = 0 /\ Own(s) = 0 BY <1>1, <1>3 DEF Own
  <2>2. bytes' = Cardinality(Places(size, Present)') BY <1>1, <1>3, <2>1, Resized
  <2>3. Blank' BY <1>1, <1>3 DEF Balanced, Blank
  <2> QED BY <2>2, <2>3 DEF Balanced
<1> QED BY <1>2, <1>3 DEF Create

LEMMA StoreBalanced ==
  ASSUME Inv, Inv', Balanced, NEW c \in Results, NEW n \in Lengths, Store(c, n)
  PROVE  Balanced'
<1>1. spool[c] \in Spools /\ file[spool[c]] = "open" /\ file' = file
  BY DEF Inv, TypeOK, Live, Referenced, Store
<1>2. n \in Nat /\ Append(c, spool[c], n) BY LimitAssumption DEF Lengths, Store
<1> QED BY <1>1, <1>2, AppendBalanced

LEMMA DiscardBalanced ==
  ASSUME Inv, Inv', Balanced, NEW c \in Results, Discard(c)
  PROVE  Balanced'
<1>1. \A s \in Spools : file'[s] = "absent" <=> file[s] = "absent"
  BY DEF Inv, TypeOK, Discard, Dropped
<1>2. CASE UNCHANGED <<bytes, size>> BY <1>1, <1>2, BalanceKept
<1>3. CASE checkpoint[c].spool # NoSpool /\ Truncate(c, spool[c])
  <2>1. checkpoint[c].spool \in {NoSpool, spool[c]} /\ checkpoint[c] \in Checkpoints
    BY DEF Inv, TypeOK, Stages, Staged
  <2>2. PICK s \in Spools, start \in Nat : s = spool[c] /\ start = checkpoint[c].bytes
    BY <1>3, <2>1, SpoolAssumption DEF Inv, TypeOK, Checkpoints
  <2>3. file[s] = "open" BY <2>2 DEF Inv, Live, Referenced
  <2>4. /\ bytes' = bytes - (size[s] - start) /\ size'[s] = start
        /\ bytes \in Int /\ size[s] \in Nat
        /\ \A t \in Spools \ {s} : size'[t] = size[t]
    BY <1>3, <2>2 DEF Inv, TypeOK, Truncate
  <2>5. Own(s)' = start /\ Own(s) = size[s] BY <1>1, <2>2, <2>3, <2>4 DEF Own
  <2>6. bytes' - Own(s)' = bytes - Own(s) BY <2>2, <2>4, <2>5
  <2>7. bytes' = Cardinality(Places(size, Present)') BY <1>1, <2>2, <2>4, <2>6, Resized
  <2>8. Blank' BY <1>1, <2>3, <2>4 DEF Balanced, Blank
  <2> QED BY <2>7, <2>8 DEF Balanced
<1> QED BY <1>2, <1>3 DEF Discard

LEMMA ReturnBalanced ==
  ASSUME Inv, Inv', Balanced, NEW s \in Spools, Return(s)
  PROVE  Balanced'
<1>1. /\ file[s] = "closed" /\ file'[s] = "absent" /\ size'[s] = 0
      /\ bytes' = bytes - size[s] /\ bytes \in Int /\ size[s] \in Nat
      /\ \A t \in Spools \ {s} : file'[t] = file[t] /\ size'[t] = size[t]
  BY DEF Inv, TypeOK, Return
<1>2. Own(s)' = 0 /\ Own(s) = size[s] BY <1>1 DEF Own
<1>3. bytes' - Own(s)' = bytes - Own(s) BY <1>1, <1>2
<1>4. bytes' = Cardinality(Places(size, Present)') BY <1>1, <1>3, Resized
<1>5. Blank' BY <1>1 DEF Balanced, Blank
<1> QED BY <1>4, <1>5 DEF Balanced

\* The other steps neither write nor truncate, create nor return.
LEMMA QuietBalanced ==
  ASSUME Inv, Balanced, UNCHANGED <<bytes, size>>, Dropped \/ UNCHANGED file
  PROVE  Balanced'
<1>1. \A s \in Spools : file'[s] = "absent" <=> file[s] = "absent"
  BY DEF Inv, TypeOK, Dropped
<1> QED BY <1>1, BalanceKept

LEMMA NextBalanced == Inv /\ Balanced /\ Inv' /\ [Next]_vars => Balanced'
<1> SUFFICES ASSUME Inv, Balanced, Inv', [Next]_vars PROVE Balanced' OBVIOUS
<1>1. ASSUME NEW c \in Results, Capture(c) PROVE Balanced'
  <2>1. CASE \E n \in Lengths : Store(c, n) BY <2>1, StoreBalanced
  <2>2. CASE \E s \in Spools : Create(c, s) BY <2>2, CreateBalanced
  <2>3. CASE Discard(c) BY <2>3, DiscardBalanced
  <2>4. CASE \/ Begin(c) \/ StartRow(c) \/ (\E n \in Lengths : Reserve(c, n))
             \/ CreateFails(c)
    BY <2>4, QuietBalanced DEF Begin, StartRow, Reserve, CreateFails, files, usage
  <2>5. CASE AcceptRow(c) \/ RejectRow(c) \/ DiscardFails(c) \/ Abort(c) \/ Orphan(c)
             \/ Finish(c)
    BY <2>5, QuietBalanced DEF AcceptRow, RejectRow, DiscardFails, Abort, Orphan,
       Finish, usage
  <2> QED BY <1>1, <2>1, <2>2, <2>3, <2>4, <2>5 DEF Capture
<1>2. ASSUME NEW c \in Results, DropPage(c) \/ Load(c) PROVE Balanced'
  BY <1>2, QuietBalanced DEF DropPage, Load, usage, files
<1>3. CASE LoadDone BY <1>3, QuietBalanced DEF LoadDone, usage
<1>4. ASSUME NEW s \in Spools, Return(s) PROVE Balanced' BY <1>4, ReturnBalanced
<1>5. CASE UNCHANGED vars BY <1>5, QuietBalanced DEF vars
<1> QED BY <1>1, <1>2, <1>3, <1>4, <1>5 DEF Next

LEMMA InitBalanced == Init => Balanced
<1> SUFFICES ASSUME Init PROVE Balanced OBVIOUS
<1>1. Present = {} BY DEF Init, Present
<1> QED BY <1>1, NoPlaces DEF Init, Balanced, Blank

(* The quota counts exactly the files that exist, are closing or are about *)
(* to be created, and their reserved bytes: failed writes, discarded rows, *)
(* orphaned workers and dropped pages leak nothing and return nothing      *)
(* twice (Usage, and Drop for Spool).                                      *)
THEOREM QuotaExact == Spec => []Accounted
<1>1. Inv /\ Balanced => Accounted
  <2> SUFFICES ASSUME Inv, Balanced PROVE Accounted OBVIOUS
  <2>1. (CHOOSE g : Summed(g, size, Present))[Present]
          = Cardinality(Places(size, Present))
    BY SizesBounded, Sums
  <2>2. /\ bytes = (CHOOSE g : Summed(g, size, Present))[Present]
        /\ spools = Cardinality(Present) + Cardinality(Creating)
    BY <2>1 DEF Balanced, Inv, Counted
  <2> QED BY <2>2 DEF Accounted, MapThenSumSet, MapThenFoldSet, Summed, Pick
<1>2. Spec => []Balanced
  BY Invariance, InitBalanced, NextBalanced, PTL DEF Spec
<1> QED BY <1>1, <1>2, Invariance, PTL
=============================================================================
