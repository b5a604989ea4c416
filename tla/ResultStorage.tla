---------------------------- MODULE ResultStorage ----------------------------
(***************************************************************************)
(* The storage of captured SQL values (src/src/result_storage.rs) with the *)
(* workers that fill it, row by row (src/src/db/sqlite.rs, postgres.rs),   *)
(* and the one reader of complete values (src/src/app/full_value.rs).      *)
(*                                                                         *)
(* Every result may keep its long values in one anonymous file, a spool.   *)
(* Spools are reference counted: the capture, its checkpoint and every     *)
(* value hold one.  The owner's quota counts files and bytes under a lock  *)
(* of its own, and the capture workers of several databases run at once.   *)
(*                                                                         *)
(* A step ends where a lock is released that somebody else may take.  A    *)
(* spool's lock is held during a whole write, so a write is one step.      *)
(***************************************************************************)
EXTENDS Integers, FiniteSets, FiniteSetsExt

CONSTANTS
  Results,    \* the results being captured or kept by pages
  Spools,     \* the identities of files
  NoSpool,    \* Option<Arc<Spool>>::None
  MaxValue,   \* MAX_FULL_VALUE
  MaxResult,  \* MAX_RESULT_CAPTURE
  MaxOwner,   \* MAX_OWNER_CAPTURE
  MaxSpools   \* MAX_SPOOLS

ASSUME SpoolAssumption == NoSpool \notin Spools /\ IsFiniteSet(Spools)
ASSUME ResultAssumption == IsFiniteSet(Results)
ASSUME LimitAssumption ==
  /\ MaxValue \in Nat /\ MaxResult \in Nat /\ MaxOwner \in Nat
  /\ MaxSpools \in Nat

VARIABLES
  bytes, spools,          \* Usage: the bytes and files of the whole process
  file,                   \* per spool: absent, open, or closed but counted
  size, length, failed,   \* FileState: reserved bytes, written bytes, failed
  at,                     \* per result: where its worker is
  want,                   \* the value whose file is being created
  spool, checkpoint,      \* the capture's file and the row's start in it
  orphaned,               \* the operation was dropped under its worker
  row, kept,              \* the values of the current row, and of the result
  reading                 \* the values cloned for the full-value worker

usage == <<bytes, spools>>
files == <<file, size, length, failed>>
captures == <<at, want, spool, checkpoint, orphaned>>
values == <<row, kept, reading>>
vars == <<bytes, spools, file, size, length, failed, at, want, spool,
          checkpoint, orphaned, row, kept, reading>>

Lengths == 1 .. MaxValue
Values == [spool : Spools, offset : Nat, len : Nat]
Checkpoints == [spool : Spools \cup {NoSpool}, bytes : Nat]
NoCheckpoint == [spool |-> NoSpool, bytes |-> 0]
At == {"idle", "between", "row", "creating", "rejected", "end", "page"}

(* The bytes a value occupies in its file. *)
Span(v) == v.offset .. (v.offset + v.len - 1)

(* The references other than the capture's own.                            *)
Shared(s) == \/ \E c \in Results : checkpoint[c].spool = s
             \/ \E c \in Results : \E v \in row[c] \cup kept[c] : v.spool = s
             \/ \E v \in reading : v.spool = s
Referenced(s) == Shared(s) \/ \E c \in Results : spool[c] = s

(* The last reference drops the spool, which closes the descriptor first.  *)
Dropped == file' = [s \in Spools |->
             IF file[s] = "open" /\ ~Referenced(s)' THEN "closed" ELSE file[s]]

Init ==
  /\ bytes = 0 /\ spools = 0
  /\ file = [s \in Spools |-> "absent"]
  /\ size = [s \in Spools |-> 0]
  /\ length = [s \in Spools |-> 0]
  /\ failed = [s \in Spools |-> FALSE]
  /\ at = [c \in Results |-> "idle"]
  /\ want = [c \in Results |-> 0]
  /\ spool = [c \in Results |-> NoSpool]
  /\ checkpoint = [c \in Results |-> NoCheckpoint]
  /\ orphaned = {}
  /\ row = [c \in Results |-> {}]
  /\ kept = [c \in Results |-> {}]
  /\ reading = {}

-----------------------------------------------------------------------------
(* The worker of one result.                                               *)

Begin(c) ==
  /\ at[c] = "idle"
  /\ at' = [at EXCEPT ![c] = "between"]
  /\ UNCHANGED <<usage, files, want, spool, checkpoint, orphaned, values>>

(* A row starts with a checkpoint of the capture. *)
StartRow(c) ==
  /\ at[c] = "between"
  /\ at' = [at EXCEPT ![c] = "row"]
  /\ checkpoint' = [checkpoint EXCEPT ![c] =
       [spool |-> spool[c],
        bytes |-> IF spool[c] = NoSpool THEN 0 ELSE size[spool[c]]]]
  /\ UNCHANGED <<usage, files, want, spool, orphaned, values>>

(* store() without a file: one is reserved, if the quota allows it. *)
Reserve(c, n) ==
  /\ at[c] = "row" /\ spool[c] = NoSpool
  /\ spools < MaxSpools
  /\ bytes + n <= MaxOwner
  /\ spools' = spools + 1
  /\ at' = [at EXCEPT ![c] = "creating"]
  /\ want' = [want EXCEPT ![c] = n]
  /\ UNCHANGED <<bytes, files, spool, checkpoint, orphaned, values>>

\* Mutant: a file that cannot be created stays counted.
CreateFailsCounted(c) ==
  /\ at[c] = "creating"
  /\ at' = [at EXCEPT ![c] = "row"]
  /\ want' = [want EXCEPT ![c] = 0]
  /\ UNCHANGED <<usage, files, spool, checkpoint, orphaned, values>>

CreateFails(c) ==
  /\ at[c] = "creating"
  /\ spools' = spools - 1
  /\ at' = [at EXCEPT ![c] = "row"]
  /\ want' = [want EXCEPT ![c] = 0]
  /\ UNCHANGED <<bytes, files, spool, checkpoint, orphaned, values>>

\* Mutant: the quota is checked only when the file is reserved.
RoomReserved(s, n) == ~failed[s] /\ size[s] + n <= MaxResult

(* The new file's first value still meets both limits on bytes, of which   *)
(* other captures may have taken their share meanwhile.                    *)
Room(s, n) == ~failed[s] /\ size[s] + n <= MaxResult /\ bytes + n <= MaxOwner

(* A value is written after the file's reserved bytes; a write that fails  *)
(* after k bytes keeps its reservation and the file takes no other value.  *)
Append(c, s, n) ==
  /\ bytes' = bytes + n
  /\ size' = [size EXCEPT ![s] = size[s] + n]
  /\ \/ /\ length' = [length EXCEPT ![s] = size[s] + n]
        /\ row' = [row EXCEPT ![c] = row[c] \cup
                     {[spool |-> s, offset |-> size[s], len |-> n]}]
        /\ UNCHANGED failed
     \/ /\ \E k \in 0 .. n : length' = [length EXCEPT ![s] = size[s] + k]
        /\ failed' = [failed EXCEPT ![s] = TRUE]
        /\ UNCHANGED row

Create(c, s) ==
  /\ at[c] = "creating" /\ file[s] = "absent"
  /\ file' = [file EXCEPT ![s] = "open"]
  /\ spool' = [spool EXCEPT ![c] = s]
  /\ at' = [at EXCEPT ![c] = "row"]
  /\ want' = [want EXCEPT ![c] = 0]
  /\ IF Room(s, want[c]) THEN Append(c, s, want[c])
                         ELSE UNCHANGED <<bytes, size, length, failed, row>>
  /\ UNCHANGED <<spools, checkpoint, orphaned, kept, reading>>

Store(c, n) ==
  /\ at[c] = "row" /\ spool[c] # NoSpool
  /\ Room(spool[c], n)
  /\ Append(c, spool[c], n)
  /\ UNCHANGED <<spools, file, captures, kept, reading>>

(* Data::push takes the row, or refuses it and drops its cells.            *)
AcceptRow(c) ==
  /\ at[c] = "row" /\ c \notin orphaned
  /\ at' = [at EXCEPT ![c] = "between"]
  /\ kept' = [kept EXCEPT ![c] = kept[c] \cup row[c]]
  /\ row' = [row EXCEPT ![c] = {}]
  /\ checkpoint' = [checkpoint EXCEPT ![c] = NoCheckpoint]
  /\ UNCHANGED <<usage, size, length, failed, want, spool, orphaned, reading>>
  /\ Dropped

RejectRow(c) ==
  /\ at[c] = "row" /\ c \notin orphaned
  /\ at' = [at EXCEPT ![c] = "rejected"]
  /\ row' = [row EXCEPT ![c] = {}]
  /\ UNCHANGED <<usage, size, length, failed, want, spool, checkpoint,
                 orphaned, kept, reading>>
  /\ Dropped

(* Everything the worker and its operation hold is dropped. *)
Abandoned(c) ==
  /\ at' = [at EXCEPT ![c] = "idle"]
  /\ spool' = [spool EXCEPT ![c] = NoSpool]
  /\ checkpoint' = [checkpoint EXCEPT ![c] = NoCheckpoint]
  /\ row' = [row EXCEPT ![c] = {}]
  /\ kept' = [kept EXCEPT ![c] = {}]
  /\ orphaned' = orphaned \ {c}

(* When discard_since refuses: the three cases say "still referenced", "does *)
(* not match" and "no longer valid".                                        *)
Refused(c) ==
  /\ spool[c] # NoSpool
  /\ IF checkpoint[c].spool = NoSpool
       THEN Shared(spool[c])
       ELSE \/ checkpoint[c].spool # spool[c]
            \/ checkpoint[c].bytes > size[spool[c]]

\* Mutant: the whole file is emptied, earlier rows included.
TruncateAll(c, s) ==
  /\ bytes' = bytes - size[s]
  /\ size' = [size EXCEPT ![s] = 0]
  /\ length' = [length EXCEPT ![s] = 0]

(* The file of an earlier row is truncated, and what it frees returned. *)
Truncate(c, s) ==
  LET start == checkpoint[c].bytes IN
  /\ bytes' = bytes - (size[s] - start)
  /\ size' = [size EXCEPT ![s] = start]
  /\ length' = [length EXCEPT ![s] = start]

(* A rejected row is discarded and the result ends with the rows before it. *)
Discard(c) ==
  /\ at[c] = "rejected" /\ ~Refused(c)
  /\ at' = [at EXCEPT ![c] = "end"]
  /\ checkpoint' = [checkpoint EXCEPT ![c] = NoCheckpoint]
  /\ spool' = [spool EXCEPT ![c] = checkpoint[c].spool]
  /\ IF \/ checkpoint[c].spool = NoSpool
        \/ checkpoint[c].bytes = size[spool[c]]
       THEN UNCHANGED <<bytes, size, length>>
       ELSE Truncate(c, spool[c])
  /\ UNCHANGED <<spools, failed, want, orphaned, values>>
  /\ Dropped

(* discard_since fails: it refuses, or the file cannot be truncated, which  *)
(* keeps its accounting until it closes.                                    *)
DiscardFails(c) ==
  /\ at[c] = "rejected"
  /\ ~Refused(c) => /\ checkpoint[c].spool # NoSpool
                    /\ checkpoint[c].bytes # size[spool[c]]
  /\ Abandoned(c)
  /\ UNCHANGED <<usage, size, length, failed, want, reading>>
  /\ Dropped

(* An error, a cancellation, the deadline, or the row limit of a write.    *)
Abort(c) ==
  /\ at[c] \in {"between", "row", "end"}
  /\ Abandoned(c)
  /\ UNCHANGED <<usage, size, length, failed, want, reading>>
  /\ Dropped

(* PostgreSQL drops the operation while a blocking worker still holds the  *)
(* capture and the row: the worker finishes what it does.                  *)
Orphan(c) ==
  /\ at[c] \in {"row", "creating", "rejected"} /\ c \notin orphaned
  /\ orphaned' = orphaned \cup {c}
  /\ kept' = [kept EXCEPT ![c] = {}]
  /\ UNCHANGED <<usage, size, length, failed, at, want, spool, checkpoint, row,
                 reading>>
  /\ Dropped

Finish(c) ==
  /\ at[c] \in {"between", "end"} /\ c \notin orphaned
  /\ at' = [at EXCEPT ![c] = "page"]
  /\ spool' = [spool EXCEPT ![c] = NoSpool]
  /\ UNCHANGED <<usage, size, length, failed, want, checkpoint, orphaned,
                 values>>
  /\ Dropped

-----------------------------------------------------------------------------
(* Pages and the full-value worker.                                        *)

DropPage(c) ==
  /\ at[c] = "page"
  /\ at' = [at EXCEPT ![c] = "idle"]
  /\ kept' = [kept EXCEPT ![c] = {}]
  /\ UNCHANGED <<usage, size, length, failed, want, spool, checkpoint,
                 orphaned, row, reading>>
  /\ Dropped

(* One permit: one value is cloned and read at a time, whatever its page   *)
(* does.                                                                   *)
Load(c) ==
  /\ at[c] = "page" /\ reading = {}
  /\ \E v \in kept[c] : reading' = {v}
  /\ UNCHANGED <<usage, files, captures, row, kept>>

LoadDone ==
  /\ reading # {}
  /\ reading' = {}
  /\ UNCHANGED <<usage, size, length, failed, captures, row, kept>>
  /\ Dropped

(* The rest of Drop for Spool: a closed file returns its quota. *)
Return(s) ==
  /\ file[s] = "closed"
  /\ file' = [file EXCEPT ![s] = "absent"]
  /\ bytes' = bytes - size[s]
  /\ spools' = spools - 1
  /\ size' = [size EXCEPT ![s] = 0]
  /\ length' = [length EXCEPT ![s] = 0]
  /\ failed' = [failed EXCEPT ![s] = FALSE]
  /\ UNCHANGED <<captures, values>>

Capture(c) ==
  \/ Begin(c) \/ StartRow(c)
  \/ \E n \in Lengths : Reserve(c, n) \/ Store(c, n)
  \/ CreateFails(c) \/ \E s \in Spools : Create(c, s)
  \/ AcceptRow(c) \/ RejectRow(c)
  \/ Discard(c) \/ DiscardFails(c)
  \/ Abort(c) \/ Orphan(c) \/ Finish(c)

Next ==
  \/ \E c \in Results : Capture(c) \/ DropPage(c) \/ Load(c)
  \/ LoadDone
  \/ \E s \in Spools : Return(s)

Spec == Init /\ [][Next]_vars

-----------------------------------------------------------------------------
(* Properties.                                                             *)

(* Every variable has its type.                                            *)
TypeOK ==
  /\ bytes \in Int /\ spools \in Int
  /\ file \in [Spools -> {"absent", "open", "closed"}]
  /\ size \in [Spools -> Nat]
  /\ length \in [Spools -> Nat]
  /\ failed \in [Spools -> BOOLEAN]
  /\ at \in [Results -> At]
  /\ want \in [Results -> 0 .. MaxValue]
  /\ spool \in [Results -> Spools \cup {NoSpool}]
  /\ checkpoint \in [Results -> Checkpoints]
  /\ orphaned \subseteq Results
  /\ row \in [Results -> SUBSET Values]
  /\ kept \in [Results -> SUBSET Values]
  /\ reading \subseteq Values

(* The quota counts exactly the files that exist, are closing or are about *)
(* to be created, and their reserved bytes: failed writes, discarded rows, *)
(* orphaned workers and dropped pages leak nothing and return nothing      *)
(* twice, which would wrap the usize below zero.                           *)
Present == {s \in Spools : file[s] # "absent"}
Creating == {c \in Results : at[c] = "creating"}
Accounted ==
  /\ bytes = MapThenSumSet(LAMBDA s : size[s], Present)
  /\ spools = Cardinality(Present) + Cardinality(Creating)

(* However captures interleave between the two checks of a first value, no *)
(* limit is exceeded, and the process never holds more descriptors than    *)
(* MAX_SPOOLS, those of files that are being dropped included.             *)
Quotas ==
  /\ bytes <= MaxOwner /\ spools <= MaxSpools
  /\ \A s \in Spools : size[s] <= MaxResult
  /\ Cardinality({s \in Spools : file[s] = "open"}) <= MaxSpools

(* Every value that a row, a result, a page or the full-value worker holds *)
(* is in an open file, wholly written, and shares no byte with another     *)
(* value: no write, truncation or drop of any capture ever touches it.     *)
Held == (UNION {row[c] \cup kept[c] : c \in Results}) \cup reading
Retained ==
  /\ \A v \in Held :
       file[v.spool] = "open" /\ v.offset + v.len <= length[v.spool]
  /\ \A v, w \in Held : v # w /\ v.spool = w.spool => Span(v) \cap Span(w) = {}

(* The errors of discard_since never happen: when a row is rejected, only  *)
(* the capture still holds a file that the row created, and otherwise the  *)
(* checkpoint is of the same file and not past its end.                    *)
DiscardPossible == \A c \in Results : at[c] = "rejected" => ~Refused(c)
=============================================================================
