--------------------------- MODULE TransportProofs ---------------------------
(***************************************************************************)
(* Proofs about Transport for any number of callers and operations and any *)
(* windows.  Inv is the inductive invariant; Room, on top of it, counts    *)
(* the frames of the output queue.                                         *)
(***************************************************************************)
EXTENDS Transport, FiniteSetTheorems, SequenceTheorems, TLAPS

(* The flag is set when stop() begins. *)
Flag == stopped <=> stage # "no"

(* A caller inside request() has an id of its own. *)
Ids == \A c \in Callers :
  /\ id[c] <= serial
  /\ at[c] # "idle" => id[c] # 0
  /\ \A d \in Callers \ {c} : id[c] # 0 => id[c] # id[d]

(* The order lock is held from the id to the queue, by one caller, whose   *)
(* id is the last one.                                                     *)
Ordering(c) == at[c] \in {"check", "push", "refused"}
Locked == \A c \in Callers : Ordering(c) => order = c /\ id[c] = serial

(* The ids on their way to the host increase, up to the one at the lock.   *)
Below(i) == /\ i <= serial
            /\ \A c \in Callers : Ordering(c) => i < id[c]
IsRequest(i) == i \in DOMAIN queue /\ queue[i].kind = "request"
Ordered ==
  /\ Below(wire)
  /\ \A i \in DOMAIN queue : IsRequest(i) =>
       /\ wire < queue[i].id /\ Below(queue[i].id)
       /\ \A j \in DOMAIN queue : j < i /\ IsRequest(j) => queue[j].id < queue[i].id
  /\ at[Writer] = "write" /\ writing.kind = "request" =>
       /\ wire < writing.id /\ Below(writing.id)
       /\ \A i \in DOMAIN queue : IsRequest(i) => writing.id < queue[i].id

(* A caller without an answer has its channel in the table, unless stop()  *)
(* has emptied it, and then the caller is still to look at the flag.       *)
Waiting == \A c \in Callers :
  at[c] \in {"check", "push", "wait"} /\ reply[c] = "none" => id[c] \in pending
Released == stage = "done" =>
  \A c \in Callers : at[c] \in {"push", "wait"} => reply[c] # "none"

Fired == stage \in {"pending", "done"} =>
  \A o \in Ops : op[o] = "tracked" => o \in fired

(* Early cancellations are distinct, and bounded. *)
Early == /\ Len(early) <= MaxEarly
         /\ \A i \in DOMAIN early : early[i] \in cancelled
         /\ \A i, j \in DOMAIN early : early[i] = early[j] => i = j

(* A cancellation is kept until MaxEarly others have come. *)
Old(o) == Cardinality(cancelled \ {o}) >= MaxEarly
Kept == \A o \in cancelled :
  /\ op[o] # "new"
  /\ op[o] = "created" => IsEarly(o) \/ Old(o)
  /\ op[o] = "tracked" => o \in fired \/ Old(o)

(* The inductive invariant. *)
Inv == /\ TypeOK /\ Flag
       /\ Ids /\ Locked /\ Ordered /\ Waiting /\ Released
       /\ Fired /\ Early /\ Kept

-----------------------------------------------------------------------------
(* Steps that leave a group of variables alone.                            *)

LEMMA QuietTokens ==
  ASSUME Inv, UNCHANGED tokens,
         stage' \in {"pending", "done"} => stage \in {"pending", "done"}
  PROVE  (Fired /\ Early /\ Kept)'
  BY DEF Inv, Fired, Early, Kept, Old, IsEarly, tokens

LEMMA QuietQueue ==
  ASSUME Inv, UNCHANGED <<output, serial>>,
         \A c \in Callers : Ordering(c)' => Ordering(c) /\ id'[c] = id[c],
         at'[Writer] = "write" => at[Writer] = "write"
  PROVE  Ordered'
  BY DEF Inv, Ordered, Below, IsRequest, output

(* The ids on their way are numbers. *)
LEMMA FrameIds ==
  ASSUME Inv
  PROVE  /\ wire \in Nat /\ writing.id \in Nat
         /\ \A i \in DOMAIN queue : queue[i].id \in Nat
<1>1. wire \in Nat /\ writing \in Frames /\ queue \in Seq(Frames)
  BY DEF Inv, TypeOK
<1>2. \A i \in DOMAIN queue : queue[i] \in Frames BY <1>1
<1> QED BY <1>1, <1>2 DEF Frames

(* A frame that is not a request joins the queue: the ids stay ordered.    *)
LEMMA Offered ==
  ASSUME Inv, NEW f \in Frames, f.kind # "request", queue' = Append(queue, f),
         UNCHANGED <<writing, wire, serial>>,
         \A c \in Callers : Ordering(c)' => Ordering(c) /\ id'[c] = id[c],
         at'[Writer] = "write" => at[Writer] = "write"
  PROVE  queue' \in Seq(Frames) /\ Ordered'
<1>1. queue \in Seq(Frames) BY DEF Inv, TypeOK
<1>2. queue' \in Seq(Frames) BY <1>1
<1>3. /\ DOMAIN queue = 1 .. Len(queue) /\ DOMAIN queue' = 1 .. Len(queue) + 1
      /\ queue'[Len(queue) + 1] = f
      /\ \A i \in DOMAIN queue : queue'[i] = queue[i]
  BY <1>1
<1>4. \A i \in DOMAIN queue' : IsRequest(i)' =>
        i \in DOMAIN queue /\ IsRequest(i) /\ queue'[i] = queue[i]
  BY <1>1, <1>3 DEF IsRequest
<1>5. \A i : Below(i) => Below(i)' BY DEF Below
<1>6. Below(wire)' BY <1>5 DEF Inv, Ordered
<1>7. ASSUME NEW i \in DOMAIN queue', IsRequest(i)'
      PROVE  /\ wire' < queue'[i].id /\ Below(queue[i].id)'
             /\ \A j \in DOMAIN queue' :
                  j < i /\ IsRequest(j)' => queue'[j].id < queue'[i].id
  BY <1>4, <1>5, <1>7 DEF Inv, Ordered
<1>8. at'[Writer] = "write" /\ writing'.kind = "request" =>
        /\ wire' < writing'.id /\ Below(writing.id)'
        /\ \A i \in DOMAIN queue' : IsRequest(i)' => writing'.id < queue'[i].id
  BY <1>4, <1>5 DEF Inv, Ordered
<1> QED BY <1>2, <1>6, <1>7, <1>8 DEF Ordered

(* What is left of a sequence without one of its elements. *)
LEMMA Removed ==
  ASSUME NEW S, NEW s \in Seq(S), NEW i \in 1 .. Len(s)
  PROVE  /\ RemoveAt(s, i) \in Seq(S) /\ Len(RemoveAt(s, i)) = Len(s) - 1
         /\ DOMAIN RemoveAt(s, i) = 1 .. Len(s) - 1
         /\ \A j \in 1 .. Len(s) - 1 :
              RemoveAt(s, i)[j] = IF j < i THEN s[j] ELSE s[j + 1]
<1> DEFINE a == SubSeq(s, 1, i - 1)
           b == SubSeq(s, i + 1, Len(s))
<1>1. a \in Seq(S) /\ Len(a) = i - 1 /\ \A j \in 1 .. i - 1 : a[j] = s[j]
  OBVIOUS
<1>2. b \in Seq(S) /\ Len(b) = Len(s) - i
      /\ \A j \in 1 .. Len(s) - i : b[j] = s[i + j]
  OBVIOUS
<1> HIDE DEF a, b
<1>3. /\ a \o b \in Seq(S) /\ Len(a \o b) = Len(s) - 1
      /\ \A j \in 1 .. Len(s) - 1 : (a \o b)[j] = IF j < i THEN s[j] ELSE s[j + 1]
  <2>0. Len(s) \in Nat /\ i \in Nat /\ i >= 1 /\ i <= Len(s) OBVIOUS
  <2>1. a \o b \in Seq(S) /\ Len(a \o b) = Len(s) - 1
    <3>1. a \o b \in Seq(S) /\ Len(a \o b) = Len(a) + Len(b)
      BY <1>1, <1>2, ConcatProperties
    <3> QED BY <3>1, <2>0, <1>1, <1>2
  <2>2. \A j \in 1 .. Len(a) + Len(b) :
          (a \o b)[j] = IF j <= Len(a) THEN a[j] ELSE b[j - Len(a)]
    BY <1>1, <1>2
  <2>3. ASSUME NEW j \in 1 .. Len(s) - 1
        PROVE  (a \o b)[j] = IF j < i THEN s[j] ELSE s[j + 1]
    <3>1. CASE j < i
      <4>1. j \in 1 .. i - 1 BY <3>1, <2>0
      <4>2. (a \o b)[j] = a[j] BY <4>1, <2>0, <2>2, <1>1, <1>2
      <4> QED BY <4>1, <4>2, <3>1, <1>1
    <3>2. CASE j >= i
      <4>1. j - (i - 1) \in 1 .. Len(s) - i /\ i + (j - (i - 1)) = j + 1
        BY <3>2
      <4>2. (a \o b)[j] = b[j - (i - 1)] BY <3>2, <2>2, <1>1, <1>2
      <4> QED BY <4>1, <4>2, <3>2, <1>2
    <3>3. j < i \/ j >= i BY <2>0
    <3> QED BY <3>1, <3>2, <3>3
  <2> QED BY <2>1, <2>3
<1>4. RemoveAt(s, i) = a \o b BY DEF RemoveAt, a, b
<1>5. DOMAIN (a \o b) = 1 .. Len(s) - 1 BY <1>3
<1> QED BY <1>3, <1>4, <1>5

(* A sequence of distinct elements of a set is no longer than the set.     *)
LEMMA Distinct ==
  ASSUME NEW S, IsFiniteSet(S), NEW s, NEW n \in Nat,
         DOMAIN s = 1 .. n, \A i \in 1 .. n : s[i] \in S,
         \A i, j \in 1 .. n : s[i] = s[j] => i = j
  PROVE  n <= Cardinality(S)
<1> DEFINE f == [i \in 1 .. n |-> s[i]]
<1>1. IsFiniteSet(1 .. n) /\ Cardinality(1 .. n) = n BY FS_Interval
<1>2. Cardinality(S) \in Nat BY FS_CardinalityType
<1>3. SUFFICES ASSUME Cardinality(S) < Cardinality(1 .. n) PROVE FALSE
  BY <1>1, <1>2
<1>4. f \in [1 .. n -> S] /\ \A i \in 1 .. n : f[i] = s[i] OBVIOUS
<1> HIDE DEF f
<1>5. \E i, j \in 1 .. n : i # j /\ f[i] = f[j]
  BY <1>1, <1>3, <1>4, FS_PigeonHole
<1> QED BY <1>4, <1>5

(* A further cancellation leaves an old one old. *)
LEMMA OldKept ==
  ASSUME NEW o, NEW p, IsFiniteSet(cancelled), cancelled' = cancelled \cup {o},
         Old(p)
  PROVE  Old(p)'
<1>1. IsFiniteSet(cancelled' \ {p}) BY FS_AddElement, FS_RemoveElement
<1>2. cancelled \ {p} \in SUBSET (cancelled' \ {p}) OBVIOUS
<1>3. Cardinality(cancelled \ {p}) <= Cardinality(cancelled' \ {p})
  BY <1>1, <1>2, FS_Subset
<1>4. /\ Cardinality(cancelled \ {p}) \in Nat /\ Cardinality(cancelled' \ {p}) \in Nat
  BY <1>1, <1>2, FS_Subset, FS_CardinalityType
<1> QED BY <1>3, <1>4, WindowAssumption DEF Old

-----------------------------------------------------------------------------
(* The steps.                                                              *)

(* stop(), a step at a time.                                               *)
LEMMA WakeInv == ASSUME Inv, Wake PROVE Inv'
<1>1. TypeOK' /\ Ordered'
  <2>1. CASE queue' = queue
    <3>1. TypeOK'
      BY <2>1 DEF Inv, TypeOK, stopping, host, requests, tokens, Wake
    <3>2. Ordered'
      BY <2>1, QuietQueue DEF Inv, TypeOK, Ordering, output, requests, Wake
    <3> QED BY <3>1, <3>2
  <2>2. CASE queue' = Append(queue, Sentinel)
    <3>1. queue' \in Seq(Frames) /\ Ordered'
      BY <2>2, Offered DEF Sentinel, Frames, Ordering, requests, Wake
    <3>2. TypeOK'
      BY <3>1 DEF Inv, TypeOK, stopping, host, requests, tokens, Wake
    <3> QED BY <3>1, <3>2
  <2> QED BY <2>1, <2>2 DEF Wake
<1>2. (Flag /\ Ids /\ Locked)' BY ThreadAssumption DEF Inv, TypeOK, Threads,
      Flag, Ids, Locked, Ordering, host, output, requests, stopping, tokens,
      Wake
<1>4. (Waiting /\ Released)' BY ThreadAssumption DEF Inv, TypeOK, Threads,
      Flag, Ids, Waiting, Released, host, output, requests, stopping, tokens,
      Wake
<1>5. (Fired /\ Early /\ Kept)' BY QuietTokens DEF host, output, requests,
      stopping, tokens, Wake
<1> QED BY <1>1, <1>2, <1>4, <1>5 DEF Inv

LEMMA CancelTokensInv == ASSUME Inv, CancelTokens PROVE Inv'
<1>1. TypeOK' BY ThreadAssumption DEF Inv, TypeOK, Threads, Frames, host,
      output, requests, stopping, CancelTokens
<1>2. (Flag /\ Ids /\ Locked)' BY ThreadAssumption DEF Inv, TypeOK, Threads,
      Flag, Ids, Locked, Ordering, host, output, requests, stopping,
      CancelTokens
<1>3. Ordered' BY ThreadAssumption, QuietQueue DEF Inv, TypeOK, Threads,
      Ordering, Locked, host, output, requests, stopping, CancelTokens
<1>4. (Waiting /\ Released)' BY ThreadAssumption DEF Inv, TypeOK, Threads,
      Flag, Ids, Waiting, Released, host, output, requests, stopping,
      CancelTokens
<1>5. (Fired /\ Early /\ Kept)' BY DEF Inv, TypeOK, Fired, Early, Kept, Old,
      IsEarly, host, output, requests, stopping, CancelTokens
<1> QED BY <1>1, <1>2, <1>3, <1>4, <1>5 DEF Inv

LEMMA ClearPendingInv == ASSUME Inv, ClearPending PROVE Inv'
<1>1. TypeOK' BY ThreadAssumption DEF Inv, TypeOK, Threads, Frames, host,
      output, stopping, tokens, ClearPending
<1>2. (Flag /\ Ids /\ Locked)' BY ThreadAssumption DEF Inv, TypeOK, Threads,
      Flag, Ids, Locked, Ordering, host, output, stopping, tokens, ClearPending
<1>3. Ordered' BY ThreadAssumption, QuietQueue DEF Inv, TypeOK, Threads,
      Ordering, Locked, host, output, stopping, tokens, ClearPending
<1>4. (Waiting /\ Released)' BY ThreadAssumption DEF Inv, TypeOK, Threads,
      Flag, Ids, Waiting, Released, host, output, stopping, tokens,
      ClearPending
<1>5. (Fired /\ Early /\ Kept)' BY QuietTokens DEF host, output, stopping,
      tokens, ClearPending
<1> QED BY <1>1, <1>2, <1>3, <1>4, <1>5 DEF Inv

(* request().                                                              *)
LEMMA BeginInv == ASSUME Inv, NEW c \in Callers, Begin(c) PROVE Inv'
<1>1. TypeOK' BY ThreadAssumption DEF Inv, TypeOK, Threads, Frames, host,
      output, stopping, tokens, Begin
<1>2. (Flag /\ Ids /\ Locked)' BY ThreadAssumption DEF Inv, TypeOK, Threads,
      Flag, Ids, Locked, Ordering, host, output, stopping, tokens, Begin
<1>3. Ordered'
  <2>1. \A d \in Callers : ~Ordering(d)
    BY ThreadAssumption DEF Inv, Locked, Begin
  <2>2. \A d \in Callers : Ordering(d)' => id'[d] = serial + 1
    BY <2>1 DEF Inv, TypeOK, Threads, Ordering, Begin
  <2>3. \A i \in Nat : Below(i) => Below(i)'
    BY <2>2 DEF Inv, TypeOK, Below, Begin
  <2>4. queue' = queue /\ writing' = writing /\ wire' = wire
    BY DEF Begin, output
  <2>5. at'[Writer] = at[Writer]
    BY ThreadAssumption DEF Inv, TypeOK, Threads, Begin
  <2>6. \A i \in DOMAIN queue : queue[i].id \in Nat BY FrameIds
  <2>7. writing.id \in Nat /\ wire \in Nat BY FrameIds
  <2> QED BY <2>3, <2>4, <2>5, <2>6, <2>7 DEF Inv, Ordered, IsRequest
<1>4. (Waiting /\ Released)' BY ThreadAssumption DEF Inv, TypeOK, Threads,
      Flag, Ids, Waiting, Released, host, output, stopping, tokens, Begin
<1>5. (Fired /\ Early /\ Kept)' BY QuietTokens DEF host, output, stopping,
      tokens, Begin
<1> QED BY <1>1, <1>2, <1>3, <1>4, <1>5 DEF Inv

LEMMA CheckInv == ASSUME Inv, NEW c \in Callers, Check(c) PROVE Inv'
<1>1. TypeOK' /\ (Flag /\ Ids /\ Locked)'
  <2>1. CASE Withdraw(c)
    <3>0. at[c] = "check" /\ UNCHANGED <<stopping, output, host, tokens>>
      BY DEF Check
    <3>1. TypeOK'
      BY <2>1, <3>0, ThreadAssumption DEF Inv, TypeOK, Threads, Withdraw, host,
         output, stopping, tokens
    <3>2. (Flag /\ Ids)'
      BY <2>1, <3>0, ThreadAssumption DEF Inv, TypeOK, Threads, Flag, Ids, Withdraw,
         stopping
    <3>3. \A d \in Callers : ~Ordering(d)'
      BY <2>1, <3>0, ThreadAssumption DEF Inv, TypeOK, Threads, Locked, Ordering,
         Withdraw
    <3> QED BY <3>1, <3>2, <3>3 DEF Locked
  <2>2. CASE at' = [at EXCEPT ![c] = "push"] /\ ~stopped /\ UNCHANGED requests
    <3>1. TypeOK'
      BY <2>2, ThreadAssumption DEF Inv, TypeOK, Threads, requests, host,
         output, stopping, tokens, Check
    <3>2. (Flag /\ Ids /\ Locked)'
      BY <2>2, ThreadAssumption DEF Inv, TypeOK, Threads, Flag, Ids, Locked,
         Ordering, requests, stopping, Check
    <3> QED BY <3>1, <3>2
  <2> QED BY <2>1, <2>2 DEF Check
<1>3. Ordered' BY ThreadAssumption, QuietQueue DEF Inv, TypeOK, Threads,
      Ordering, Locked, Withdraw, host, output, requests, stopping, tokens,
      Check
<1>4. (Waiting /\ Released)' BY ThreadAssumption DEF Inv, TypeOK, Threads,
      Flag, Ids, Waiting, Released, Withdraw, host, output, requests, stopping,
      tokens, Check
<1>5. (Fired /\ Early /\ Kept)' BY QuietTokens DEF Withdraw, host, output,
      requests, stopping, tokens, Check
<1> QED BY <1>1, <1>3, <1>4, <1>5 DEF Inv

LEMMA PushInv == ASSUME Inv, NEW c \in Callers, Push(c) PROVE Inv'
<1>1. TypeOK' BY ThreadAssumption DEF Inv, TypeOK, Threads, Frames, Accepting,
      Request, Frames, host, stopping, tokens, Push
<1>2. (Flag /\ Ids /\ Locked)' BY ThreadAssumption DEF Inv, TypeOK, Threads,
      Flag, Ids, Locked, Ordering, Accepting, Request, Frames, host, stopping,
      tokens, Push
<1>3. Ordered'
  <2>1. queue \in Seq(Frames) /\ wire \in Nat /\ writing \in Frames
    BY DEF Inv, TypeOK
  <2>2. queue' = Append(queue, Request(id[c])) /\ writing' = writing
        /\ wire' = wire /\ serial' = serial /\ id' = id
    BY DEF Push
  <2>3. Ordering(c) BY DEF Push, Ordering
  <2>4. \A d \in Callers : Ordering(d) => d = c
    BY <2>3 DEF Inv, Locked
  <2>5. \A d \in Callers : ~Ordering(d)'
    BY <2>4 DEF Inv, TypeOK, Threads, Ordering, Push
  <2>6. at'[Writer] = at[Writer]
    BY ThreadAssumption DEF Inv, TypeOK, Threads, Push
  <2>7. id[c] = serial /\ serial \in Nat BY <2>3 DEF Inv, TypeOK, Locked
  <2>8. \A i \in Nat : Below(i) => Below(i)' /\ i < id[c]
    BY <2>2, <2>3, <2>5 DEF Below
  <2>9. Below(id[c])' BY <2>2, <2>5, <2>7 DEF Below
  <2>10. DOMAIN queue = 1 .. Len(queue) /\ DOMAIN queue' = 1 .. Len(queue) + 1
         /\ queue'[Len(queue) + 1] = Request(id[c])
         /\ \A i \in DOMAIN queue : queue'[i] = queue[i] /\ queue[i] \in Frames
    <3>1. Request(id[c]) \in Frames BY <2>7 DEF Request, Frames
    <3> HIDE DEF Frames, Request
    <3> QED BY <3>1, <2>1, <2>2
  <2>11. \A i \in DOMAIN queue : queue[i].id \in Nat BY <2>10 DEF Frames
  <2>12. Below(wire)' BY <2>1, <2>2, <2>8 DEF Inv, Ordered
  <2>13. ASSUME NEW i \in DOMAIN queue', IsRequest(i)'
         PROVE  /\ wire' < queue'[i].id /\ Below(queue[i].id)'
                /\ \A j \in DOMAIN queue' :
                     j < i /\ IsRequest(j)' => queue'[j].id < queue'[i].id
    <3>1. \A j \in DOMAIN queue : IsRequest(j)' => IsRequest(j)
      BY <2>10 DEF IsRequest
    <3>2. CASE i = Len(queue) + 1
      <4>1. queue'[i].id = id[c] BY <3>2, <2>10 DEF Request
      <4>2. wire < id[c] BY <2>1, <2>8 DEF Inv, Ordered
      <4>3. \A j \in DOMAIN queue : IsRequest(j) => queue[j].id < id[c]
        BY <2>8, <2>11 DEF Inv, Ordered
      <4>4. \A j \in DOMAIN queue' : j < i => j \in DOMAIN queue
        BY <3>2, <2>1, <2>10
      <4> QED BY <4>1, <4>2, <4>3, <4>4, <3>1, <2>2, <2>9, <2>10
    <3>3. CASE i # Len(queue) + 1
      <4>1. i \in DOMAIN queue BY <3>3, <2>1, <2>10
      <4>2. wire < queue[i].id /\ Below(queue[i].id)
        BY <4>1, <3>1, <2>13 DEF Inv, Ordered
      <4>3. \A j \in DOMAIN queue' : j < i => j \in DOMAIN queue
        BY <4>1, <2>1, <2>10
      <4>4. \A j \in DOMAIN queue : j < i /\ IsRequest(j) => queue[j].id < queue[i].id
        BY <4>1, <3>1, <2>13 DEF Inv, Ordered
      <4> QED BY <4>1, <4>2, <4>3, <4>4, <3>1, <2>2, <2>8, <2>10, <2>11
    <3> QED BY <3>2, <3>3
  <2>14. at'[Writer] = "write" /\ writing'.kind = "request" =>
           /\ wire' < writing'.id /\ Below(writing.id)'
           /\ \A i \in DOMAIN queue' : IsRequest(i)' => writing'.id < queue'[i].id
    <3> SUFFICES ASSUME at[Writer] = "write", writing.kind = "request"
                 PROVE  /\ wire < writing.id /\ Below(writing.id)'
                        /\ \A i \in DOMAIN queue' :
                             IsRequest(i)' => writing.id < queue'[i].id
      BY <2>2, <2>6
    <3>1. writing.id \in Nat BY <2>1 DEF Frames
    <3>2. /\ wire < writing.id /\ Below(writing.id)
          /\ \A i \in DOMAIN queue : IsRequest(i) => writing.id < queue[i].id
      BY DEF Inv, Ordered
    <3>3. writing.id < id[c] /\ Below(writing.id)' BY <3>1, <3>2, <2>2, <2>8
    <3>4. ASSUME NEW i \in DOMAIN queue', IsRequest(i)'
          PROVE  writing.id < queue'[i].id
      <4>1. CASE i = Len(queue) + 1 BY <4>1, <3>3, <2>10 DEF Request
      <4>2. CASE i # Len(queue) + 1
        <5>1. i \in DOMAIN queue BY <4>2, <2>1, <2>10
        <5> QED BY <5>1, <3>2, <3>4, <2>10 DEF IsRequest
      <4> QED BY <4>1, <4>2
    <3> QED BY <3>2, <3>3, <3>4
  <2> QED BY <2>12, <2>13, <2>14 DEF Ordered
<1>4. (Waiting /\ Released)' BY ThreadAssumption DEF Inv, TypeOK, Threads,
      Flag, Ids, Waiting, Released, Accepting, Request, Frames, host, stopping,
      tokens, Push
<1>5. (Fired /\ Early /\ Kept)' BY QuietTokens DEF Accepting, Request, Frames,
      host, stopping, tokens, Push
<1> QED BY <1>1, <1>2, <1>3, <1>4, <1>5 DEF Inv

LEMMA PushRefusedInv == ASSUME Inv, NEW c \in Callers, PushRefused(c) PROVE
    Inv'
<1>1. TypeOK' BY ThreadAssumption DEF Inv, TypeOK, Threads, Frames, Stop, host,
      output, requests, stopping, tokens, PushRefused
<1>2. (Flag /\ Ids /\ Locked)' BY ThreadAssumption DEF Inv, TypeOK, Threads,
      Flag, Ids, Locked, Ordering, Stop, host, output, requests, stopping,
      tokens, PushRefused
<1>3. Ordered' BY ThreadAssumption, QuietQueue DEF Inv, TypeOK, Threads,
      Ordering, Locked, Stop, host, output, requests, stopping, tokens,
      PushRefused
<1>4. (Waiting /\ Released)' BY ThreadAssumption DEF Inv, TypeOK, Threads,
      Flag, Ids, Waiting, Released, Stop, host, output, requests, stopping,
      tokens, PushRefused
<1>5. (Fired /\ Early /\ Kept)' BY QuietTokens DEF Stop, host, output,
      requests, stopping, tokens, PushRefused
<1> QED BY <1>1, <1>2, <1>3, <1>4, <1>5 DEF Inv

LEMMA RefusedInv == ASSUME Inv, NEW c \in Callers, Refused(c) PROVE Inv'
<1>1. TypeOK' BY ThreadAssumption DEF Inv, TypeOK, Threads, Frames, Withdraw,
      host, output, stopping, tokens, Refused
<1>2. (Flag /\ Ids /\ Locked)' BY ThreadAssumption DEF Inv, TypeOK, Threads,
      Flag, Ids, Locked, Ordering, Withdraw, host, output, stopping, tokens,
      Refused
<1>3. Ordered' BY ThreadAssumption, QuietQueue DEF Inv, TypeOK, Threads,
      Ordering, Locked, Withdraw, host, output, stopping, tokens, Refused
<1>4. (Waiting /\ Released)' BY ThreadAssumption DEF Inv, TypeOK, Threads,
      Flag, Ids, Waiting, Released, Withdraw, host, output, stopping, tokens,
      Refused
<1>5. (Fired /\ Early /\ Kept)' BY QuietTokens DEF Withdraw, host, output,
      stopping, tokens, Refused
<1> QED BY <1>1, <1>2, <1>3, <1>4, <1>5 DEF Inv

LEMMA AnsweredInv == ASSUME Inv, NEW c \in Callers, Answered(c) PROVE Inv'
<1>1. TypeOK' BY ThreadAssumption DEF Inv, TypeOK, Threads, Frames, Leave,
      host, output, stopping, tokens, Answered
<1>2. (Flag /\ Ids /\ Locked)' BY ThreadAssumption DEF Inv, TypeOK, Threads,
      Flag, Ids, Locked, Ordering, Leave, host, output, stopping, tokens,
      Answered
<1>3. Ordered' BY ThreadAssumption, QuietQueue DEF Inv, TypeOK, Threads,
      Ordering, Locked, Leave, host, output, stopping, tokens, Answered
<1>4. (Waiting /\ Released)' BY ThreadAssumption DEF Inv, TypeOK, Threads,
      Flag, Ids, Waiting, Released, Leave, host, output, stopping, tokens,
      Answered
<1>5. (Fired /\ Early /\ Kept)' BY QuietTokens DEF Leave, host, output,
      stopping, tokens, Answered
<1> QED BY <1>1, <1>2, <1>3, <1>4, <1>5 DEF Inv

LEMMA UnansweredInv == ASSUME Inv, NEW c \in Callers, Unanswered(c) PROVE Inv'
<1>1. TypeOK' BY ThreadAssumption DEF Inv, TypeOK, Threads, Frames, Stop, host,
      output, requests, stopping, tokens, Unanswered
<1>2. (Flag /\ Ids /\ Locked)' BY ThreadAssumption DEF Inv, TypeOK, Threads,
      Flag, Ids, Locked, Ordering, Stop, host, output, requests, stopping,
      tokens, Unanswered
<1>3. Ordered' BY ThreadAssumption, QuietQueue DEF Inv, TypeOK, Threads,
      Ordering, Locked, Stop, host, output, requests, stopping, tokens,
      Unanswered
<1>4. (Waiting /\ Released)' BY ThreadAssumption DEF Inv, TypeOK, Threads,
      Flag, Ids, Waiting, Released, Stop, host, output, requests, stopping,
      tokens, Unanswered
<1>5. (Fired /\ Early /\ Kept)' BY QuietTokens DEF Stop, host, output,
      requests, stopping, tokens, Unanswered
<1> QED BY <1>1, <1>2, <1>3, <1>4, <1>5 DEF Inv

LEMMA FailedInv == ASSUME Inv, NEW c \in Callers, Failed(c) PROVE Inv'
<1>1. TypeOK' BY ThreadAssumption DEF Inv, TypeOK, Threads, Frames, Leave,
      host, output, stopping, tokens, Failed
<1>2. (Flag /\ Ids /\ Locked)' BY ThreadAssumption DEF Inv, TypeOK, Threads,
      Flag, Ids, Locked, Ordering, Leave, host, output, stopping, tokens,
      Failed
<1>3. Ordered' BY ThreadAssumption, QuietQueue DEF Inv, TypeOK, Threads,
      Ordering, Locked, Leave, host, output, stopping, tokens, Failed
<1>4. (Waiting /\ Released)' BY ThreadAssumption DEF Inv, TypeOK, Threads,
      Flag, Ids, Waiting, Released, Leave, host, output, stopping, tokens,
      Failed
<1>5. (Fired /\ Early /\ Kept)' BY QuietTokens DEF Leave, host, output,
      stopping, tokens, Failed
<1> QED BY <1>1, <1>2, <1>3, <1>4, <1>5 DEF Inv

(* The writer.                                                             *)
LEMMA TakeInv == ASSUME Inv, Take PROVE Inv'
<1>0. queue \in Seq(Frames) /\ queue # <<>> /\ writing' = Head(queue)
      /\ queue' = Tail(queue) /\ wire' = wire
  BY DEF Inv, TypeOK, Take
<1>a. /\ DOMAIN queue = 1 .. Len(queue) /\ DOMAIN queue' = 1 .. Len(queue) - 1
      /\ Len(queue) \in Nat \ {0} /\ queue' \in Seq(Frames)
      /\ writing' = queue[1] /\ writing' \in Frames
      /\ \A i \in DOMAIN queue' : i + 1 \in DOMAIN queue /\ queue'[i] = queue[i + 1]
  BY <1>0
<1>1. TypeOK'
  BY <1>0, <1>a, ThreadAssumption DEF Inv, TypeOK, Threads, host, requests,
     stopping, tokens, Take
<1>2. (Flag /\ Ids /\ Locked)' BY ThreadAssumption DEF Inv, TypeOK, Threads,
      Flag, Ids, Locked, Ordering, host, requests, stopping, tokens, Take
<1>3. Ordered'
  <2>1. \A i \in DOMAIN queue' : IsRequest(i)' => IsRequest(i + 1)
    BY <1>a DEF IsRequest
  <2>2. \A i \in Nat : Below(i) => Below(i)'
    BY ThreadAssumption DEF Inv, TypeOK, Threads, Below, Ordering, requests, Take
  <2>3. wire \in Nat /\ \A i \in DOMAIN queue : queue[i].id \in Nat BY FrameIds
  <2>4. Below(wire)' BY <2>2, <2>3, <1>0 DEF Inv, Ordered
  <2>5. ASSUME NEW i \in DOMAIN queue', IsRequest(i)'
        PROVE  /\ wire' < queue'[i].id /\ Below(queue[i].id)'
               /\ \A j \in DOMAIN queue' :
                    j < i /\ IsRequest(j)' => queue'[j].id < queue'[i].id
    <3>1. i + 1 \in DOMAIN queue /\ IsRequest(i + 1) BY <2>1, <2>5, <1>a
    <3>2. wire < queue[i + 1].id /\ Below(queue[i + 1].id)
      BY <3>1 DEF Inv, Ordered
    <3>3. ASSUME NEW j \in DOMAIN queue', j < i, IsRequest(j)'
          PROVE  queue'[j].id < queue'[i].id
      <4>1. j + 1 \in DOMAIN queue /\ IsRequest(j + 1) /\ j + 1 < i + 1
        BY <2>1, <3>3, <1>a
      <4> QED BY <4>1, <3>1, <1>a DEF Inv, Ordered
    <3> QED BY <3>1, <3>2, <3>3, <2>2, <2>3, <1>0, <1>a
  <2>6. ASSUME writing'.kind = "request"
        PROVE  /\ wire' < writing'.id /\ Below(writing.id)'
               /\ \A i \in DOMAIN queue' : IsRequest(i)' => writing'.id < queue'[i].id
    <3>1. 1 \in DOMAIN queue /\ IsRequest(1) BY <2>6, <1>a DEF IsRequest
    <3>2. wire < queue[1].id /\ Below(queue[1].id) BY <3>1 DEF Inv, Ordered
    <3>3. ASSUME NEW i \in DOMAIN queue', IsRequest(i)'
          PROVE  writing'.id < queue'[i].id
      <4>1. i + 1 \in DOMAIN queue /\ IsRequest(i + 1) /\ 1 < i + 1
        BY <2>1, <3>3, <1>a
      <4> QED BY <4>1, <3>1, <1>a DEF Inv, Ordered
    <3> QED BY <3>1, <3>2, <3>3, <2>2, <2>3, <1>0, <1>a
  <2> QED BY <2>4, <2>5, <2>6 DEF Ordered
<1>4. (Waiting /\ Released)' BY ThreadAssumption DEF Inv, TypeOK, Threads,
      Flag, Ids, Waiting, Released, host, requests, stopping, tokens, Take
<1>5. (Fired /\ Early /\ Kept)' BY QuietTokens DEF host, requests, stopping,
      tokens, Take
<1> QED BY <1>1, <1>2, <1>3, <1>4, <1>5 DEF Inv

LEMMA DeliverInv == ASSUME Inv, Deliver PROVE Inv'
<1>1. TypeOK'
  <2>1. writing.kind = "request" => writing.id \in Nat \ {0}
    BY DEF Inv, TypeOK, Ordered, Frames, Deliver
  <2>2. (wire \in Nat /\ asked \subseteq Nat \ {0} /\ window \in Nat /\ late \in Nat)'
    <3>1. CASE wire' = writing.id /\ asked' = asked \cup {writing.id}
               /\ writing.kind = "request" /\ UNCHANGED <<window, late>>
      BY <3>1, <2>1 DEF Inv, TypeOK
    <3>2. CASE window > 0 /\ window' = window - 1 /\ UNCHANGED <<wire, asked, late>>
      BY <3>2 DEF Inv, TypeOK
    <3>3. CASE late > 0 /\ late' = late - 1 /\ UNCHANGED <<wire, asked, window>>
      BY <3>3 DEF Inv, TypeOK
    <3> QED BY <3>1, <3>2, <3>3 DEF Deliver
  <2> QED BY <2>2, ThreadAssumption DEF Inv, TypeOK, Threads, requests,
          stopping, tokens, Deliver
<1>2. (Flag /\ Ids /\ Locked)' BY ThreadAssumption DEF Inv, TypeOK, Threads,
      Flag, Ids, Locked, Ordering, Frames, requests, stopping, tokens, Deliver
<1>3. Ordered'
  <2>1. queue' = queue /\ writing' = writing /\ at'[Writer] = "check"
    BY ThreadAssumption DEF Inv, TypeOK, Threads, Deliver
  <2>2. at[Writer] = "write" BY DEF Deliver
  <2>3. \A i \in Nat : Below(i) => Below(i)'
    BY ThreadAssumption DEF Inv, TypeOK, Threads, Below, Ordering, requests,
       Deliver
  <2>4. wire \in Nat /\ writing.id \in Nat
        /\ \A i \in DOMAIN queue : queue[i].id \in Nat
    BY FrameIds
  <2>5. wire' = wire \/ (writing.kind = "request" /\ wire' = writing.id)
    BY DEF Deliver
  <2>6. Below(wire') BY <2>2, <2>5 DEF Inv, Ordered
  <2>7. wire' \in Nat BY <2>4, <2>5
  <2>8. Below(wire)' BY <2>3, <2>6, <2>7
  <2>9. \A i \in DOMAIN queue : IsRequest(i) => wire' < queue[i].id
    BY <2>2, <2>5 DEF Inv, Ordered
  <2>10. \A i : IsRequest(i)' <=> IsRequest(i) BY <2>1 DEF IsRequest
  <2>11. (\A i \in DOMAIN queue : IsRequest(i) =>
           /\ wire < queue[i].id /\ Below(queue[i].id)
           /\ \A j \in DOMAIN queue : j < i /\ IsRequest(j) => queue[j].id < queue[i].id)'
    BY <2>1, <2>3, <2>4, <2>9, <2>10 DEF Inv, Ordered
  <2> QED BY <2>1, <2>8, <2>11 DEF Ordered
<1>4. (Waiting /\ Released)' BY ThreadAssumption DEF Inv, TypeOK, Threads,
      Flag, Ids, Waiting, Released, Frames, requests, stopping, tokens, Deliver
<1>5. (Fired /\ Early /\ Kept)' BY QuietTokens DEF Frames, requests, stopping,
      tokens, Deliver
<1> QED BY <1>1, <1>2, <1>3, <1>4, <1>5 DEF Inv

LEMMA WokenInv == ASSUME Inv, Woken PROVE Inv'
<1>1. TypeOK' BY ThreadAssumption DEF Inv, TypeOK, Threads, Frames, Sentinel,
      host, output, requests, stopping, tokens, Woken
<1>2. (Flag /\ Ids /\ Locked)' BY ThreadAssumption DEF Inv, TypeOK, Threads,
      Flag, Ids, Locked, Ordering, Sentinel, host, output, requests, stopping,
      tokens, Woken
<1>3. Ordered' BY ThreadAssumption, QuietQueue DEF Inv, TypeOK, Threads,
      Ordering, Locked, Sentinel, host, output, requests, stopping, tokens,
      Woken
<1>4. (Waiting /\ Released)' BY ThreadAssumption DEF Inv, TypeOK, Threads,
      Flag, Ids, Waiting, Released, Sentinel, host, output, requests, stopping,
      tokens, Woken
<1>5. (Fired /\ Early /\ Kept)' BY QuietTokens DEF Sentinel, host, output,
      requests, stopping, tokens, Woken
<1> QED BY <1>1, <1>2, <1>3, <1>4, <1>5 DEF Inv

LEMMA WriteFailsInv == ASSUME Inv, WriteFails PROVE Inv'
<1>1. TypeOK' BY ThreadAssumption DEF Inv, TypeOK, Threads, Frames, Stop, host,
      output, requests, stopping, tokens, WriteFails
<1>2. (Flag /\ Ids /\ Locked)' BY ThreadAssumption DEF Inv, TypeOK, Threads,
      Flag, Ids, Locked, Ordering, Stop, host, output, requests, stopping,
      tokens, WriteFails
<1>3. Ordered' BY ThreadAssumption, QuietQueue DEF Inv, TypeOK, Threads,
      Ordering, Locked, Stop, host, output, requests, stopping, tokens,
      WriteFails
<1>4. (Waiting /\ Released)' BY ThreadAssumption DEF Inv, TypeOK, Threads,
      Flag, Ids, Waiting, Released, Stop, host, output, requests, stopping,
      tokens, WriteFails
<1>5. (Fired /\ Early /\ Kept)' BY QuietTokens DEF Stop, host, output,
      requests, stopping, tokens, WriteFails
<1> QED BY <1>1, <1>2, <1>3, <1>4, <1>5 DEF Inv

LEMMA WriterLoopInv == ASSUME Inv, WriterLoop PROVE Inv'
<1>1. TypeOK' BY ThreadAssumption DEF Inv, TypeOK, Threads, Frames, host,
      output, requests, stopping, tokens, WriterLoop
<1>2. (Flag /\ Ids /\ Locked)' BY ThreadAssumption DEF Inv, TypeOK, Threads,
      Flag, Ids, Locked, Ordering, host, output, requests, stopping, tokens,
      WriterLoop
<1>3. Ordered' BY ThreadAssumption, QuietQueue DEF Inv, TypeOK, Threads,
      Ordering, Locked, host, output, requests, stopping, tokens, WriterLoop
<1>4. (Waiting /\ Released)' BY ThreadAssumption DEF Inv, TypeOK, Threads,
      Flag, Ids, Waiting, Released, host, output, requests, stopping, tokens,
      WriterLoop
<1>5. (Fired /\ Early /\ Kept)' BY QuietTokens DEF host, output, requests,
      stopping, tokens, WriterLoop
<1> QED BY <1>1, <1>2, <1>3, <1>4, <1>5 DEF Inv

LEMMA EndInv == ASSUME Inv, NEW t \in {Reader, Writer, Actor}, End(t) PROVE
    Inv'
<1>1. TypeOK' BY ThreadAssumption DEF Inv, TypeOK, Threads, Frames, host,
      output, requests, stopping, tokens, End
<1>2. (Flag /\ Ids /\ Locked)' BY ThreadAssumption DEF Inv, TypeOK, Threads,
      Flag, Ids, Locked, Ordering, host, output, requests, stopping, tokens,
      End
<1>3. Ordered' BY ThreadAssumption, QuietQueue DEF Inv, TypeOK, Threads,
      Ordering, Locked, host, output, requests, stopping, tokens, End
<1>4. (Waiting /\ Released)' BY ThreadAssumption DEF Inv, TypeOK, Threads,
      Flag, Ids, Waiting, Released, host, output, requests, stopping, tokens,
      End
<1>5. (Fired /\ Early /\ Kept)' BY QuietTokens DEF host, output, requests,
      stopping, tokens, End
<1> QED BY <1>1, <1>2, <1>3, <1>4, <1>5 DEF Inv

(* The reader and the host.                                                *)
LEMMA ResponseInv == ASSUME Inv, NEW i \in asked, Response(i) PROVE Inv'
<1>1. TypeOK' BY ThreadAssumption DEF Inv, TypeOK, Threads, Frames, output,
      stopping, tokens, Response
<1>2. (Flag /\ Ids /\ Locked)' BY ThreadAssumption DEF Inv, TypeOK, Threads,
      Flag, Ids, Locked, Ordering, output, stopping, tokens, Response
<1>3. Ordered' BY ThreadAssumption, QuietQueue DEF Inv, TypeOK, Threads,
      Ordering, Locked, output, stopping, tokens, Response
<1>4. (Waiting /\ Released)' BY ThreadAssumption DEF Inv, TypeOK, Threads,
      Flag, Ids, Waiting, Released, output, stopping, tokens, Response
<1>5. (Fired /\ Early /\ Kept)' BY QuietTokens DEF output, stopping, tokens,
      Response
<1> QED BY <1>1, <1>2, <1>3, <1>4, <1>5 DEF Inv

LEMMA HostRequestInv == ASSUME Inv, HostRequest PROVE Inv'
<1>1. TypeOK' BY ThreadAssumption DEF Inv, TypeOK, Threads, Frames, output,
      requests, stopping, tokens, HostRequest
<1>2. (Flag /\ Ids /\ Locked)' BY ThreadAssumption DEF Inv, TypeOK, Threads,
      Flag, Ids, Locked, Ordering, output, requests, stopping, tokens,
      HostRequest
<1>3. Ordered' BY ThreadAssumption, QuietQueue DEF Inv, TypeOK, Threads,
      Ordering, Locked, output, requests, stopping, tokens, HostRequest
<1>4. (Waiting /\ Released)' BY ThreadAssumption DEF Inv, TypeOK, Threads,
      Flag, Ids, Waiting, Released, output, requests, stopping, tokens,
      HostRequest
<1>5. (Fired /\ Early /\ Kept)' BY QuietTokens DEF output, requests, stopping,
      tokens, HostRequest
<1> QED BY <1>1, <1>2, <1>3, <1>4, <1>5 DEF Inv

LEMMA RetireInv == ASSUME Inv, Retire PROVE Inv'
<1>1. TypeOK' BY ThreadAssumption DEF Inv, TypeOK, Threads, Frames, output,
      requests, stopping, tokens, Retire
<1>2. (Flag /\ Ids /\ Locked)' BY ThreadAssumption DEF Inv, TypeOK, Threads,
      Flag, Ids, Locked, Ordering, output, requests, stopping, tokens, Retire
<1>3. Ordered' BY ThreadAssumption, QuietQueue DEF Inv, TypeOK, Threads,
      Ordering, Locked, output, requests, stopping, tokens, Retire
<1>4. (Waiting /\ Released)' BY ThreadAssumption DEF Inv, TypeOK, Threads,
      Flag, Ids, Waiting, Released, output, requests, stopping, tokens, Retire
<1>5. (Fired /\ Early /\ Kept)' BY QuietTokens DEF output, requests, stopping,
      tokens, Retire
<1> QED BY <1>1, <1>2, <1>3, <1>4, <1>5 DEF Inv

LEMMA ReaderEndsInv == ASSUME Inv, ReaderEnds PROVE Inv'
<1>1. TypeOK' BY ThreadAssumption DEF Inv, TypeOK, Threads, Frames, Stop, host,
      output, requests, stopping, tokens, ReaderEnds
<1>2. (Flag /\ Ids /\ Locked)' BY ThreadAssumption DEF Inv, TypeOK, Threads,
      Flag, Ids, Locked, Ordering, Stop, host, output, requests, stopping,
      tokens, ReaderEnds
<1>3. Ordered' BY ThreadAssumption, QuietQueue DEF Inv, TypeOK, Threads,
      Ordering, Locked, Stop, host, output, requests, stopping, tokens,
      ReaderEnds
<1>4. (Waiting /\ Released)' BY ThreadAssumption DEF Inv, TypeOK, Threads,
      Flag, Ids, Waiting, Released, Stop, host, output, requests, stopping,
      tokens, ReaderEnds
<1>5. (Fired /\ Early /\ Kept)' BY QuietTokens DEF Stop, host, output,
      requests, stopping, tokens, ReaderEnds
<1> QED BY <1>1, <1>2, <1>3, <1>4, <1>5 DEF Inv

(* The actor.                                                              *)
LEMMA AnswerInv == ASSUME Inv, Answer PROVE Inv'
<1>1. TypeOK' /\ Ordered'
  <2>0. callbacks' \in Nat BY DEF Inv, TypeOK, Answer
  <2>1. CASE queue' = queue
    <3>1. TypeOK'
      BY <2>0, <2>1, ThreadAssumption DEF Inv, TypeOK, Threads, Stop, requests,
         stopping, tokens, Answer
    <3>2. Ordered'
      BY <2>1, ThreadAssumption, QuietQueue DEF Inv, TypeOK, Threads, Ordering,
         output, requests, Answer
    <3> QED BY <3>1, <3>2
  <2>2. CASE queue' = Append(queue, Reply) /\ UNCHANGED <<stopping, at>>
    <3>1. queue' \in Seq(Frames) /\ Ordered'
      BY <2>2, Offered DEF Reply, Frames, Ordering, requests, Answer
    <3>2. TypeOK'
      BY <2>0, <2>2, <3>1 DEF Inv, TypeOK, requests, stopping, tokens, Answer
    <3> QED BY <3>1, <3>2
  <2> QED BY <2>1, <2>2 DEF Answer
<1>2. (Flag /\ Ids /\ Locked)' BY ThreadAssumption DEF Inv, TypeOK, Threads,
      Flag, Ids, Locked, Ordering, Stop, Reply, Frames, requests, stopping,
      tokens, Answer
<1>4. (Waiting /\ Released)' BY ThreadAssumption DEF Inv, TypeOK, Threads,
      Flag, Ids, Waiting, Released, Stop, Reply, Frames, requests, stopping,
      tokens, Answer
<1>5. (Fired /\ Early /\ Kept)' BY QuietTokens DEF Stop, Reply, Frames,
      requests, stopping, tokens, Answer
<1> QED BY <1>1, <1>2, <1>4, <1>5 DEF Inv

LEMMA ActorEndsInv == ASSUME Inv, ActorEnds PROVE Inv'
<1>1. TypeOK' BY ThreadAssumption DEF Inv, TypeOK, Threads, Frames, Stop, host,
      output, requests, stopping, tokens, ActorEnds
<1>2. (Flag /\ Ids /\ Locked)' BY ThreadAssumption DEF Inv, TypeOK, Threads,
      Flag, Ids, Locked, Ordering, Stop, host, output, requests, stopping,
      tokens, ActorEnds
<1>3. Ordered' BY ThreadAssumption, QuietQueue DEF Inv, TypeOK, Threads,
      Ordering, Locked, Stop, host, output, requests, stopping, tokens,
      ActorEnds
<1>4. (Waiting /\ Released)' BY ThreadAssumption DEF Inv, TypeOK, Threads,
      Flag, Ids, Waiting, Released, Stop, host, output, requests, stopping,
      tokens, ActorEnds
<1>5. (Fired /\ Early /\ Kept)' BY QuietTokens DEF Stop, host, output,
      requests, stopping, tokens, ActorEnds
<1> QED BY <1>1, <1>2, <1>3, <1>4, <1>5 DEF Inv

(* Leases and jobs.                                                        *)
LEMMA CreateInv == ASSUME Inv, NEW o \in Ops, Create(o) PROVE Inv'
<1>1. TypeOK' BY ThreadAssumption DEF Inv, TypeOK, Threads, Frames, host,
      output, requests, stopping, Create
<1>2. (Flag /\ Ids /\ Locked)' BY ThreadAssumption DEF Inv, TypeOK, Threads,
      Flag, Ids, Locked, Ordering, host, output, requests, stopping, Create
<1>3. Ordered' BY ThreadAssumption, QuietQueue DEF Inv, TypeOK, Threads,
      Ordering, Locked, host, output, requests, stopping, Create
<1>4. (Waiting /\ Released)' BY ThreadAssumption DEF Inv, TypeOK, Threads,
      Flag, Ids, Waiting, Released, host, output, requests, stopping, Create
<1>5. (Fired /\ Early /\ Kept)' BY DEF Inv, TypeOK, Fired, Early, Kept, Old,
      IsEarly, host, output, requests, stopping, Create
<1> QED BY <1>1, <1>2, <1>3, <1>4, <1>5 DEF Inv

LEMMA TrackInv == ASSUME Inv, NEW o \in Ops, Track(o) PROVE Inv'
<1>0. ASSUME IsEarly(o) PROVE (TypeOK /\ Fired /\ Early /\ Kept)'
  <2>1. PICK i \in DOMAIN early : early[i] = o /\ early' = RemoveAt(early, i)
    BY <1>0 DEF Track
  <2>2. i \in 1 .. Len(early) /\ early \in Seq(Ops) BY DEF Inv, TypeOK
  <2>3. /\ early' \in Seq(Ops) /\ Len(early') = Len(early) - 1
        /\ DOMAIN early' = 1 .. Len(early) - 1
        /\ \A j \in 1 .. Len(early) - 1 :
             early'[j] = IF j < i THEN early[j] ELSE early[j + 1]
    BY <2>1, <2>2, Removed
  <2>4. (Fired /\ Kept)'
    <3>1. fired' = fired \cup {o} BY <1>0 DEF Track
    <3>2. ASSUME NEW p \in Ops \ {o}, IsEarly(p) PROVE IsEarly(p)'
      <4>1. PICK j \in DOMAIN early : early[j] = p BY <3>2 DEF IsEarly
      <4>2. j # i /\ j \in 1 .. Len(early) BY <4>1, <2>1, <2>2
      <4>3. CASE j < i BY <4>1, <4>2, <4>3, <2>2, <2>3 DEF IsEarly
      <4>4. CASE j > i
        <5>1. j - 1 \in DOMAIN early' /\ early'[j - 1] = p
          BY <4>1, <4>2, <4>4, <2>2, <2>3
        <5> QED BY <5>1 DEF IsEarly
      <4> QED BY <4>2, <4>3, <4>4, <2>2
    <3> QED BY <3>1, <3>2 DEF Inv, TypeOK, Fired, Kept, Old, stopping, Track
  <2>5. Early'
    <3>1. cancelled' = cancelled BY DEF Track
    <3>2. /\ Len(early) <= MaxEarly
          /\ \A j \in 1 .. Len(early) : early[j] \in cancelled
          /\ \A j, k \in 1 .. Len(early) : early[j] = early[k] => j = k
      BY <2>2 DEF Inv, Early
    <3>3. Len(early) \in Nat BY <2>2
    <3>4. Len(early') <= MaxEarly BY <3>2, <3>3, <2>3, WindowAssumption
    <3>5. \A j \in 1 .. Len(early) - 1 : early'[j] \in cancelled
      BY <3>2, <3>3, <2>3
    <3>6. \A j, k \in 1 .. Len(early) - 1 : early'[j] = early'[k] => j = k
      BY <3>2, <3>3, <2>2, <2>3
    <3> QED BY <3>1, <3>4, <3>5, <3>6, <2>3 DEF Early
  <2>6. TypeOK'
    BY <2>3 DEF Inv, TypeOK, host, output, requests, stopping, Track
  <2> QED BY <2>4, <2>5, <2>6
<1>1. ASSUME ~IsEarly(o) PROVE (TypeOK /\ Fired /\ Early /\ Kept)'
  <2>1. TypeOK'
    BY <1>1 DEF Inv, TypeOK, host, output, requests, stopping, Track
  <2>2. (Fired /\ Early /\ Kept)'
    BY <1>1 DEF Inv, TypeOK, Flag, Fired, Early, Kept, Old, IsEarly, stopping,
       Track
  <2> QED BY <2>1, <2>2
<1>2. (Flag /\ Ids /\ Locked)' BY ThreadAssumption DEF Inv, TypeOK, Threads,
      Flag, Ids, Locked, Ordering, IsEarly, host, output, requests, stopping,
      Track
<1>3. Ordered' BY ThreadAssumption, QuietQueue DEF Inv, TypeOK, Threads,
      Ordering, Locked, IsEarly, host, output, requests, stopping, Track
<1>4. (Waiting /\ Released)' BY ThreadAssumption DEF Inv, TypeOK, Threads,
      Flag, Ids, Waiting, Released, IsEarly, host, output, requests, stopping,
      Track
<1> QED BY <1>0, <1>1, <1>2, <1>3, <1>4 DEF Inv

LEMMA UntrackInv == ASSUME Inv, NEW o \in Ops, Untrack(o) PROVE Inv'
<1>1. TypeOK' BY ThreadAssumption DEF Inv, TypeOK, Threads, Frames, host,
      output, requests, stopping, Untrack
<1>2. (Flag /\ Ids /\ Locked)' BY ThreadAssumption DEF Inv, TypeOK, Threads,
      Flag, Ids, Locked, Ordering, host, output, requests, stopping, Untrack
<1>3. Ordered' BY ThreadAssumption, QuietQueue DEF Inv, TypeOK, Threads,
      Ordering, Locked, host, output, requests, stopping, Untrack
<1>4. (Waiting /\ Released)' BY ThreadAssumption DEF Inv, TypeOK, Threads,
      Flag, Ids, Waiting, Released, host, output, requests, stopping, Untrack
<1>5. (Fired /\ Early /\ Kept)' BY DEF Inv, TypeOK, Fired, Early, Kept, Old,
      IsEarly, host, output, requests, stopping, Untrack
<1> QED BY <1>1, <1>2, <1>3, <1>4, <1>5 DEF Inv

LEMMA CancelInv == ASSUME Inv, NEW o \in Ops, Cancel(o) PROVE Inv'
<1>a. cancelled' = cancelled \cup {o} /\ o \notin cancelled /\ op' = op
  BY DEF Cancel
<1>b. IsFiniteSet(cancelled) /\ Cardinality(cancelled) \in Nat
  BY FiniteAssumption, FS_Subset, FS_CardinalityType DEF Inv, TypeOK
<1>c. \A p \in cancelled : Old(p) => Old(p)'
  BY <1>a, <1>b, OldKept
<1>0. ASSUME op[o] = "tracked"
      PROVE  (TypeOK /\ Fired /\ Early /\ Kept)'
  <2>1. TypeOK'
    BY <1>0 DEF Inv, TypeOK, host, output, requests, stopping, Cancel
  <2>2. (Fired /\ Early /\ Kept)'
    BY <1>0, <1>a, <1>c DEF Inv, TypeOK, Fired, Early, Kept, IsEarly, stopping,
       Cancel
  <2> QED BY <2>1, <2>2
<1>1. ASSUME op[o] # "tracked"
      PROVE  (TypeOK /\ Fired /\ Early /\ Kept)'
  <2>1. early' = Remember(o) /\ fired' = fired BY <1>1 DEF Cancel
  <2>2. early \in Seq(Ops) /\ Len(early) \in Nat /\ DOMAIN early = 1 .. Len(early)
    BY DEF Inv, TypeOK
  <2>3. /\ Len(early) <= MaxEarly
        /\ \A j \in 1 .. Len(early) : early[j] \in cancelled
        /\ \A j, k \in 1 .. Len(early) : early[j] = early[k] => j = k
    BY <2>2 DEF Inv, Early
  <2>4. CASE Len(early) = MaxEarly
    <3>1. early' = Append(Tail(early), o) /\ early # <<>>
      BY <2>1, <2>2, <2>4, WindowAssumption DEF Remember
    <3>2. /\ early' \in Seq(Ops) /\ Len(early') = Len(early)
          /\ DOMAIN early' = 1 .. Len(early) /\ early'[Len(early)] = o
          /\ \A j \in 1 .. Len(early) - 1 : early'[j] = early[j + 1]
      BY <3>1, <2>2
    <3>3. \A j \in 1 .. Len(early) : early[j] # o BY <2>3, <1>a
    <3>4. Early'
      BY <3>2, <3>3, <2>2, <2>3, <1>a DEF Early
    <3>5. Cardinality(cancelled' \ {early[1]}) >= MaxEarly
      <4>1. Len(early) <= Cardinality(cancelled)
        BY <2>2, <2>3, <1>b, Distinct
      <4>2. early[1] \in cancelled /\ early[1] # o
        BY <2>2, <2>3, <3>3, <2>4, WindowAssumption
      <4>3. Cardinality(cancelled' \ {early[1]}) = Cardinality(cancelled)
        <5>1. cancelled' \ {early[1]} = (cancelled \ {early[1]}) \cup {o}
          BY <4>2, <1>a
        <5>2. /\ IsFiniteSet(cancelled \ {early[1]})
              /\ Cardinality(cancelled \ {early[1]}) = Cardinality(cancelled) - 1
          BY <4>2, <1>b, FS_RemoveElement
        <5>3. o \notin cancelled \ {early[1]} BY <1>a
        <5>4. Cardinality((cancelled \ {early[1]}) \cup {o})
                = Cardinality(cancelled \ {early[1]}) + 1
          BY <5>2, <5>3, FS_AddElement
        <5>5. Cardinality(cancelled' \ {early[1]})
                = Cardinality(cancelled \ {early[1]}) + 1
          BY <5>1, <5>4
        <5> QED BY <5>2, <5>5, <1>b
      <4> QED BY <4>1, <4>3, <2>4
    <3>6. \A p \in cancelled : IsEarly(p) => IsEarly(p)' \/ p = early[1]
      <4> SUFFICES ASSUME NEW p \in cancelled, IsEarly(p), p # early[1]
                   PROVE  IsEarly(p)'
        OBVIOUS
      <4>1. PICK j \in 1 .. Len(early) : early[j] = p BY <2>2 DEF IsEarly
      <4>2. j - 1 \in 1 .. Len(early) - 1 /\ early'[j - 1] = p
        BY <4>1, <3>2, <2>2
      <4>3. j - 1 \in DOMAIN early' BY <4>2, <3>2, <2>2
      <4> QED BY <4>2, <4>3 DEF IsEarly
    <3>7. IsEarly(o)'
      <4>1. Len(early) \in DOMAIN early' BY <3>2, <2>2, <2>4, WindowAssumption
      <4> QED BY <4>1, <3>2 DEF IsEarly
    <3>8. (Fired /\ Kept)'
      <4>1. \A p \in cancelled : p = early[1] => Old(p)' BY <3>5 DEF Old
      <4> QED BY <4>1, <3>6, <3>7, <2>1, <1>1, <1>a, <1>c
              DEF Inv, TypeOK, Fired, Kept, stopping, Cancel
    <3>9. TypeOK'
      BY <3>2, <2>1 DEF Inv, TypeOK, host, output, requests, stopping, Cancel
    <3> QED BY <3>4, <3>8, <3>9
  <2>5. CASE Len(early) # MaxEarly
    <3>1. early' = Append(early, o) BY <2>1, <2>5 DEF Remember
    <3>2. /\ early' \in Seq(Ops) /\ Len(early') = Len(early) + 1
          /\ DOMAIN early' = 1 .. Len(early) + 1 /\ early'[Len(early) + 1] = o
          /\ \A j \in 1 .. Len(early) : early'[j] = early[j]
      BY <3>1, <2>2
    <3>3. \A j \in 1 .. Len(early) : early[j] # o BY <2>3, <1>a
    <3>4. Early'
      <4>1. Len(early') <= MaxEarly
        <5>1. Len(early) < MaxEarly
          <6>1. Len(early) \in Nat /\ Len(early) <= MaxEarly BY <2>2, <2>3
          <6>2. MaxEarly \in Nat BY WindowAssumption
          <6> QED BY <6>1, <6>2, <2>5
        <5>2. Len(early') = Len(early) + 1 BY <3>2
        <5> QED BY <5>1, <5>2, <2>2, WindowAssumption
      <4>2. \A j \in DOMAIN early' : early'[j] \in cancelled'
        BY <3>2, <2>2, <2>3, <1>a
      <4>3. \A j, k \in DOMAIN early' : early'[j] = early'[k] => j = k
        BY <3>2, <3>3, <2>2, <2>3
      <4> QED BY <4>1, <4>2, <4>3 DEF Early
    <3>5. \A p : IsEarly(p) => IsEarly(p)'
      BY <3>2, <2>2 DEF IsEarly
    <3>6. IsEarly(o)' BY <3>2, <2>2 DEF IsEarly
    <3>7. (Fired /\ Kept)'
      BY <3>5, <3>6, <2>1, <1>1, <1>a, <1>c
         DEF Inv, TypeOK, Fired, Kept, stopping, Cancel
    <3>8. TypeOK'
      BY <3>2, <2>1 DEF Inv, TypeOK, host, output, requests, stopping, Cancel
    <3> QED BY <3>4, <3>7, <3>8
  <2> QED BY <2>4, <2>5
<1>2. (Flag /\ Ids /\ Locked)' BY ThreadAssumption DEF Inv, TypeOK, Threads,
      Flag, Ids, Locked, Ordering, Remember, host, output, requests, stopping,
      Cancel
<1>3. Ordered' BY ThreadAssumption, QuietQueue DEF Inv, TypeOK, Threads,
      Ordering, Locked, Remember, host, output, requests, stopping, Cancel
<1>4. (Waiting /\ Released)' BY ThreadAssumption DEF Inv, TypeOK, Threads,
      Flag, Ids, Waiting, Released, Remember, host, output, requests, stopping,
      Cancel
<1> QED BY <1>0, <1>1, <1>2, <1>3, <1>4 DEF Inv

-----------------------------------------------------------------------------
(* The theorems.                                                           *)

LEMMA InitInv == Init => Inv
<1> SUFFICES ASSUME Init PROVE Inv OBVIOUS
<1>1. TypeOK
  <2>1. queue \in Seq(Frames) /\ early \in Seq(Ops) /\ writing \in Frames
    BY DEF Init, Sentinel, Frames
  <2> QED BY <2>1, ThreadAssumption DEF Init, TypeOK, Threads
<1>2. Flag /\ Ids /\ Locked /\ Waiting /\ Released
  BY ThreadAssumption DEF Init, Threads, Flag, Ids, Locked, Ordering, Waiting,
     Released
<1>3. Ordered
  BY ThreadAssumption DEF Init, Threads, Ordered, Below, IsRequest, Ordering,
     Sentinel
<1>4. Fired /\ Early /\ Kept
  BY WindowAssumption DEF Init, Fired, Early, Kept
<1> QED BY <1>1, <1>2, <1>3, <1>4 DEF Inv

LEMMA NextInv == Inv /\ [Next]_vars => Inv'
<1> SUFFICES ASSUME Inv, [Next]_vars PROVE Inv' OBVIOUS
<1>1. CASE UNCHANGED vars
  BY <1>1 DEF Inv, TypeOK, Flag, Ids, Locked, Ordering, Ordered, Below,
     IsRequest, Waiting, Released, Fired, Early, Old, IsEarly, Kept, vars
<1>2. ASSUME NEW c \in Callers, Caller(c) PROVE Inv'
  BY <1>2, BeginInv, CheckInv, PushInv, PushRefusedInv, RefusedInv,
     AnsweredInv, UnansweredInv, FailedInv DEF Caller
<1>3. CASE StopSteps
  BY <1>3, WakeInv, CancelTokensInv, ClearPendingInv DEF StopSteps
<1>4. CASE WriterSteps
  BY <1>4, TakeInv, DeliverInv, WokenInv, WriteFailsInv, WriterLoopInv, EndInv
     DEF WriterSteps
<1>5. CASE ReaderSteps
  BY <1>5, ResponseInv, HostRequestInv, ReaderEndsInv, EndInv DEF ReaderSteps
<1>6. CASE ActorSteps
  BY <1>6, AnswerInv, ActorEndsInv, EndInv DEF ActorSteps
<1>7. CASE Retire BY <1>7, RetireInv
<1>8. ASSUME NEW o \in Ops, Operation(o) PROVE Inv'
  BY <1>8, CreateInv, TrackInv, UntrackInv, CancelInv DEF Operation
<1> QED BY <1>1, <1>2, <1>3, <1>4, <1>5, <1>6, <1>7, <1>8 DEF Next

(* The inductive invariant holds in every state that can be reached.       *)
THEOREM Invariance == Spec => []Inv
  BY InitInv, NextInv, PTL DEF Spec

(* Every variable keeps its type, for any callers, operations and windows. *)
THEOREM TypeCorrect == Spec => []TypeOK
<1>1. Inv => TypeOK BY DEF Inv
<1> QED BY <1>1, Invariance, PTL

(* Requests reach the wire in the order of their ids: what the order lock  *)
(* around the id and the queue is for (protocol.rs, request()).            *)
THEOREM RequestsOrdered == Spec => []OrderedIds
<1>1. Inv => OrderedIds
  <2> SUFFICES ASSUME Inv PROVE OrderedIds OBVIOUS
  <2>1. queue \in Seq(Frames) /\ writing \in Frames BY DEF Inv, TypeOK
  <2>2. CASE at[Writer] # "write"
    <3>1. Unwritten = queue BY <2>2 DEF Unwritten
    <3> QED BY <3>1 DEF Inv, OrderedIds, Ordered, Below, IsRequest
  <2>3. CASE at[Writer] = "write"
    <3>1. Unwritten = <<writing>> \o queue BY <2>3 DEF Unwritten
    <3>2. /\ DOMAIN Unwritten = 1 .. Len(queue) + 1 /\ Unwritten[1] = writing
          /\ \A i \in DOMAIN Unwritten \ {1} :
               i - 1 \in DOMAIN queue /\ Unwritten[i] = queue[i - 1]
      BY <3>1, <2>1
    <3>3. ASSUME NEW i \in DOMAIN Unwritten, Unwritten[i].kind = "request"
          PROVE  wire < Unwritten[i].id /\ Unwritten[i].id <= serial
      BY <3>2, <3>3, <2>3 DEF Inv, Ordered, Below, IsRequest
    <3>4. ASSUME NEW i \in DOMAIN Unwritten, Unwritten[i].kind = "request",
                 NEW j \in DOMAIN Unwritten, Unwritten[j].kind = "request",
                 j < i
          PROVE  Unwritten[j].id < Unwritten[i].id
      <4>1. i # 1 /\ i - 1 \in DOMAIN queue /\ Unwritten[i] = queue[i - 1]
        BY <3>2, <3>4, <2>1
      <4>2. IsRequest(i - 1) BY <4>1, <3>4 DEF IsRequest
      <4>3. CASE j = 1 BY <4>1, <4>2, <4>3, <3>2, <3>4, <2>3 DEF Inv, Ordered
      <4>4. CASE j # 1
        <5>1. j - 1 \in DOMAIN queue /\ Unwritten[j] = queue[j - 1]
              /\ j - 1 < i - 1
          BY <4>4, <3>2, <3>4, <2>1
        <5>2. IsRequest(j - 1) BY <5>1, <3>4 DEF IsRequest
        <5> QED BY <5>1, <5>2, <4>1, <4>2 DEF Inv, Ordered
      <4> QED BY <4>3, <4>4
    <3> QED BY <3>3, <3>4 DEF OrderedIds
  <2> QED BY <2>2, <2>3
<1> QED BY <1>1, Invariance, PTL

(* A finished stop() has cancelled every tracked token, whenever the       *)
(* tracking happened (protocol.rs, stop() and track()).                    *)
THEOREM StopCancelsTokens == Spec => []StopCancels
<1>1. Inv => StopCancels BY DEF Inv, Fired, StopCancels
<1> QED BY <1>1, Invariance, PTL

(* A finished stop() leaves no caller to its timeout.                      *)
THEOREM StopReleasesCallers == Spec => []StopReleases
<1>1. Inv => StopReleases BY DEF Inv, Released, StopReleases
<1> QED BY <1>1, Invariance, PTL

(* A cancellation reaches its operation, tracked before or after it,       *)
(* unless MaxEarly others came since.                                      *)
THEOREM CancellationsReach == Spec => []CancelReaches
<1>1. Inv => CancelReaches BY DEF Inv, Kept, Old, CancelReaches
<1> QED BY <1>1, Invariance, PTL
-----------------------------------------------------------------------------
(***************************************************************************)
(* The output queue.  A frame in it is a request, whose caller waits for   *)
(* its answer and holds one of PluginWindow permits, or a reply to one of  *)
(* at most HostWindow + MaxLate requests of the host.                      *)
(***************************************************************************)

\* Only stop() queues an empty frame.
NoWake == ~stopped => \A i \in DOMAIN queue : queue[i].kind # "stop"

\* The caller of a queued request waits, and has no answer yet.
Awaits(c, i) == at[c] = "wait" /\ id[c] = i /\ reply[c] # "answer"
Owned == ~stopped =>
  \A i \in DOMAIN queue : IsRequest(i) => \E c \in Callers : Awaits(c, queue[i].id)

\* A request is not answered before it is queued.
NotYet == \A c \in Callers : at[c] \in {"check", "push"} => reply[c] # "answer"

\* The host answers what has been written.
Received == \A i \in asked : i <= wire

\* Replies on their way, and requests still to be replied to, are the host's.
Replies == {i \in DOMAIN queue : queue[i].kind = "reply"}
Held == IF at[Writer] = "write" /\ writing.kind = "reply" THEN 1 ELSE 0
Owed == Cardinality(Replies) + Held + callbacks <= window + late

Windows == /\ window <= HostWindow /\ late <= MaxLate
           /\ Cardinality(Busy) <= PluginWindow

Room == NoWake /\ Owned /\ NotYet /\ Received /\ Owed /\ Windows

\* The places of the replies are finitely many.
LEMMA Counts ==
  ASSUME Inv
  PROVE  /\ IsFiniteSet(Replies) /\ Cardinality(Replies) \in Nat
         /\ IsFiniteSet(Busy) /\ Cardinality(Busy) \in Nat
         /\ queue \in Seq(Frames) /\ writing \in Frames
         /\ DOMAIN queue = 1 .. Len(queue) /\ Len(queue) \in Nat
         /\ window \in Nat /\ late \in Nat /\ callbacks \in Nat /\ Held \in {0, 1}
<1>1. queue \in Seq(Frames) BY DEF Inv, TypeOK
<1>2. DOMAIN queue = 1 .. Len(queue) /\ Len(queue) \in Nat BY <1>1
<1>3. IsFiniteSet(1 .. Len(queue)) BY <1>2, FS_Interval
<1>4. Replies \in SUBSET (1 .. Len(queue)) BY <1>2 DEF Replies
<1>5. IsFiniteSet(Replies) BY <1>3, <1>4, FS_Subset
<1>6. Busy \in SUBSET Callers BY DEF Busy
<1>7. IsFiniteSet(Busy) BY <1>6, FiniteAssumption, FS_Subset
<1> QED BY <1>1, <1>2, <1>5, <1>7, FS_CardinalityType DEF Inv, TypeOK, Held

\* A caller that ends leaves a permit.
LEMMA BusyKept ==
  ASSUME Inv, Room, Busy' \subseteq Busy
  PROVE  Cardinality(Busy') <= PluginWindow
<1>1. IsFiniteSet(Busy) /\ Cardinality(Busy) \in Nat BY Counts
<1>2. Busy' \in SUBSET Busy OBVIOUS
<1>3. Cardinality(Busy') <= Cardinality(Busy) /\ Cardinality(Busy') \in Nat
  BY <1>1, <1>2, FS_Subset, FS_CardinalityType
<1> QED BY <1>1, <1>3, WindowAssumption DEF Room, Windows

\* A frame joins the queue.
LEMMA Joined ==
  ASSUME Inv, NEW f \in Frames, queue' = Append(queue, f)
  PROVE  /\ DOMAIN queue' = 1 .. Len(queue) + 1 /\ queue'[Len(queue) + 1] = f
         /\ \A i \in DOMAIN queue : queue'[i] = queue[i]
         /\ Cardinality(Replies') =
              Cardinality(Replies) + (IF f.kind = "reply" THEN 1 ELSE 0)
<1>1. queue \in Seq(Frames) BY DEF Inv, TypeOK
<1>2. /\ DOMAIN queue = 1 .. Len(queue) /\ DOMAIN queue' = 1 .. Len(queue) + 1
      /\ queue'[Len(queue) + 1] = f /\ Len(queue) \in Nat
      /\ \A i \in DOMAIN queue : queue'[i] = queue[i]
  <2> HIDE DEF Frames
  <2> QED BY <1>1
<1>3. IsFiniteSet(Replies) /\ Cardinality(Replies) \in Nat BY Counts
<1>4. CASE f.kind = "reply"
  <2>1. Replies' = Replies \cup {Len(queue) + 1} BY <1>2, <1>4 DEF Replies
  <2>2. Len(queue) + 1 \notin Replies BY <1>2 DEF Replies
  <2>3. Cardinality(Replies') = Cardinality(Replies) + 1
    BY <1>3, <2>1, <2>2, FS_AddElement
  <2> QED BY <1>2, <1>4, <2>3
<1>5. CASE f.kind # "reply"
  <2>1. Replies' = Replies BY <1>2, <1>5 DEF Replies
  <2> QED BY <1>2, <1>3, <1>5, <2>1
<1> QED BY <1>4, <1>5

\* The first frame leaves the queue.
LEMMA Left ==
  ASSUME Inv, queue # <<>>, queue' = Tail(queue)
  PROVE  /\ 1 \in DOMAIN queue /\ Head(queue) = queue[1]
         /\ \A i \in DOMAIN queue' : i + 1 \in DOMAIN queue /\ queue'[i] = queue[i + 1]
         /\ Cardinality(Replies') \in Nat
         /\ Cardinality(Replies') + (IF queue[1].kind = "reply" THEN 1 ELSE 0)
              <= Cardinality(Replies)
<1> DEFINE rest == Replies \ {1}
           f == [i \in Replies' |-> i + 1]
<1>1. queue \in Seq(Frames) BY DEF Inv, TypeOK
<1>2. /\ DOMAIN queue = 1 .. Len(queue) /\ DOMAIN queue' = 1 .. Len(queue) - 1
      /\ Len(queue) \in Nat \ {0} /\ Head(queue) = queue[1]
      /\ \A i \in DOMAIN queue' : i + 1 \in DOMAIN queue /\ queue'[i] = queue[i + 1]
  <2> HIDE DEF Frames
  <2> QED BY <1>1
<1>3. IsFiniteSet(Replies) /\ Cardinality(Replies) \in Nat BY Counts
<1>4. IsFiniteSet(rest) /\ Cardinality(rest) \in Nat
      /\ Cardinality(rest) = IF 1 \in Replies THEN Cardinality(Replies) - 1
                                              ELSE Cardinality(Replies)
  BY <1>3, FS_RemoveElement, FS_CardinalityType
<1>5. 1 \in Replies <=> queue[1].kind = "reply" BY <1>2 DEF Replies
<1>6. f \in Injection(Replies', rest)
  <2>1. Replies' \subseteq Nat BY <1>2 DEF Replies
  <2>2. \A i \in Replies' : i + 1 \in rest BY <1>2 DEF Replies
  <2>3. f \in [Replies' -> rest] BY <2>2
  <2>4. \A i, j \in Replies' : f[i] = f[j] => i = j BY <2>1
  <2> QED BY <2>3, <2>4 DEF Injection, IsInjective
<1>7. IsFiniteSet(Replies') /\ Cardinality(Replies') <= Cardinality(rest)
  BY <1>4, <1>6, FS_Injection
<1>8. Cardinality(Replies') \in Nat BY <1>7, FS_CardinalityType
<1> HIDE DEF rest, f
<1>9. Cardinality(Replies') + (IF queue[1].kind = "reply" THEN 1 ELSE 0)
        <= Cardinality(Replies)
  BY <1>3, <1>4, <1>5, <1>7, <1>8
<1>10. 1 \in DOMAIN queue BY <1>2
<1> QED BY <1>2, <1>8, <1>9, <1>10

\* A step that touches neither the queue nor the host.
LEMMA QuietRoom ==
  ASSUME Inv, Room, UNCHANGED <<queue, wire, host>>, stopped => stopped',
         at'[Writer] = "write" => at[Writer] = "write" /\ writing' = writing,
         \A c \in Callers : \A i : ~stopped' /\ Awaits(c, i) => Awaits(c, i)',
         NotYet', Cardinality(Busy') <= PluginWindow
  PROVE  Room'
<1>1. NoWake' BY DEF Room, NoWake
<1>2. Owned' BY DEF Room, Owned, IsRequest
<1>3. Received' BY DEF Room, Received, host
<1>4. Owed'
  <2>1. Held' <= Held /\ Held' \in {0, 1} BY DEF Held
  <2>2. Replies' = Replies BY DEF Replies
  <2> QED BY <2>1, <2>2, Counts DEF Room, Owed, host
<1>5. Windows' BY DEF Room, Windows, host
<1> QED BY <1>1, <1>2, <1>3, <1>4, <1>5 DEF Room
\* stop(), a step at a time; the empty frame is queued once it has begun.
LEMMA WakeRoom == ASSUME Inv, Room, Wake PROVE Room'
<1>1. stopped /\ stopped' BY DEF Inv, Flag, Wake
<1>2. NoWake' /\ Owned' BY <1>1 DEF NoWake, Owned
<1>3. UNCHANGED <<writing, wire, at, asked, window, late, callbacks>>
  BY DEF Wake, host
<1>4. Cardinality(Replies') = Cardinality(Replies)
  <2>1. CASE queue' = queue BY <2>1 DEF Replies
  <2>2. CASE queue' = Append(queue, Sentinel)
    <3>1. Sentinel \in Frames /\ Sentinel.kind # "reply" BY DEF Sentinel, Frames
    <3>2. Cardinality(Replies') = Cardinality(Replies) + 0 BY <2>2, <3>1, Joined
    <3> QED BY <3>2, Counts
  <2> QED BY <2>1, <2>2 DEF Wake
<1>5. Received' /\ Windows' /\ NotYet'
  BY <1>3 DEF Room, Received, Windows, Busy, NotYet, Wake, requests
<1>6. Owed'
  <2>1. Held' = Held BY <1>3 DEF Held
  <2> QED BY <1>3, <1>4, <2>1 DEF Room, Owed
<1> QED BY <1>2, <1>5, <1>6 DEF Room

LEMMA StopRoom == ASSUME Inv, Room, CancelTokens \/ ClearPending PROVE Room'
<1>1. UNCHANGED <<queue, writing, wire, host, at, id, stopped>>
  BY DEF CancelTokens, ClearPending, output, requests
<1>2. stopped BY DEF Inv, Flag, CancelTokens, ClearPending
<1>3. Busy' \subseteq Busy BY <1>1 DEF Busy
<1>4. Cardinality(Busy') <= PluginWindow BY <1>3, BusyKept
<1>5. NotYet'
  BY DEF Room, NotYet, CancelTokens, ClearPending, requests
<1> QED BY <1>1, <1>2, <1>4, <1>5, QuietRoom

\* A caller takes a permit and an id.
LEMMA BeginRoom == ASSUME Inv, Room, NEW c \in Callers, Begin(c) PROVE Room'
<1>1. /\ UNCHANGED <<queue, writing, wire, host, stopped>>
      /\ at'[Writer] = at[Writer]
  BY ThreadAssumption DEF Inv, TypeOK, Threads, Begin, output, stopping
<1>2. \A d \in Callers : \A i : Awaits(d, i) => Awaits(d, i)'
  BY DEF Inv, TypeOK, Threads, Awaits, Begin
<1>3. Cardinality(Busy') <= PluginWindow
  <2>1. Busy' = Busy \cup {c} /\ c \notin Busy
    BY DEF Inv, TypeOK, Threads, Busy, Begin
  <2>2. Cardinality(Busy') = Cardinality(Busy) + 1 BY <2>1, Counts, FS_AddElement
  <2> QED BY <2>2, Counts, WindowAssumption DEF Begin
<1>4. NotYet' BY DEF Inv, TypeOK, Threads, Room, NotYet, Begin
<1> QED BY <1>1, <1>2, <1>3, <1>4, QuietRoom

\* The caller leaves request(), or takes a step that queues nothing.
LEMMA CallerRoom ==
  ASSUME Inv, Room, NEW c \in Callers,
         Check(c) \/ PushRefused(c) \/ Refused(c) \/ Answered(c) \/ Unanswered(c)
         \/ Failed(c)
  PROVE  Room'
<1>1. UNCHANGED <<queue, writing, wire, host>> /\ (stopped => stopped')
  BY DEF Check, PushRefused, Refused, Answered, Unanswered, Failed, Leave, Stop,
         output, stopping
<1>2. at'[Writer] = at[Writer] /\ Busy' \subseteq Busy
  BY ThreadAssumption DEF Inv, TypeOK, Threads, Busy, Check, PushRefused, Refused,
     Answered, Unanswered, Failed, Leave, Withdraw
<1>3. \A d \in Callers : \A i : ~stopped' /\ Awaits(d, i) => Awaits(d, i)'
  <2>1. CASE Unanswered(c) \/ PushRefused(c) \/ Failed(c)
    <3>1. CASE Unanswered(c) \/ PushRefused(c)
      BY <3>1 DEF Unanswered, PushRefused, Stop, stopping
    <3>2. CASE Failed(c) BY <3>2 DEF Inv, TypeOK, Threads, Awaits, Failed, Leave
    <3> QED BY <2>1, <3>1, <3>2
  <2>2. CASE Check(c) \/ Refused(c)
    BY <2>2 DEF Inv, TypeOK, Threads, Awaits, Check, Refused, Withdraw, requests
  <2>3. CASE Answered(c)
    BY <2>3 DEF Inv, TypeOK, Threads, Awaits, Answered, Leave
  <2> QED BY <2>1, <2>2, <2>3
<1>4. Cardinality(Busy') <= PluginWindow BY <1>2, BusyKept
<1>5. NotYet'
  BY DEF Inv, TypeOK, Threads, Room, NotYet, Check, PushRefused, Refused,
     Answered, Unanswered, Failed, Leave, Withdraw, requests
<1> QED BY <1>1, <1>2, <1>3, <1>4, <1>5, QuietRoom

\* The request joins the queue, and its caller waits.
LEMMA PushRoom == ASSUME Inv, Room, NEW c \in Callers, Push(c) PROVE Room'
<1> DEFINE f == Request(id[c])
<1>1. f \in Frames /\ f.kind = "request" /\ f.id = id[c] /\ queue' = Append(queue, f)
  BY DEF Inv, TypeOK, Request, Frames, Push
<1> HIDE DEF f
<1>2. /\ DOMAIN queue' = 1 .. Len(queue) + 1 /\ queue'[Len(queue) + 1] = f
      /\ \A i \in DOMAIN queue : queue'[i] = queue[i]
      /\ Cardinality(Replies') = Cardinality(Replies) + 0
  BY <1>1, Joined
<1>3. \A i \in DOMAIN queue' : i \in DOMAIN queue \/ i = Len(queue) + 1
  BY <1>2, Counts
<1>4. /\ UNCHANGED <<writing, wire, asked, window, late, callbacks, stopped, id, reply>>
      /\ at'[Writer] = at[Writer] /\ at'[c] = "wait"
      /\ \A d \in Callers \ {c} : at'[d] = at[d]
      /\ at[c] = "push"
  BY ThreadAssumption DEF Inv, TypeOK, Threads, Push, host, stopping
<1>5. NoWake' BY <1>1, <1>2, <1>3, <1>4 DEF Room, NoWake
<1>6. Owned'
  <2> SUFFICES ASSUME ~stopped, NEW i \in DOMAIN queue', IsRequest(i)'
               PROVE  \E d \in Callers : Awaits(d, queue[i].id)'
    BY <1>4 DEF Owned, Awaits
  <2>1. CASE i = Len(queue) + 1
    <3>1. reply[c] # "answer" BY DEF Room, NotYet, Push
    <3> QED BY <3>1, <2>1, <1>1, <1>2, <1>4 DEF Awaits
  <2>2. CASE i \in DOMAIN queue
    <3>1. IsRequest(i) /\ queue'[i] = queue[i] BY <2>2, <1>2 DEF IsRequest
    <3>2. PICK d \in Callers : Awaits(d, queue[i].id) BY <3>1, <2>2 DEF Room, Owned
    <3>3. d # c BY <3>2, <1>4 DEF Awaits
    <3> QED BY <3>1, <3>2, <3>3, <1>4 DEF Awaits
  <2> QED BY <2>1, <2>2, <1>3
<1>7. Received' BY <1>4 DEF Room, Received
<1>8. Owed'
  <2>1. Held' = Held BY <1>4 DEF Held
  <2> QED BY <2>1, <1>2, <1>4, Counts DEF Room, Owed
<1>9. Windows'
  <2>1. Busy' \subseteq Busy BY <1>4 DEF Busy
  <2>2. Cardinality(Busy') <= PluginWindow BY <2>1, BusyKept
  <2> QED BY <2>2, <1>4 DEF Room, Windows
<1>10. NotYet' BY <1>4 DEF Room, NotYet
<1> QED BY <1>5, <1>6, <1>7, <1>8, <1>9, <1>10 DEF Room
\* The writer takes the first frame, and holds it.
LEMMA TakeRoom == ASSUME Inv, Room, Take PROVE Room'
<1>1. /\ queue # <<>> /\ queue' = Tail(queue) /\ writing' = Head(queue)
      /\ at[Writer] = "recv" /\ at'[Writer] = "write"
      /\ \A c \in Callers : at'[c] = at[c]
      /\ UNCHANGED <<wire, asked, window, late, callbacks, stopped, id, reply>>
  BY ThreadAssumption DEF Inv, TypeOK, Threads, Take, host, requests, stopping
<1>2. /\ 1 \in DOMAIN queue /\ Head(queue) = queue[1]
      /\ \A i \in DOMAIN queue' : i + 1 \in DOMAIN queue /\ queue'[i] = queue[i + 1]
      /\ Cardinality(Replies') \in Nat
      /\ Cardinality(Replies') + (IF queue[1].kind = "reply" THEN 1 ELSE 0)
           <= Cardinality(Replies)
  BY <1>1, Left
<1>3. NoWake' BY <1>1, <1>2 DEF Room, NoWake
<1>4. Owned'
  <2> SUFFICES ASSUME ~stopped, NEW i \in DOMAIN queue', IsRequest(i)'
               PROVE  \E d \in Callers : Awaits(d, queue[i].id)'
    BY <1>1 DEF Owned, Awaits
  <2>1. IsRequest(i + 1) /\ i + 1 \in DOMAIN queue BY <1>2 DEF IsRequest
  <2>2. PICK d \in Callers : Awaits(d, queue[i + 1].id) BY <2>1 DEF Room, Owned
  <2> QED BY <2>2, <1>1, <1>2 DEF Awaits
<1>5. Owed'
  <2>1. Held = 0 /\ Held' = IF queue[1].kind = "reply" THEN 1 ELSE 0
    BY <1>1, <1>2 DEF Held
  <2>2. Cardinality(Replies) + 0 + callbacks <= window + late
    BY <2>1 DEF Room, Owed
  <2> HIDE DEF Replies, Held
  <2>3. Cardinality(Replies') + Held' + callbacks <= window + late
    BY <2>1, <2>2, <1>2, Counts
  <2> QED BY <2>3, <1>1 DEF Owed
<1>6. Received' /\ NotYet' BY <1>1 DEF Room, Received, NotYet
<1>7. Windows' BY <1>1 DEF Room, Windows, Busy
<1> QED BY <1>3, <1>4, <1>5, <1>6, <1>7 DEF Room

\* The host receives what the writer held: a request, or a reply it counts.
LEMMA DeliverRoom == ASSUME Inv, Room, Deliver PROVE Room'
<1>1. /\ at[Writer] = "write" /\ at'[Writer] = "check"
      /\ \A c \in Callers : at'[c] = at[c]
      /\ UNCHANGED <<queue, writing, callbacks, stopped, id, reply>>
  BY ThreadAssumption DEF Inv, TypeOK, Threads, Deliver, requests, stopping
<1>2. NoWake' /\ Owned' /\ NotYet'
  BY <1>1 DEF Room, NoWake, Owned, NotYet, IsRequest, Awaits
<1>3. Replies' = Replies /\ Held' = 0 BY <1>1 DEF Replies, Held
<1>4. wire \in Nat /\ writing.id \in Nat BY FrameIds
<1>5. asked \subseteq Nat BY DEF Inv, TypeOK
<1>6. CASE /\ writing.kind = "request" /\ wire' = writing.id
           /\ asked' = asked \cup {writing.id} /\ UNCHANGED <<window, late>>
  <2>1. wire < writing.id BY <1>1, <1>6 DEF Inv, Ordered
  <2>2. Received' BY <1>4, <1>5, <1>6, <2>1 DEF Room, Received
  <2>3. Held = 0 BY <1>6 DEF Held
  <2>4. Owed' BY <1>1, <1>3, <1>6, <2>3 DEF Room, Owed
  <2>5. Windows' BY <1>1, <1>6 DEF Room, Windows, Busy
  <2> QED BY <1>2, <2>2, <2>4, <2>5 DEF Room
<1>7. CASE /\ writing.kind = "reply" /\ UNCHANGED <<wire, asked>>
           /\ \/ window > 0 /\ window' = window - 1 /\ UNCHANGED late
              \/ late > 0 /\ late' = late - 1 /\ UNCHANGED window
  <2>1. Received' BY <1>7 DEF Room, Received
  <2>2. Held = 1 BY <1>1, <1>7 DEF Held
  <2>3. window' + late' = window + late - 1 /\ window' <= window /\ late' <= late
        /\ window' \in Int /\ late' \in Int
    BY <1>7, Counts
  <2>4. Cardinality(Replies) + 1 + callbacks <= window + late
    BY <2>2 DEF Room, Owed
  <2>5. Owed' BY <1>1, <1>3, <2>3, <2>4, Counts DEF Owed
  <2>6. Busy' = Busy BY <1>1, ThreadAssumption DEF Busy
  <2>7. Windows' BY <2>3, <2>6, Counts, WindowAssumption DEF Room, Windows
  <2> QED BY <1>2, <2>1, <2>5, <2>7 DEF Room
<1> QED BY <1>6, <1>7 DEF Deliver

\* The writer's, reader's and actor's steps that queue nothing.
LEMMA ThreadRoom ==
  ASSUME Inv, Room, NEW t \in {Reader, Writer, Actor},
         Woken \/ WriteFails \/ WriterLoop \/ End(t) \/ ReaderEnds \/ ActorEnds
  PROVE  Room'
<1>1. /\ UNCHANGED <<queue, writing, wire, host, id, reply>> /\ (stopped => stopped')
      /\ \A c \in Callers : at'[c] = at[c]
      /\ at'[Writer] = "write" => at[Writer] = "write"
  BY ThreadAssumption DEF Inv, TypeOK, Threads, Woken, WriteFails, WriterLoop,
     End, ReaderEnds, ActorEnds, Stop, output, stopping, requests
<1>2. \A d \in Callers : \A i : Awaits(d, i) => Awaits(d, i)' BY <1>1 DEF Awaits
<1>3. NotYet' BY <1>1 DEF Room, NotYet
<1>4. Busy' \subseteq Busy BY <1>1 DEF Busy
<1>5. Cardinality(Busy') <= PluginWindow BY <1>4, BusyKept
<1> QED BY <1>1, <1>2, <1>3, <1>5, QuietRoom

LEMMA OperationRoom ==
  ASSUME Inv, Room, NEW o \in Ops, Operation(o) PROVE Room'
<1>1. UNCHANGED <<queue, writing, wire, host, id, reply, at, stopped>>
  BY DEF Operation, Create, Track, Untrack, Cancel, output, stopping, requests
<1>2. \A d \in Callers : \A i : Awaits(d, i) => Awaits(d, i)' BY <1>1 DEF Awaits
<1>3. NotYet' BY <1>1 DEF Room, NotYet
<1>4. Busy' \subseteq Busy BY <1>1 DEF Busy
<1>5. Cardinality(Busy') <= PluginWindow BY <1>4, BusyKept
<1> QED BY <1>1, <1>2, <1>3, <1>5, QuietRoom

\* An answer is to a request that has left the queue.
LEMMA ResponseRoom == ASSUME Inv, Room, NEW i \in asked, Response(i) PROVE Room'
<1>1. /\ UNCHANGED <<queue, writing, wire, at, id, window, late, callbacks, stopped>>
      /\ asked' \subseteq asked
      /\ \A c \in Callers : reply'[c] = "answer" => reply[c] = "answer" \/ id[c] = i
  BY DEF Inv, TypeOK, Response, output, stopping
<1>2. i \in Nat /\ i <= wire /\ wire \in Nat
  BY DEF Inv, TypeOK, Room, Received
<1>3. ASSUME NEW j \in DOMAIN queue, IsRequest(j) PROVE queue[j].id # i
  <2>1. wire < queue[j].id /\ queue[j].id \in Nat BY <1>3, FrameIds DEF Inv, Ordered
  <2> QED BY <2>1, <1>2
<1>4. Owned'
  <2> SUFFICES ASSUME ~stopped, NEW j \in DOMAIN queue, IsRequest(j)
               PROVE  \E d \in Callers : Awaits(d, queue[j].id)'
    BY <1>1 DEF Owned, Awaits, IsRequest
  <2>1. PICK d \in Callers : Awaits(d, queue[j].id) BY DEF Room, Owned
  <2>2. id[d] # i BY <2>1, <1>3 DEF Awaits
  <2> QED BY <2>1, <2>2, <1>1 DEF Awaits
<1>5. NotYet'
  <2> SUFFICES ASSUME NEW c \in Callers, at[c] \in {"check", "push"}
               PROVE  reply'[c] # "answer"
    BY <1>1 DEF NotYet
  <2>1. wire < id[c] /\ id[c] \in Nat
    BY DEF Inv, TypeOK, Ordered, Below, Ordering
  <2> QED BY <2>1, <1>1, <1>2 DEF Room, NotYet
<1>6. NoWake' /\ Received' BY <1>1 DEF Room, NoWake, Received
<1>7. Owed'
  <2>1. Replies' = Replies /\ Held' = Held BY <1>1 DEF Replies, Held
  <2> QED BY <2>1, <1>1 DEF Room, Owed
<1>8. Windows' BY <1>1 DEF Room, Windows, Busy
<1> QED BY <1>4, <1>5, <1>6, <1>7, <1>8 DEF Room

\* The host asks within its window, or gives up within MaxLate.
LEMMA HostRoom == ASSUME Inv, Room, HostRequest \/ Retire PROVE Room'
<1>1. UNCHANGED <<queue, writing, wire, at, id, reply, asked, stopped>>
  BY DEF HostRequest, Retire, output, requests, stopping
<1>2. /\ window' + late' - callbacks' = window + late - callbacks
      /\ window' \in Int /\ late' \in Int /\ callbacks' \in Int
      /\ window' <= HostWindow /\ late' <= MaxLate
  <2>1. window \in Nat /\ late \in Nat /\ callbacks \in Nat BY Counts
  <2>2. window <= HostWindow /\ late <= MaxLate BY DEF Room, Windows
  <2>3. CASE HostRequest
    <3>1. window < HostWindow /\ window' = window + 1 /\ callbacks' = callbacks + 1
          /\ late' = late
      BY <2>3 DEF HostRequest
    <3> QED BY <2>1, <2>2, <3>1, WindowAssumption
  <2>4. CASE Retire
    <3>1. window > 0 /\ window' = window - 1 /\ callbacks' = callbacks
          /\ late < MaxLate /\ late' = late + 1
      BY <2>4 DEF Retire
    <3> QED BY <2>1, <2>2, <3>1, WindowAssumption
  <2> QED BY <2>3, <2>4
<1>3. NoWake' /\ Owned' /\ NotYet' /\ Received'
  BY <1>1 DEF Room, NoWake, Owned, NotYet, Received, IsRequest, Awaits
<1>4. Owed'
  <2>1. Replies' = Replies /\ Held' = Held BY <1>1 DEF Replies, Held
  <2>2. Cardinality(Replies) + Held + callbacks <= window + late BY DEF Room, Owed
  <2>3. /\ Cardinality(Replies) \in Nat /\ Held \in Nat
        /\ window \in Nat /\ late \in Nat /\ callbacks \in Nat
    BY Counts
  <2>4. Cardinality(Replies) + Held + callbacks' <= window' + late'
    <3>1. window' \in Int /\ late' \in Int /\ callbacks' \in Int BY <1>2
    <3>2. window' + late' - callbacks' = window + late - callbacks BY <1>2
    <3>3. Cardinality(Replies) \in Int /\ Held \in Int BY <2>3
    <3>4. window \in Int /\ late \in Int /\ callbacks \in Int BY <2>3
    <3>5. \A r, h, w, l, c, x, y, z \in Int :
            x + y - z = w + l - c /\ r + h + c <= w + l => r + h + z <= x + y
      OBVIOUS
    <3> QED BY <3>1, <3>2, <3>3, <3>4, <3>5, <2>2
  <2> QED BY <2>1, <2>4 DEF Owed
<1>5. Windows' BY <1>1, <1>2 DEF Room, Windows, Busy
<1> QED BY <1>3, <1>4, <1>5 DEF Room

\* A reply joins the queue in the place of its request.
LEMMA AnswerRoom == ASSUME Inv, Room, Answer PROVE Room'
<1>1. /\ UNCHANGED <<writing, wire, id, reply, asked, window, late>>
      /\ \A c \in Callers : at'[c] = at[c]
      /\ at'[Writer] = at[Writer] /\ callbacks' = callbacks - 1 /\ callbacks > 0
      /\ stopped => stopped'
  BY ThreadAssumption DEF Inv, TypeOK, Threads, Answer, Stop, requests, stopping
<1>2. Held' = Held /\ Busy' = Busy BY <1>1 DEF Held, Busy
<1>3. Received' /\ NotYet' /\ Windows'
  BY <1>1, <1>2 DEF Room, Received, NotYet, Windows
<1>4. CASE queue' = queue
  <2>1. NoWake' /\ Owned'
    BY <1>1, <1>4 DEF Room, NoWake, Owned, IsRequest, Awaits
  <2>2. Replies' = Replies BY <1>4 DEF Replies
  <2>3. Owed' BY <2>2, <1>1, <1>2, Counts DEF Room, Owed
  <2> QED BY <1>3, <2>1, <2>3 DEF Room
<1>5. CASE queue' = Append(queue, Reply)
  <2>1. Reply \in Frames /\ Reply.kind = "reply" BY DEF Reply, Frames
  <2>2. /\ DOMAIN queue' = 1 .. Len(queue) + 1 /\ queue'[Len(queue) + 1] = Reply
        /\ \A i \in DOMAIN queue : queue'[i] = queue[i]
        /\ Cardinality(Replies') = Cardinality(Replies) + 1
    BY <1>5, <2>1, Joined
  <2>3. \A i \in DOMAIN queue' : i \in DOMAIN queue \/ i = Len(queue) + 1
    BY <2>2, Counts
  <2>4. NoWake' BY <1>1, <2>1, <2>2, <2>3 DEF Room, NoWake
  <2>5. Owned'
    <3>1. \A i : IsRequest(i)' => IsRequest(i) /\ queue'[i] = queue[i]
      BY <2>1, <2>2, <2>3 DEF IsRequest
    <3> QED BY <3>1, <1>1 DEF Room, Owned, IsRequest, Awaits
  <2>6. Owed'
    <3>1. Cardinality(Replies) + Held + callbacks <= window + late BY DEF Room, Owed
    <3> QED BY <3>1, <2>2, <1>1, <1>2, Counts DEF Owed
  <2> QED BY <1>3, <2>4, <2>5, <2>6 DEF Room
<1> QED BY <1>4, <1>5 DEF Answer

LEMMA InitRoom == Init => Room
<1> SUFFICES ASSUME Init PROVE Room OBVIOUS
<1>1. /\ queue = <<>> /\ asked = {} /\ window = 0 /\ late = 0 /\ callbacks = 0
      /\ \A c \in Callers : at[c] = "idle"
      /\ at[Writer] = "check"
  BY ThreadAssumption DEF Init, Threads
<1>2. Replies = {} /\ Busy = {} /\ Held = 0 BY <1>1 DEF Replies, Busy, Held
<1>3. Cardinality({}) = 0 BY FS_EmptySet
<1>4. Owed /\ Windows BY <1>1, <1>2, <1>3, WindowAssumption DEF Owed, Windows
<1>5. NoWake /\ Owned /\ NotYet /\ Received
  BY <1>1 DEF NoWake, Owned, NotYet, Received
<1> QED BY <1>4, <1>5 DEF Room

LEMMA NextRoom == Inv /\ Room /\ [Next]_vars => Room'
<1> SUFFICES ASSUME Inv, Room, [Next]_vars PROVE Room' OBVIOUS
<1>1. CASE UNCHANGED vars
  <2>1. UNCHANGED <<queue, writing, wire, host, id, reply, at, stopped>>
    BY <1>1 DEF vars, host
  <2>2. \A d \in Callers : \A i : Awaits(d, i) => Awaits(d, i)' BY <2>1 DEF Awaits
  <2>3. NotYet' BY <2>1 DEF Room, NotYet
  <2>4. Busy' \subseteq Busy BY <2>1 DEF Busy
  <2>5. Cardinality(Busy') <= PluginWindow BY <2>4, BusyKept
  <2> QED BY <2>1, <2>2, <2>3, <2>5, QuietRoom
<1>2. ASSUME NEW c \in Callers, Caller(c) PROVE Room'
  BY <1>2, BeginRoom, CallerRoom, PushRoom DEF Caller
<1>3. CASE StopSteps BY <1>3, WakeRoom, StopRoom DEF StopSteps
<1>4. CASE WriterSteps BY <1>4, TakeRoom, DeliverRoom, ThreadRoom DEF WriterSteps
<1>5. CASE ReaderSteps
  BY <1>5, ResponseRoom, HostRoom, ThreadRoom DEF ReaderSteps
<1>6. CASE ActorSteps BY <1>6, AnswerRoom, ThreadRoom DEF ActorSteps
<1>7. CASE Retire BY <1>7, HostRoom
<1>8. ASSUME NEW o \in Ops, Operation(o) PROVE Room' BY <1>8, OperationRoom
<1> QED BY <1>1, <1>2, <1>3, <1>4, <1>5, <1>6, <1>7, <1>8 DEF Next

LEMMA RoomAlways == Spec => []Room
  BY Invariance, InitRoom, NextRoom, PTL DEF Spec

-----------------------------------------------------------------------------
\* Each queued request has a caller of its own.
Waiters == {c \in Callers : at[c] = "wait"}
Asks == {i \in DOMAIN queue : queue[i].kind = "request"}

LEMMA AsksOwned ==
  ASSUME Inv, Room, ~stopped
  PROVE  /\ IsFiniteSet(Asks) /\ IsFiniteSet(Waiters)
         /\ Cardinality(Asks) <= Cardinality(Waiters)
<1> DEFINE f == [i \in Asks |-> CHOOSE c \in Callers : Awaits(c, queue[i].id)]
<1>1. \A i \in Asks : f[i] \in Waiters /\ id[f[i]] = queue[i].id
  BY DEF Room, Owned, Asks, IsRequest, Awaits, Waiters
<1>2. f \in [Asks -> Waiters] BY <1>1
<1> HIDE DEF f
<1>3. \A i, j \in Asks : f[i] = f[j] => i = j
  <2> SUFFICES ASSUME NEW i \in Asks, NEW j \in Asks, queue[i].id = queue[j].id, i # j
               PROVE  FALSE
    BY <1>1
  <2>1. i \in Nat /\ j \in Nat /\ IsRequest(i) /\ IsRequest(j)
        /\ queue[i].id \in Nat /\ queue[j].id \in Nat
        /\ i \in DOMAIN queue /\ j \in DOMAIN queue
    BY Counts, FrameIds DEF Asks, IsRequest
  <2>2. CASE i < j BY <2>1, <2>2 DEF Inv, Ordered
  <2>3. CASE j < i BY <2>1, <2>3 DEF Inv, Ordered
  <2> QED BY <2>1, <2>2, <2>3
<1>4. f \in Injection(Asks, Waiters) BY <1>2, <1>3 DEF Injection, IsInjective
<1>5. Waiters \in SUBSET Callers BY DEF Waiters
<1>6. IsFiniteSet(Waiters) BY <1>5, FiniteAssumption, FS_Subset
<1> QED BY <1>4, <1>6, FS_Injection

\* The frames in the queue are requests and replies.
LEMMA QueueCounted ==
  ASSUME Inv, Room, ~stopped
  PROVE  Len(queue) + callbacks <= Cardinality(Waiters) + HostWindow + MaxLate
<1>1. Asks \cup Replies = 1 .. Len(queue) /\ Asks \cap Replies = {}
  <2>1. \A i \in DOMAIN queue : queue[i] \in Frames BY Counts
  <2> QED BY <2>1, Counts DEF Room, NoWake, Asks, Replies, Frames
<1>2. IsFiniteSet(Asks) /\ IsFiniteSet(Replies) /\ IsFiniteSet(Waiters)
      /\ Cardinality(Asks) <= Cardinality(Waiters)
  BY AsksOwned, Counts
<1>3. Cardinality(1 .. Len(queue)) = Len(queue)
  <2>1. Len(queue) \in Nat BY Counts
  <2>2. Cardinality(1 .. Len(queue)) = IF 1 > Len(queue) THEN 0 ELSE Len(queue) - 1 + 1
    BY <2>1, FS_Interval
  <2> QED BY <2>1, <2>2
<1>4. Cardinality({}) = 0 BY FS_EmptySet
<1>5. Cardinality(Asks \cup Replies) =
        Cardinality(Asks) + Cardinality(Replies) - Cardinality(Asks \cap Replies)
  BY <1>2, FS_Union
<1>6. /\ Cardinality(Asks) \in Nat /\ Cardinality(Waiters) \in Nat
      /\ Cardinality(Replies) \in Nat
  BY <1>2, FS_CardinalityType
<1>7. Len(queue) = Cardinality(Asks) + Cardinality(Replies)
  <2>1. Cardinality(Asks \cup Replies) = Len(queue) BY <1>1, <1>3
  <2>2. Cardinality(Asks \cap Replies) = 0 BY <1>1, <1>4
  <2> QED BY <2>1, <2>2, <1>5, <1>6
<1>8. Cardinality(Replies) + Held + callbacks <= window + late
      /\ window <= HostWindow /\ late <= MaxLate
  BY DEF Room, Owed, Windows
<1> QED BY <1>2, <1>6, <1>7, <1>8, Counts, WindowAssumption

(* "Every admitted reply and request fits without waiting for the writer   *)
(* thread" (protocol.rs:38): the queue never refuses a frame of a running  *)
(* transport whose host gives up no more requests than the headroom holds. *)
THEOREM QueueHasRoom == ASSUME MaxLate <= Headroom PROVE Spec => []QueueFits
<1>1. Inv /\ Room => QueueFits
  <2> SUFFICES ASSUME Inv, Room, ~stopped
               PROVE  /\ \A c \in Callers : at[c] = "push" => Len(queue) < Capacity
                      /\ at[Actor] = "run" /\ callbacks > 0 => Len(queue) < Capacity
    BY DEF QueueFits
  <2>1. Len(queue) + callbacks <= Cardinality(Waiters) + HostWindow + MaxLate
    BY QueueCounted
  <2>2. /\ Waiters \in SUBSET Busy /\ IsFiniteSet(Busy) /\ Cardinality(Busy) \in Nat
        /\ Cardinality(Busy) <= PluginWindow
    BY Counts DEF Waiters, Busy, Room, Windows
  <2>3. IsFiniteSet(Waiters) /\ Cardinality(Waiters) <= Cardinality(Busy)
        /\ Cardinality(Waiters) \in Nat
    BY <2>2, FS_Subset, FS_CardinalityType
  <2>4. ASSUME NEW c \in Callers, at[c] = "push" PROVE Len(queue) < Capacity
    <3>1. c \in Busy /\ c \notin Waiters BY <2>4 DEF Busy, Waiters
    <3>2. Cardinality(Waiters) # Cardinality(Busy) BY <2>2, <3>1, FS_Subset
    <3> QED BY <2>1, <2>2, <2>3, <3>2, Counts, WindowAssumption DEF Capacity
  <2>5. CASE callbacks > 0
    BY <2>1, <2>2, <2>3, <2>5, Counts, WindowAssumption DEF Capacity
  <2> QED BY <2>4, <2>5
<1> QED BY <1>1, Invariance, RoomAlways, PTL
=============================================================================
