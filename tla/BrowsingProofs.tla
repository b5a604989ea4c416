--------------------------- MODULE BrowsingProofs ---------------------------
(***************************************************************************)
(* For any table, limits and page sizes: rows are shown with the options   *)
(* they were read with, a change leaves the other options and the visible  *)
(* columns as they are.                                                    *)
(*                                                                         *)
(* A read holds the options it has captured while the user goes on with    *)
(* the page, its prompts and its draft.  OneRead says how they may differ  *)
(* from those of the page when the read ends.                              *)
(***************************************************************************)
EXTENDS Browsing, SequenceTheorems, TLAPS

Conditions == [column : Columns, enabled : BOOLEAN]
Selections == {s \in BoundedSeq(Columns, MaxSelected) : IsInjective(s)}
Kinds == {"none", "expired", "columns", "sort", "direction", "size", "field", "operator",
          "value", "match"}
Picked == {"direction", "operator", "value"}   \* prompts that follow the choice of a column

RowsTyped == rows \in [open : BOOLEAN, live : BOOLEAN, browse : Browses,
                       selected : Selections, read : Browses, page : Nat]
DraftTyped == draft \in [open : BOOLEAN, source : BOOLEAN, browse : Browses]
InputTyped ==
  /\ input \in [kind : Kinds, index : 0 .. MaxFilters, column : Columns \cup {NoSort},
                selected : Selections]
  /\ input.kind \in Picked => input.column \in Columns
LoadTyped ==
  /\ load \in [view : {"none", "new", "rows", "closed"}, browse : Browses, page : Nat]

\* Only a page that is shown has a connection.
Shown == rows.live => rows.open

\* Options that differ from those of a page in one respect.
Differs(browse) ==
  \/ [browse EXCEPT !.filters = rows.browse.filters, !.any = rows.browse.any] = rows.browse
  \/ [browse EXCEPT !.sort = rows.browse.sort] = rows.browse
  \/ [browse EXCEPT !.size = rows.browse.size] = rows.browse

\* What a read has captured: the options of its page but for one change, with
\* which it starts at the first page.
OneRead ==
  /\ load.view = "none" => load = NoLoad
  /\ load.view = "new" => ~rows.open
  /\ load.view = "rows" =>
       /\ rows.open /\ Differs(load.browse)
       /\ load.browse # rows.browse => load.page = 0

Inv ==
  /\ RowsTyped /\ DraftTyped /\ InputTyped /\ LoadTyped
  /\ rows.browse = rows.read
  /\ Shown /\ OneRead

-----------------------------------------------------------------------------
(* Lemmas about sequences with a limit.                                    *)

LEMMA Bounded ==
  ASSUME NEW S, NEW n \in Nat, NEW s
  PROVE  s \in BoundedSeq(S, n) <=> s \in Seq(S) /\ Len(s) <= n
<1>1. ASSUME NEW m \in 0 .. n, s \in [1 .. m -> S] PROVE s \in Seq(S) /\ Len(s) <= n
  BY <1>1
<1>2. ASSUME s \in Seq(S), Len(s) <= n PROVE s \in [1 .. Len(s) -> S] /\ Len(s) \in 0 .. n
  BY <1>2, LenProperties
<1>3. s \in BoundedSeq(S, n) <=> \E m \in 0 .. n : s \in [1 .. m -> S]
  BY DEF BoundedSeq, SeqOf
<1> QED BY <1>1, <1>2, <1>3

\* Removing an element leaves the others as they were, once each.
LEMMA Removed ==
  ASSUME NEW S, NEW s \in Seq(S), NEW i \in 1 .. Len(s)
  PROVE  /\ RemoveAt(s, i) \in Seq(S) /\ Len(RemoveAt(s, i)) = Len(s) - 1
         /\ \A j \in 1 .. Len(s) - 1 : RemoveAt(s, i)[j] = s[IF j < i THEN j ELSE j + 1]
<1> DEFINE a == SubSeq(s, 1, i - 1)
           b == SubSeq(s, i + 1, Len(s))
<1>1. Len(s) \in Nat /\ \A j \in 1 .. Len(s) : s[j] \in S
  BY LenProperties, ElementOfSeq
<1>2. a \in Seq(S) /\ Len(a) = i - 1 /\ \A j \in 1 .. i - 1 : a[j] = s[j]
  BY <1>1, SubSeqProperties
<1>3. /\ b \in Seq(S) /\ Len(b) = Len(s) - i
      /\ \A j \in 1 .. Len(s) - i : b[j] = s[i + j]
  BY <1>1, SubSeqProperties
<1>4. RemoveAt(s, i) = a \o b
  BY DEF RemoveAt
<1> HIDE DEF a, b
<1>5. /\ a \o b \in Seq(S) /\ Len(a \o b) = Len(s) - 1
      /\ \A j \in 1 .. Len(s) - 1 : (a \o b)[j] = IF j <= i - 1 THEN a[j] ELSE b[j - (i - 1)]
  <2>1. /\ a \o b \in Seq(S) /\ Len(a \o b) = Len(a) + Len(b)
        /\ \A j \in 1 .. Len(a) + Len(b) :
             (a \o b)[j] = IF j <= Len(a) THEN a[j] ELSE b[j - Len(a)]
    BY <1>2, <1>3, ConcatProperties
  <2>2. Len(a) + Len(b) = Len(s) - 1 /\ Len(a) = i - 1
    BY <1>1, <1>2, <1>3
  <2> QED BY <2>1, <2>2
<1>6. ASSUME NEW j \in 1 .. Len(s) - 1
      PROVE  (a \o b)[j] = s[IF j < i THEN j ELSE j + 1]
  <2>1. CASE j < i
    BY <1>1, <1>2, <1>5, <2>1
  <2>2. CASE j >= i
    <3>1. j - (i - 1) \in 1 .. Len(s) - i /\ i + (j - (i - 1)) = j + 1
      BY <1>1, <2>2
    <3> QED BY <1>1, <1>3, <1>5, <2>2, <3>1
  <2>3. j < i \/ j >= i
    BY <1>1
  <2> QED BY <2>1, <2>2, <2>3
<1> QED BY <1>4, <1>5, <1>6

\* The picker stays within its limit and shows a column once.
LEMMA Toggled ==
  ASSUME NEW s \in Selections, NEW c \in Columns
  PROVE  /\ c \notin ToSet(s) /\ Len(s) < MaxSelected => Append(s, c) \in Selections
         /\ c \in ToSet(s) =>
              RemoveAt(s, CHOOSE i \in DOMAIN s : s[i] = c) \in Selections
<1>1. /\ s \in Seq(Columns) /\ Len(s) <= MaxSelected /\ IsInjective(s) /\ MaxSelected \in Nat
      /\ Len(s) \in Nat /\ DOMAIN s = 1 .. Len(s)
  BY Bounded, LimitAssumption, LenProperties DEF Selections
<1>2. ASSUME c \notin ToSet(s), Len(s) < MaxSelected PROVE Append(s, c) \in Selections
  <2>1. Append(s, c) \in Seq(Columns) /\ Len(Append(s, c)) <= MaxSelected
    BY <1>1, <1>2
  <2>2. IsInjective(Append(s, c))
    BY <1>1, <1>2 DEF IsInjective, ToSet
  <2> QED BY <1>1, <2>1, <2>2, Bounded DEF Selections
<1>3. ASSUME c \in ToSet(s)
      PROVE  RemoveAt(s, CHOOSE i \in DOMAIN s : s[i] = c) \in Selections
  <2> DEFINE i == CHOOSE i \in DOMAIN s : s[i] = c
             r == RemoveAt(s, i)
  <2>1. i \in 1 .. Len(s)
    BY <1>1, <1>3 DEF ToSet
  <2> HIDE DEF i
  <2>2. /\ r \in Seq(Columns) /\ Len(r) = Len(s) - 1
        /\ \A j \in 1 .. Len(s) - 1 : r[j] = s[IF j < i THEN j ELSE j + 1]
    BY <1>1, <2>1, Removed
  <2> HIDE DEF r
  <2>3. DOMAIN r = 1 .. Len(s) - 1
    BY <2>2, LenProperties
  <2>4. ASSUME NEW j \in DOMAIN r, NEW k \in DOMAIN r, r[j] = r[k] PROVE j = k
    <3>1. j \in 1 .. Len(s) - 1 /\ k \in 1 .. Len(s) - 1
      BY <2>3, <2>4
    <3>2. s[IF j < i THEN j ELSE j + 1] = s[IF k < i THEN k ELSE k + 1]
      BY <2>2, <2>4, <3>1
    <3>3. (IF j < i THEN j ELSE j + 1) = (IF k < i THEN k ELSE k + 1)
      BY <1>1, <3>1, <3>2 DEF IsInjective
    <3> QED BY <1>1, <2>1, <3>1, <3>3
  <2>5. r \in BoundedSeq(Columns, MaxSelected)
    BY <1>1, <2>2, Bounded
  <2> QED BY <2>4, <2>5 DEF Selections, IsInjective, i, r
<1> QED BY <1>2, <1>3

\* The first columns, up to the limit.
LEMMA FirstColumns ==
  SubSeq([c \in Columns |-> c], 1, Min({Width, MaxSelected})) \in Selections
<1> DEFINE n == Min({Width, MaxSelected})
           f == [c \in Columns |-> c]
           s == SubSeq(f, 1, n)
<1>1. n \in Nat /\ n <= Width /\ n <= MaxSelected /\ MaxSelected \in Nat /\ Width \in Nat
  <2>1. \E x \in {Width, MaxSelected} : \A y \in {Width, MaxSelected} : x <= y
    BY LimitAssumption
  <2> QED BY <2>1, LimitAssumption DEF Min
<1> HIDE DEF n
<1>2. \A i \in 1 .. n : f[i] \in Columns /\ f[i] = i
  BY <1>1 DEF Columns
<1>3. s \in Seq(Columns) /\ Len(s) = n /\ \A i \in 1 .. n : s[i] = f[i]
  <2>1. \A i \in 1 .. n : f[i] \in Columns
    BY <1>2
  <2> HIDE DEF f
  <2> QED BY <1>1, <2>1, SubSeqProperties
<1>4. IsInjective(s)
  <2>1. DOMAIN s = 1 .. n
    BY <1>3, LenProperties
  <2> QED BY <1>2, <1>3, <2>1 DEF IsInjective
<1>5. s \in BoundedSeq(Columns, MaxSelected)
  BY <1>1, <1>3, Bounded
<1> QED BY <1>4, <1>5 DEF Selections, n

\* Drafts keep to the limit on conditions.
LEMMA Rewritten ==
  ASSUME NEW browse \in Browses, NEW f \in Conditions
  PROVE  /\ [browse EXCEPT !.filters = << >>] \in Browses
         /\ browse.filters \in Seq(Conditions) /\ DOMAIN browse.filters \subseteq 1 .. MaxFilters
         /\ Len(browse.filters) < MaxFilters =>
              [browse EXCEPT !.filters = Append(browse.filters, f)] \in Browses
         /\ \A i \in DOMAIN browse.filters :
              /\ [browse EXCEPT !.filters = [browse.filters EXCEPT ![i] = f]] \in Browses
              /\ [browse EXCEPT !.filters = RemoveAt(browse.filters, i)] \in Browses
<1> DEFINE s == browse.filters
<1>1. /\ s \in Seq(Conditions) /\ Len(s) <= MaxFilters /\ MaxFilters \in Nat
      /\ Len(s) \in Nat /\ DOMAIN s = 1 .. Len(s)
  BY Bounded, LimitAssumption, LenProperties DEF Browses, Conditions
<1>2. ASSUME NEW t \in Seq(Conditions), Len(t) <= MaxFilters
      PROVE  [browse EXCEPT !.filters = t] \in Browses
  <2>1. t \in BoundedSeq(Conditions, MaxFilters)
    BY <1>1, <1>2, Bounded
  <2> QED BY <2>1 DEF Browses, Conditions
<1>3. << >> \in Seq(Conditions) /\ Len(<< >>) <= MaxFilters
  BY <1>1
<1>4. ASSUME Len(s) < MaxFilters
      PROVE  Append(s, f) \in Seq(Conditions) /\ Len(Append(s, f)) <= MaxFilters
  BY <1>1, <1>4
<1>5. ASSUME NEW i \in DOMAIN s
      PROVE  /\ [s EXCEPT ![i] = f] \in Seq(Conditions) /\ Len([s EXCEPT ![i] = f]) <= MaxFilters
             /\ RemoveAt(s, i) \in Seq(Conditions) /\ Len(RemoveAt(s, i)) <= MaxFilters
  BY <1>1, <1>5, ExceptSeq, Removed
<1>6. /\ [browse EXCEPT !.filters = << >>] \in Browses
      /\ s \in Seq(Conditions) /\ DOMAIN s \subseteq 1 .. MaxFilters
  <2>1. [browse EXCEPT !.filters = << >>] \in Browses
    BY <1>2, <1>3, Zenon
  <2> QED BY <1>1, <2>1
<1>7. Len(s) < MaxFilters => [browse EXCEPT !.filters = Append(s, f)] \in Browses
  BY <1>2, <1>4
<1>8. \A i \in DOMAIN s : /\ [browse EXCEPT !.filters = [s EXCEPT ![i] = f]] \in Browses
                         /\ [browse EXCEPT !.filters = RemoveAt(s, i)] \in Browses
  BY <1>2, <1>5
<1> QED BY <1>6, <1>7, <1>8

-----------------------------------------------------------------------------
(* The actions.                                                            *)

LEMMA NoneTyped ==
  /\ Unfiltered \in Browses /\ << >> \in Selections
  /\ 0 \in 0 .. MaxFilters /\ NoSort \in Columns \cup {NoSort}
<1>1. << >> \in BoundedSeq(Columns, MaxSelected) /\ << >> \in BoundedSeq(Conditions, MaxFilters)
  <2>1. MaxSelected \in Nat /\ MaxFilters \in Nat
    BY LimitAssumption
  <2>2. \A S : << >> \in Seq(S) /\ Len(<< >>) = 0
    BY EmptySeq
  <2>3. ASSUME NEW S, NEW n \in Nat PROVE << >> \in BoundedSeq(S, n)
    <3>1. << >> \in Seq(S) /\ Len(<< >>) <= n
      BY <2>2
    <3> QED BY <3>1, Bounded, Zenon
  <2> QED BY <2>1, <2>3
<1>2. IsInjective(<< >>)
  BY DEF IsInjective
<1>3. Unfiltered \in Browses
  BY <1>1, SizeAssumption DEF Unfiltered, Browses, Conditions
<1> QED BY <1>1, <1>2, <1>3, LimitAssumption DEF Selections

LEMMA InitInv == Init => Inv
<1> SUFFICES ASSUME Init PROVE Inv
  OBVIOUS
<1>1. RowsTyped /\ DraftTyped
  BY NoneTyped DEF Init, RowsTyped, DraftTyped, Closed, NoDraft
<1>2. InputTyped /\ LoadTyped
  BY NoneTyped DEF Init, InputTyped, LoadTyped, NoPrompt, NoLoad, Kinds, Picked
<1>3. rows.browse = rows.read /\ Shown /\ OneRead
  BY DEF Init, Closed, NoLoad, Shown, OneRead
<1> QED BY <1>1, <1>2, <1>3 DEF Inv

\* A read of a page begins with its options, but for one change.
LEMMA ReloadKeeps ==
  ASSUME Inv, NEW browse \in Browses, NEW page \in Nat, Load("rows", browse, page),
         rows.live, UNCHANGED rows, Differs(browse), browse # rows.browse => page = 0
  PROVE  LoadTyped' /\ OneRead'
<1>1. load' = [view |-> "rows", browse |-> browse, page |-> page]
  BY DEF Load
<1>2. LoadTyped'
  BY <1>1 DEF LoadTyped
<1>3. rows.open
  BY DEF Inv, Shown
<1>4. Differs(browse)'
  BY DEF Differs
<1> QED BY <1>1, <1>2, <1>3, <1>4 DEF OneRead, Differs

LEMMA OpenKeeps == ASSUME Inv, Open PROVE Inv'
<1>1. /\ UNCHANGED <<rows, draft, input>> /\ ~rows.open
      /\ load' = [view |-> "new", browse |-> Unfiltered, page |-> 0]
  BY DEF Open, Load
<1>2. LoadTyped' /\ OneRead'
  BY <1>1, NoneTyped DEF LoadTyped, OneRead
<1> QED BY <1>1, <1>2 DEF Inv, RowsTyped, DraftTyped, InputTyped, Shown

LEMMA TurnKeeps == ASSUME Inv, Turn PROVE Inv'
<1>1. UNCHANGED <<rows, draft, input>> /\ rows.live
  BY DEF Turn
<1>2. PICK page \in Nat : Load("rows", rows.browse, page)
  BY DEF Turn
<1>3. rows.browse \in Browses /\ Differs(rows.browse)
  BY DEF Inv, RowsTyped, Browses, Differs
<1>4. LoadTyped' /\ OneRead'
  BY <1>1, <1>2, <1>3, ReloadKeeps
<1> QED BY <1>1, <1>4 DEF Inv, RowsTyped, DraftTyped, InputTyped, Shown

\* A read that ends, with its data or without.
LEMMA LoadedKeeps == ASSUME Inv, Loaded \/ LoadFailed PROVE Inv'
<1>1. UNCHANGED <<draft, input>> /\ load' = NoLoad
  BY DEF Loaded, LoadFailed
<1>2. LoadTyped' /\ OneRead'
  BY <1>1, NoneTyped DEF NoLoad, LoadTyped, OneRead
<1>3. RowsTyped' /\ rows'.browse = rows'.read /\ Shown'
  <2>1. CASE LoadFailed
    BY <2>1 DEF LoadFailed, Inv, RowsTyped, Shown
  <2>2. CASE rows' = rows
    BY <2>2 DEF Inv, RowsTyped, Shown
  <2>3. ASSUME NEW live \in BOOLEAN, rows' = Adopt(live)
        PROVE  RowsTyped' /\ rows'.browse = rows'.read /\ Shown'
    BY <2>3 DEF Adopt, Inv, RowsTyped, LoadTyped, Shown
  <2> QED BY <2>1, <2>2, <2>3 DEF Loaded
<1> QED BY <1>1, <1>2, <1>3 DEF Inv, DraftTyped, InputTyped

LEMMA ExpireKeeps ==
  ASSUME InputTyped, NEW kinds, Expire(kinds)
  PROVE  InputTyped'
BY NoneTyped DEF Expire, NoPrompt, InputTyped, Kinds, Picked

LEMMA CloseKeeps == ASSUME Inv, CloseRows \/ CloseNew \/ CloseFilters PROVE Inv'
<1>1. CASE CloseRows
  <2>1. RowsTyped' /\ rows'.browse = rows'.read /\ Shown' /\ ~rows'.open
    BY <1>1, NoneTyped DEF CloseRows, Closed, RowsTyped, Shown
  <2>2. DraftTyped'
    BY <1>1 DEF CloseRows, Inv, DraftTyped
  <2>3. InputTyped'
    BY <1>1, ExpireKeeps DEF CloseRows, Inv
  <2>4. LoadTyped' /\ OneRead'
    BY <1>1, <2>1 DEF CloseRows, Inv, LoadTyped, OneRead, NoLoad
  <2> QED BY <2>1, <2>2, <2>3, <2>4 DEF Inv
<1>2. CASE CloseNew
  <2>1. LoadTyped' /\ OneRead'
    BY <1>2 DEF CloseNew, Inv, LoadTyped, OneRead
  <2> QED BY <1>2, <2>1 DEF CloseNew, Inv, RowsTyped, DraftTyped, InputTyped, Shown
<1>3. CASE CloseFilters
  <2>1. DraftTyped'
    BY <1>3, NoneTyped DEF CloseFilters, NoDraft, DraftTyped
  <2>2. InputTyped'
    BY <1>3, ExpireKeeps DEF CloseFilters, Inv
  <2> QED
    BY <1>3, <2>1, <2>2
    DEF CloseFilters, Inv, RowsTyped, LoadTyped, Shown, OneRead, Differs
<1> QED BY <1>1, <1>2, <1>3

\* Only the prompt changes.
LEMMA PromptKeeps ==
  ASSUME Inv, InputTyped', UNCHANGED <<rows, draft, load>>
  PROVE  Inv'
BY DEF Inv, RowsTyped, DraftTyped, LoadTyped, Shown, OneRead, Differs

LEMMA Asked ==
  ASSUME NEW kind \in Kinds \ Picked, Ask(kind)
  PROVE  InputTyped'
BY NoneTyped DEF Ask, NoPrompt, InputTyped

LEMMA AnsweredTyped == Answered => InputTyped'
BY NoneTyped DEF Answered, NoPrompt, InputTyped, Kinds, Picked

\* The prompts that commands open, and those that follow one another.
LEMMA AskKeeps ==
  ASSUME Inv, AskColumns \/ AskOption \/ AskFilter \/ AskMatch PROVE Inv'
<1>1. UNCHANGED <<rows, draft, load>>
  BY DEF AskColumns, AskOption, AskFilter, AskMatch
<1>2. InputTyped'
  <2>1. CASE AskColumns
    <3>1. rows.selected \in Selections
      BY DEF Inv, RowsTyped
    <3>2. PICK selected \in Selections :
            input' = [NoPrompt EXCEPT !.kind = "columns", !.selected = selected]
      BY <2>1, <3>1, FirstColumns DEF AskColumns
    <3> QED BY <3>2, NoneTyped DEF NoPrompt, InputTyped, Kinds, Picked
  <2>2. CASE AskOption \/ AskMatch
    BY <2>2, Asked DEF AskOption, AskMatch, Kinds, Picked
  <2>3. CASE AskFilter
    <3>1. CASE Ask("field")
      BY <3>1, Asked DEF Kinds, Picked
    <3>2. ASSUME NEW i \in DOMAIN Filters,
                 input' = [NoPrompt EXCEPT !.kind = "field", !.index = i,
                             !.selected = <<Filters[i].column>>]
          PROVE  InputTyped'
      <4>1. draft.browse \in Browses
        BY DEF Inv, DraftTyped
      <4>2. Filters \in Seq(Conditions) /\ i \in 1 .. MaxFilters
        <5>1. PICK f : f \in Conditions
          <6>1. Filters \in BoundedSeq(Conditions, MaxFilters)
            BY <4>1 DEF Filters, Browses, Conditions
          <6>2. Filters \in Seq(Conditions)
            BY <6>1, Bounded, LimitAssumption
          <6>3. Filters[i] \in Conditions
            BY <3>2, <6>2, LenProperties, ElementOfSeq
          <6> QED BY <6>3
        <5> QED BY <3>2, <4>1, <5>1, Rewritten DEF Filters
      <4>3. Filters[i].column \in Columns
        <5>1. Filters[i] \in Conditions
          BY <3>2, <4>2, LenProperties, ElementOfSeq
        <5> QED BY <5>1 DEF Conditions
      <4>4. <<Filters[i].column>> \in Selections
        <5> DEFINE c == Filters[i].column
        <5>1. <<c>> \in Seq(Columns) /\ Len(<<c>>) = 1
          BY <4>3
        <5>2. <<c>> \in BoundedSeq(Columns, MaxSelected)
          <6>1. MaxSelected \in Nat /\ 1 <= MaxSelected
            BY LimitAssumption
          <6> QED BY <5>1, <6>1, Bounded
        <5>3. IsInjective(<<c>>)
          BY DEF IsInjective
        <5> QED BY <5>2, <5>3 DEF Selections
      <4>5. PICK j \in 0 .. MaxFilters, s \in Selections :
              input' = [NoPrompt EXCEPT !.kind = "field", !.index = j, !.selected = s]
        <5>1. i \in 0 .. MaxFilters
          BY <4>2
        <5> QED BY <3>2, <4>4, <5>1, Zenon
      <4> QED BY <4>5, NoneTyped DEF NoPrompt, InputTyped, Kinds, Picked
    <3> QED BY <2>3, <3>1, <3>2 DEF AskFilter
  <2> QED BY <2>1, <2>2, <2>3
<1> QED BY <1>1, <1>2, PromptKeeps

LEMMA PickKeeps ==
  ASSUME Inv, Refuse \/ PickColumn \/ PickSort \/ PickField \/ PickOperator PROVE Inv'
<1>1. UNCHANGED <<rows, draft, load>>
  BY DEF Refuse, PickColumn, PickSort, PickField, PickOperator
<1>2. InputTyped'
  <2>1. CASE Refuse
    BY <2>1, AnsweredTyped DEF Refuse
  <2>2. CASE PickColumn
    <3>1. PICK c \in Columns :
            /\ c \in ToSet(input.selected) \/ Len(input.selected) < MaxSelected
            /\ input' = [input EXCEPT !.selected =
                           IF c \in ToSet(input.selected)
                             THEN RemoveAt(input.selected,
                                           CHOOSE i \in DOMAIN input.selected : input.selected[i] = c)
                             ELSE Append(input.selected, c)]
      BY <2>2 DEF PickColumn
    <3>2. input.selected \in Selections
      BY DEF Inv, InputTyped
    <3>3. PICK s \in Selections : input' = [input EXCEPT !.selected = s]
      BY <3>1, <3>2, Toggled
    <3> QED BY <3>3 DEF Inv, InputTyped
  <2>3. CASE PickSort
    BY <2>3, NoneTyped DEF PickSort, NoPrompt, InputTyped, Kinds, Picked
  <2>4. CASE PickField \/ PickOperator
    BY <2>4 DEF PickField, PickOperator, Inv, InputTyped, Kinds, Picked
  <2> QED BY <2>1, <2>2, <2>3, <2>4
<1> QED BY <1>1, <1>2, PromptKeeps

\* The draft changes, and the prompt may have been answered.
LEMMA DraftKeeps ==
  ASSUME Inv, DraftTyped', InputTyped', UNCHANGED <<rows, load>>
  PROVE  Inv'
BY DEF Inv, RowsTyped, LoadTyped, Shown, OneRead, Differs

LEMMA OpenFiltersKeeps == ASSUME Inv, OpenFilters PROVE Inv'
<1>1. DraftTyped' /\ InputTyped'
  BY DEF OpenFilters, Inv, RowsTyped, DraftTyped, InputTyped
<1> QED BY <1>1, DraftKeeps DEF OpenFilters

LEMMA RewriteTyped ==
  ASSUME Inv, NEW filters, Rewrite(filters),
         [draft.browse EXCEPT !.filters = filters] \in Browses
  PROVE  DraftTyped'
BY DEF Rewrite, Inv, DraftTyped

LEMMA ChangeKeeps == ASSUME Inv, Change PROVE Inv'
<1>1. draft.browse \in Browses
  BY DEF Inv, DraftTyped
<1>2. Filters \in Seq(Conditions)
  <2>1. Filters \in BoundedSeq(Conditions, MaxFilters)
    BY <1>1 DEF Filters, Browses, Conditions
  <2> QED BY <2>1, Bounded, LimitAssumption
<1>3. CASE Rewrite(<< >>)
  <2>1. << >> \in BoundedSeq(Conditions, MaxFilters)
    BY NoneTyped DEF Unfiltered, Browses, Conditions
  <2>2. [draft.browse EXCEPT !.filters = << >>] \in Browses
    BY <1>1, <2>1 DEF Browses, Conditions
  <2>3. DraftTyped'
    BY <1>3, <2>2, RewriteTyped, Zenon
  <2> QED BY <2>3, DraftKeeps DEF Change, Inv, InputTyped
<1>4. ASSUME NEW i \in DOMAIN Filters, Rewrite([Filters EXCEPT ![i].enabled = ~@])
      PROVE  Inv'
  <2> DEFINE f == [Filters[i] EXCEPT !.enabled = ~@]
  <2>1. Filters[i] \in Conditions
    BY <1>2, LenProperties, ElementOfSeq
  <2>2. f \in Conditions /\ [Filters EXCEPT ![i].enabled = ~@] = [Filters EXCEPT ![i] = f]
    BY <2>1 DEF Conditions
  <2> HIDE DEF f
  <2>3. [draft.browse EXCEPT !.filters = [Filters EXCEPT ![i] = f]] \in Browses
    BY <1>1, <2>2, Rewritten DEF Filters
  <2>4. DraftTyped'
    BY <1>4, <2>2, <2>3, RewriteTyped, Zenon
  <2> QED BY <2>4, DraftKeeps DEF Change, Inv, InputTyped
<1>5. ASSUME NEW i \in DOMAIN Filters, Rewrite(RemoveAt(Filters, i)) PROVE Inv'
  <2>1. Filters[i] \in Conditions
    BY <1>2, LenProperties, ElementOfSeq
  <2>2. [draft.browse EXCEPT !.filters = RemoveAt(Filters, i)] \in Browses
    BY <1>1, <2>1, Rewritten DEF Filters
  <2>3. DraftTyped'
    BY <1>5, <2>2, RewriteTyped, Zenon
  <2> QED BY <2>3, DraftKeeps DEF Change, Inv, InputTyped
<1> QED BY <1>3, <1>4, <1>5 DEF Change

LEMMA StoreKeeps == ASSUME Inv, Store PROVE Inv'
<1> DEFINE f == Filter(input.column, TRUE)
<1>1. draft.browse \in Browses /\ input.column \in Columns /\ UNCHANGED <<rows, load>>
  BY DEF Store, Inv, DraftTyped, InputTyped, Picked
<1>2. f \in Conditions
  BY <1>1 DEF Filter, Conditions
<1>3. \/ Len(Filters) < MaxFilters /\ Rewrite(Append(Filters, f))
      \/ input.index \in DOMAIN Filters /\ Rewrite([Filters EXCEPT ![input.index] = f])
  BY DEF Store
<1> HIDE DEF f
<1>4. CASE Len(Filters) < MaxFilters /\ Rewrite(Append(Filters, f))
  <2>1. [draft.browse EXCEPT !.filters = Append(Filters, f)] \in Browses
    BY <1>1, <1>2, <1>4, Rewritten DEF Filters
  <2>2. DraftTyped'
    BY <1>4, <2>1, RewriteTyped, Zenon
  <2> QED BY <1>1, <2>2, AnsweredTyped, DraftKeeps DEF Store
<1>5. CASE input.index \in DOMAIN Filters /\ Rewrite([Filters EXCEPT ![input.index] = f])
  <2>1. [draft.browse EXCEPT !.filters = [Filters EXCEPT ![input.index] = f]] \in Browses
    BY <1>1, <1>2, <1>5, Rewritten DEF Filters
  <2>2. DraftTyped'
    BY <1>5, <2>1, RewriteTyped, Zenon
  <2> QED BY <1>1, <2>2, AnsweredTyped, DraftKeeps DEF Store
<1> QED BY <1>3, <1>4, <1>5

LEMMA MatchKeeps == ASSUME Inv, Match PROVE Inv'
<1>1. DraftTyped'
  BY DEF Match, Inv, DraftTyped, Browses
<1> QED BY <1>1, AnsweredTyped, DraftKeeps DEF Match

LEMMA ShowColumnsKeeps == ASSUME Inv, ShowColumns PROVE Inv'
<1>1. input.selected \in Selections /\ UNCHANGED <<draft, load>>
  BY DEF ShowColumns, Inv, InputTyped
<1>2. RowsTyped' /\ rows'.browse = rows'.read /\ Shown'
  BY <1>1 DEF ShowColumns, Inv, RowsTyped, Shown
<1>3. OneRead'
  BY <1>1 DEF ShowColumns, Inv, RowsTyped, OneRead, Differs
<1> QED BY <1>1, <1>2, <1>3, AnsweredTyped DEF ShowColumns, Inv, DraftTyped, LoadTyped

\* A sort, a page size or the filters of the draft are read, alone.
LEMMA OptionKeeps == ASSUME Inv, Sort \/ Resize \/ Apply PROVE Inv'
<1>1. UNCHANGED <<rows, draft>> /\ rows.live /\ InputTyped'
  BY AnsweredTyped DEF Sort, Resize, Apply, Reload, Inv, InputTyped
<1>2. rows.browse \in Browses /\ draft.browse \in Browses
  BY DEF Inv, RowsTyped, DraftTyped
<1>3. PICK browse : Reload(browse) /\ browse \in Browses /\ Differs(browse)
  <2>1. CASE Sort
    <3>1. PICK sort \in Columns \cup {NoSort} : Reload([rows.browse EXCEPT !.sort = sort])
      BY <2>1 DEF Sort, Inv, InputTyped
    <3>2. [rows.browse EXCEPT !.sort = sort] \in Browses
      BY <1>2 DEF Browses
    <3>3. Differs([rows.browse EXCEPT !.sort = sort])
      BY <1>2 DEF Differs, Browses
    <3> QED BY <3>1, <3>2, <3>3
  <2>2. CASE Resize
    <3>1. PICK size \in Sizes : Reload([rows.browse EXCEPT !.size = size])
      BY <2>2 DEF Resize
    <3>2. [rows.browse EXCEPT !.size = size] \in Browses
      BY <1>2 DEF Browses
    <3>3. Differs([rows.browse EXCEPT !.size = size])
      BY <1>2 DEF Differs, Browses
    <3> QED BY <3>1, <3>2, <3>3
  <2>3. CASE Apply
    <3> DEFINE b == [rows.browse EXCEPT !.filters = Filters, !.any = draft.browse.any]
    <3>1. Reload(b)
      BY <2>3 DEF Apply
    <3>2. b \in Browses /\ Differs(b)
      BY <1>2 DEF Filters, Differs, Browses
    <3> QED BY <3>1, <3>2
  <2> QED BY <2>1, <2>2, <2>3
<1>4. LoadTyped' /\ OneRead'
  BY <1>1, <1>3, ReloadKeeps DEF Reload
<1> QED BY <1>1, <1>4 DEF Inv, RowsTyped, DraftTyped, Shown

LEMMA NextInv == Inv /\ [Next]_vars => Inv'
<1> SUFFICES ASSUME Inv, [Next]_vars PROVE Inv'
  OBVIOUS
<1>1. CASE UNCHANGED vars
  BY <1>1
  DEF vars, Inv, RowsTyped, DraftTyped, InputTyped, LoadTyped, Shown, OneRead, Differs
<1> QED
  BY <1>1, OpenKeeps, TurnKeeps, LoadedKeeps, CloseKeeps, AskKeeps, OpenFiltersKeeps,
     ChangeKeeps, PickKeeps, ShowColumnsKeeps, OptionKeeps, StoreKeeps, MatchKeeps
  DEF Next

-----------------------------------------------------------------------------
(* Theorems.                                                               *)

\* The inductive invariant.
THEOREM Invariance == Spec => []Inv
BY InitInv, NextInv, PTL DEF Spec

\* The options a page of rows names are those its data was read with, though
\* reads fail, are refused or end after the page has changed (reload_browse,
\* complete); and drafts, pickers and reads keep the limits.
THEOREM RowsArePaired == Spec => []Paired
<1>1. Inv => Paired
  BY DEF Inv, RowsTyped, DraftTyped, InputTyped, LoadTyped, Selections, Paired, TypeOK
<1> QED BY <1>1, Invariance, PTL

\* The visible columns change only by the user's choice.
SelectionStep ==
  rows'.open /\ rows.open /\ rows'.selected # rows.selected =>
    input.kind = "columns" /\ rows'.selected = input.selected

LEMMA SelectionNext == Inv /\ [Next]_vars => [SelectionStep]_vars
<1> SUFFICES ASSUME Inv, Next PROVE SelectionStep
  OBVIOUS
<1>1. CASE rows'.selected = rows.selected
  BY <1>1 DEF SelectionStep
<1>2. CASE rows'.selected # rows.selected /\ rows'.open
  <2>1. ShowColumns
    <3>1. rows' # rows
      BY <1>2
    <3>2. ~Loaded /\ ~LoadFailed
      BY <1>2 DEF Loaded, LoadFailed, Adopt, Inv, RowsTyped
    <3>3. ~CloseRows
      BY <1>2 DEF CloseRows, Closed
    <3> QED
      BY <3>1, <3>2, <3>3
      DEF Next, Open, Turn, CloseNew, CloseFilters, AskColumns, AskOption, OpenFilters,
          AskFilter, Change, AskMatch, Apply, Refuse, PickColumn, PickSort, Sort, Resize,
          PickField, PickOperator, Store, Match, Reload
  <2> QED BY <2>1 DEF ShowColumns, SelectionStep, Inv, RowsTyped
<1> QED BY <1>1, <1>2 DEF SelectionStep

\* The visible columns change only when the user has chosen them, though a
\* read that was started before may be completed after (complete).
THEOREM SelectionIsKept == Spec => SelectionKept
<1>1. [][SelectionStep]_vars => SelectionKept
  BY PTL DEF SelectionStep, SelectionKept
<1> QED BY <1>1, SelectionNext, Invariance, PTL DEF Spec

\* Filters, sort and page size change one at a time, and a change starts at
\* the first page, however long the read that brings it takes.
ChangeStep ==
  rows'.open /\ rows.open /\ rows'.browse # rows.browse =>
    /\ rows'.page = 0
    /\ \/ [rows'.browse EXCEPT !.filters = rows.browse.filters, !.any = rows.browse.any]
            = rows.browse
       \/ [rows'.browse EXCEPT !.sort = rows.browse.sort] = rows.browse
       \/ [rows'.browse EXCEPT !.size = rows.browse.size] = rows.browse

LEMMA ChangeNext == Inv /\ [Next]_vars => [ChangeStep]_vars
<1> SUFFICES ASSUME Inv, Next, rows'.open, rows.open, rows'.browse # rows.browse
             PROVE  rows'.page = 0 /\ Differs(rows'.browse)
  BY DEF ChangeStep, Differs
<1>1. Loaded
  <2>1. rows' # rows
    OBVIOUS
  <2>2. ~LoadFailed /\ ~ShowColumns
    BY DEF LoadFailed, ShowColumns, Inv, RowsTyped
  <2>3. ~CloseRows
    BY DEF CloseRows, Closed
  <2> QED
    BY <2>1, <2>2, <2>3
    DEF Next, Open, Turn, CloseNew, CloseFilters, AskColumns, AskOption, OpenFilters,
        AskFilter, Change, AskMatch, Apply, Refuse, PickColumn, PickSort, Sort, Resize,
        PickField, PickOperator, Store, Match, Reload
<1>2. PICK live \in BOOLEAN : rows' = Adopt(live) /\ load.view # "closed" /\ load # NoLoad
  BY <1>1 DEF Loaded
<1>3. rows'.browse = load.browse /\ rows'.page = load.page
  BY <1>2 DEF Adopt, Inv, RowsTyped
<1>4. load.view = "rows"
  BY <1>2 DEF Inv, LoadTyped, OneRead
<1> QED BY <1>3, <1>4 DEF Inv, OneRead

\* Filters, sort and page size change one at a time and survive the changes
\* of the others; a change starts at the first page (apply-filters).
THEOREM OneChangeAtATime == Spec => OneChange
<1>1. [][ChangeStep]_vars => OneChange
  BY PTL DEF ChangeStep, OneChange
<1> QED BY <1>1, ChangeNext, Invariance, PTL DEF Spec
=============================================================================
