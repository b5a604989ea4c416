------------------------------ MODULE Browsing ------------------------------
(***************************************************************************)
(* One page of table rows and one page of filters: the options the rows    *)
(* were read with, the draft of other filters, the prompts that change     *)
(* either, and the one read that may be under way (app/browsing.rs, load   *)
(* in app/work.rs, the Data completion in app/lifecycle.rs).               *)
(*                                                                         *)
(* A step is a command, an answer or a completion.  Commands are accepted  *)
(* while a prompt is open.  A filter is its column and whether it is       *)
(* enabled; the direction of a sort, the operator and the value of a       *)
(* filter are left out, and so is the list of columns: a page keeps the    *)
(* columns of its first read, so that an ordinal names one column.         *)
(***************************************************************************)
EXTENDS Integers, Sequences, SequencesExt

CONSTANTS
  Width,        \* number of the table's columns
  MaxFilters,   \* sixteen conditions
  MaxSelected,  \* eight visible columns
  Sizes,        \* page sizes
  DefaultSize,  \* page size of a page just opened
  MaxPage,      \* bound: the last page that is read
  MaxChanges    \* bound: changes of options, drafts and visible columns

ASSUME SizeAssumption == DefaultSize \in Sizes
ASSUME LimitAssumption ==
  {Width, MaxFilters, MaxSelected, MaxPage, MaxChanges} \subseteq Nat /\ MaxSelected > 0

VARIABLES
  rows,    \* the page of rows: whether its connection lives, its Browse, and
           \* what its data was read with
  draft,   \* Content::Filters: a copy of the Browse of the rows, their source
  input,   \* App::input, at most one prompt
  load,    \* the read under way, with the options it has captured
  changes, \* changes made by the user, for the bound
  wrong    \* an edited filter replaced one of another column

Columns == 1 .. Width   \* ordinals of the columns

vars == <<rows, draft, input, load, changes, wrong>>

NoSort == 0   \* primary keys only
Unfiltered == [filters |-> <<>>, any |-> FALSE, sort |-> NoSort, size |-> DefaultSize]
Closed == [open |-> FALSE, live |-> FALSE, browse |-> Unfiltered, selected |-> <<>>,
           read |-> Unfiltered, page |-> 0]
NoDraft == [open |-> FALSE, source |-> FALSE, browse |-> Unfiltered]
NoPrompt == [kind |-> "none", index |-> 0, column |-> NoSort, selected |-> <<>>]
NoLoad == [view |-> "none", browse |-> Unfiltered, page |-> 0]
Filter(c, enabled) == [column |-> c, enabled |-> enabled]

Init ==
  /\ rows = Closed /\ draft = NoDraft /\ input = NoPrompt /\ load = NoLoad
  /\ changes = 0 /\ wrong = FALSE

(* A change the user makes, within the bound. *)
Changed == changes < MaxChanges /\ changes' = changes + 1

Ask(kind) == input' = [NoPrompt EXCEPT !.kind = kind]

-----------------------------------------------------------------------------
(* Reads.  The connection is busy while one is under way.                  *)

(* load: the page's options are captured by the read. *)
Load(view, browse, page) ==
  /\ load = NoLoad /\ page <= MaxPage
  /\ load' = [view |-> view, browse |-> browse, page |-> page]

(* activate on a table: a new page, that has no rows before they are read. *)
Open ==
  /\ ~rows.open /\ Load("new", Unfiltered, 0)
  /\ UNCHANGED <<rows, draft, input, changes, wrong>>

(* refresh, next and previous. *)
Turn ==
  /\ rows.live
  /\ \E page \in {rows.page, rows.page + 1, rows.page - 1} \cap Nat :
       Load("rows", rows.browse, page)
  /\ UNCHANGED <<rows, draft, input, changes, wrong>>

\* Mutant: the page keeps the options that its read may not succeed with.
ReloadAdopted(browse) ==
  /\ rows.live /\ Load("rows", browse, 0)
  /\ rows' = [rows EXCEPT !.browse = browse]

(* reload_browse: the options are captured, and the page's are put back.   *)
Reload(browse) ==
  /\ rows.live /\ Load("rows", browse, 0)
  /\ UNCHANGED rows

\* Mutant: the completion also brings back the columns that were visible.
AdoptUnselected(live) ==
  [rows EXCEPT !.open = TRUE, !.live = live, !.browse = load.browse, !.selected = <<>>,
               !.read = load.browse, !.page = load.page]

(* The page takes the data with the options it was read with, and keeps    *)
(* its visible columns.                                                    *)
Adopt(live) ==
  [rows EXCEPT !.open = TRUE, !.live = live, !.browse = load.browse, !.read = load.browse,
               !.page = load.page]

(* Data; the page may have been closed meanwhile, and a read that was     *)
(* cancelled too late retires the connection.                              *)
Loaded ==
  /\ load # NoLoad /\ load' = NoLoad
  /\ \E live \in BOOLEAN :
       rows' = IF load.view = "closed" THEN rows ELSE Adopt(live)
  /\ UNCHANGED <<draft, input, changes, wrong>>

(* Failed: the page keeps what it shows, of a connection that is retired.  *)
LoadFailed ==
  /\ load # NoLoad /\ load' = NoLoad
  /\ rows' = [rows EXCEPT !.live = FALSE]
  /\ UNCHANGED <<draft, input, changes, wrong>>

(* A prompt about a page that is closed can only be refused.               *)
Expire(kinds) ==
  input' = IF input.kind \in kinds THEN [NoPrompt EXCEPT !.kind = "expired"] ELSE input

(* The page of rows is closed or pruned: the draft has no source any more. *)
CloseRows ==
  /\ rows.open /\ rows' = Closed
  /\ draft' = [draft EXCEPT !.source = FALSE]
  /\ load' = [load EXCEPT !.view = IF load.view = "rows" THEN "closed" ELSE @]
  /\ Expire({"columns", "sort", "direction", "size"})
  /\ UNCHANGED <<changes, wrong>>

(* A page whose rows have not come is closed.                              *)
CloseNew ==
  /\ load.view = "new" /\ load' = [load EXCEPT !.view = "closed"]
  /\ UNCHANGED <<rows, draft, input, changes, wrong>>

CloseFilters ==
  /\ draft.open /\ draft' = NoDraft
  /\ Expire({"field", "operator", "value", "match"})
  /\ UNCHANGED <<rows, load, changes, wrong>>

-----------------------------------------------------------------------------
(* Commands on the page of rows.                                           *)

(* columns: the picker starts with what is visible, the first columns if   *)
(* none were chosen.                                                       *)
AskColumns ==
  /\ rows.open
  /\ input' = [NoPrompt EXCEPT !.kind = "columns", !.selected =
                IF rows.selected = <<>> THEN SubSeq([c \in Columns |-> c], 1, Min({Width, MaxSelected}))
                ELSE rows.selected]
  /\ UNCHANGED <<rows, draft, load, changes, wrong>>

(* sort and page-size. *)
AskOption ==
  /\ rows.open /\ (Ask("sort") \/ Ask("size"))
  /\ UNCHANGED <<rows, draft, load, changes, wrong>>

(* filters: the draft is a copy of the options of the rows.                *)
OpenFilters ==
  /\ rows.open /\ ~draft.open
  /\ draft' = [open |-> TRUE, source |-> TRUE, browse |-> rows.browse]
  /\ UNCHANGED <<rows, input, load, changes, wrong>>

-----------------------------------------------------------------------------
(* Commands on the page of filters.                                        *)

Filters == draft.browse.filters
Rewrite(filters) == draft' = [draft EXCEPT !.browse.filters = filters]

(* add-filter and edit-filter: an edit remembers the ordinal of the filter,  *)
(* and, as history, its column.                                            *)
AskFilter ==
  /\ draft.open
  /\ \/ Len(Filters) < MaxFilters /\ Ask("field")
     \/ \E i \in DOMAIN Filters :
          input' = [NoPrompt EXCEPT !.kind = "field", !.index = i,
                      !.selected = <<Filters[i].column>>]
  /\ UNCHANGED <<rows, draft, load, changes, wrong>>

(* remove-filter, toggle-filter and clear-filters. *)
Change ==
  /\ Changed
  /\ draft.open
  /\ \/ Rewrite(<<>>)
     \/ \E i \in DOMAIN Filters : \/ Rewrite([Filters EXCEPT ![i].enabled = ~@])
                                  \/ Rewrite(RemoveAt(Filters, i))
  /\ UNCHANGED <<rows, input, load, wrong>>

AskMatch ==
  /\ draft.open /\ Ask("match")
  /\ UNCHANGED <<rows, draft, load, changes, wrong>>

\* Mutant: the whole draft is applied, with the options of an earlier read.
ApplyDraft ==
  /\ draft.source /\ Reload(draft.browse)
  /\ UNCHANGED <<draft, input, changes, wrong>>

(* apply-filters: the source's present options, with the draft's filters.    *)
Apply ==
  /\ draft.source
  /\ Reload([rows.browse EXCEPT !.filters = Filters, !.any = draft.browse.any])
  /\ UNCHANGED <<draft, input, changes, wrong>>

-----------------------------------------------------------------------------
(* Answers.                                                                *)

Answered == input' = NoPrompt

(* The prompt is dismissed, or its answer refused: a page is closed, the   *)
(* connection busy, a value not a number.                                  *)
Refuse ==
  /\ input # NoPrompt /\ Answered
  /\ UNCHANGED <<rows, draft, load, changes, wrong>>

(* ColumnPick and ColumnSearch: a column is added or taken back, and the   *)
(* picker is shown again.                                                  *)
PickColumn ==
  /\ input.kind = "columns" /\ rows.open
  /\ \E c \in Columns :
       LET picked == ToSet(input.selected) IN
       /\ c \in picked \/ Len(input.selected) < MaxSelected
       /\ input' = [input EXCEPT !.selected =
                      IF c \in picked THEN RemoveAt(@, CHOOSE i \in DOMAIN @ : @[i] = c)
                                      ELSE Append(@, c)]
  /\ UNCHANGED <<rows, draft, load, changes, wrong>>

(* ColumnPick, Apply selections: the columns are visible at once.          *)
ShowColumns ==
  /\ Changed
  /\ input.kind = "columns" /\ rows.open /\ input.selected # <<>>
  /\ rows' = [rows EXCEPT !.selected = input.selected]
  /\ Answered /\ UNCHANGED <<draft, load, wrong>>

(* FieldChoice, for sorting, and SortDirection. *)
PickSort ==
  /\ input.kind = "sort" /\ rows.open
  /\ \E c \in Columns : input' = [NoPrompt EXCEPT !.kind = "direction", !.column = c]
  /\ UNCHANGED <<rows, draft, load, changes, wrong>>

Sort ==
  /\ Changed
  /\ input.kind = "direction"
  /\ \E sort \in {input.column, NoSort} : Reload([rows.browse EXCEPT !.sort = sort])
  /\ Answered /\ UNCHANGED <<draft, wrong>>

Resize ==
  /\ Changed
  /\ input.kind = "size"
  /\ \E size \in Sizes : Reload([rows.browse EXCEPT !.size = size])
  /\ Answered /\ UNCHANGED <<draft, wrong>>

(* FieldChoice, for a filter: its operator is asked, and maybe its value.  *)
PickField ==
  /\ input.kind = "field" /\ draft.open
  /\ \E c \in Columns : input' = [input EXCEPT !.kind = "operator", !.column = c]
  /\ UNCHANGED <<rows, draft, load, changes, wrong>>

PickOperator ==
  /\ input.kind = "operator" /\ input' = [input EXCEPT !.kind = "value"]
  /\ UNCHANGED <<rows, draft, load, changes, wrong>>

(* store_filter: a filter is added, or replaces the one at the ordinal.    *)
Store ==
  /\ Changed
  /\ input.kind \in {"operator", "value"} /\ draft.open
  /\ LET f == Filter(input.column, TRUE) IN
     IF input.index = 0
     THEN /\ Len(Filters) < MaxFilters /\ Rewrite(Append(Filters, f))
          /\ UNCHANGED wrong
     ELSE /\ input.index \in DOMAIN Filters
          /\ Rewrite([Filters EXCEPT ![input.index] = f])
          /\ wrong' = (wrong \/ input.selected # <<Filters[input.index].column>>)
  /\ Answered /\ UNCHANGED <<rows, load>>

Match ==
  /\ Changed
  /\ input.kind = "match" /\ draft.open
  /\ \E any \in BOOLEAN : draft' = [draft EXCEPT !.browse.any = any]
  /\ Answered /\ UNCHANGED <<rows, load, wrong>>

Next ==
  \/ Open \/ Turn \/ Loaded \/ LoadFailed \/ CloseRows \/ CloseNew \/ CloseFilters
  \/ AskColumns \/ AskOption \/ OpenFilters \/ AskFilter \/ Change \/ AskMatch \/ Apply
  \/ Refuse \/ PickColumn \/ ShowColumns \/ PickSort \/ Sort \/ Resize
  \/ PickField \/ PickOperator \/ Store \/ Match

Spec == Init /\ [][Next]_vars

-----------------------------------------------------------------------------
(* Properties.                                                             *)

Browses == [filters : BoundedSeq([column : Columns, enabled : BOOLEAN], MaxFilters),
            any : BOOLEAN, sort : Columns \cup {NoSort}, size : Sizes]

(* The limits on which compile relies hold on every page, draft and read.  *)
TypeOK ==
  /\ {rows.browse, rows.read, draft.browse, load.browse} \subseteq Browses
  /\ {rows.selected, input.selected} \subseteq
       {s \in BoundedSeq(Columns, MaxSelected) : IsInjective(s)}
  /\ input.index \in 0 .. MaxFilters

(* The options a page of rows names, exports as SQL and numbers its rows   *)
(* with are those its data was read with: a change that is refused, fails  *)
(* or is under way leaves them (reload_browse, complete).                  *)
Paired == TypeOK /\ rows.browse = rows.read

(* The visible columns change only when the user has chosen them, though a *)
(* read that was started before may be completed after (complete).         *)
SelectionKept ==
  [][rows'.open /\ rows.open /\ rows'.selected # rows.selected =>
       input.kind = "columns" /\ rows'.selected = input.selected]_vars

(* Filters, sort and page size change one at a time and survive the others' *)
(* changes, and a change starts at the first page (apply-filters).         *)
OneChange ==
  [][rows'.open /\ rows.open /\ rows'.browse # rows.browse =>
       /\ rows'.page = 0
       /\ \/ [rows'.browse EXCEPT !.filters = rows.browse.filters, !.any = rows.browse.any]
               = rows.browse
          \/ [rows'.browse EXCEPT !.sort = rows.browse.sort] = rows.browse
          \/ [rows'.browse EXCEPT !.size = rows.browse.size] = rows.browse]_vars

(* An edit replaces the filter that was selected: "Edit selected filter"   *)
(* is the description of the command (edit-filter, store_filter).          *)
EditsSelected == ~wrong
=============================================================================
