---------------------------- MODULE ModelMappings ----------------------------
(***************************************************************************)
(* The model-mapping card of the Settings page: an ordered list of rules    *)
(* edited as rows, saved as a whole, refused by the server with a position. *)
(* Texts are tokens; `Lower` says what case folding does to them.           *)
(***************************************************************************)
EXTENDS Naturals, Sequences, SequencesExt

CONSTANTS MaxRows,    \* bound: rows of a list
          FilterFrom, \* a list longer than this has a filter field
          MaxSteps    \* bound: edits and openings of one behaviour

Key == {"a", "A", "b"}
Val == {"x", "b"}
Lower(text) == IF text = "A" THEN "a" ELSE text
Rule == [key : Key, val : Val]
NoRow == 0

(***************************************************************************)
(* The server: config.normalizeModelMappings                                *)
(***************************************************************************)
Normal(rule) == [key |-> Lower(rule.key), val |-> rule.val]
Normalized(rules) == [i \in DOMAIN rules |-> Normal(rules[i])]

\* The first rule the server refuses, 0 when it takes the list: a rule may not point to itself
\* or repeat a source; then no target may be a source.
Refused(rules) ==
  LET list  == Normalized(rules)
      early == {i \in DOMAIN list : \/ list[i].key = Lower(list[i].val)
                                    \/ \E j \in 1 .. i - 1 : list[j].key = list[i].key}
      late  == {i \in DOMAIN list : \E j \in DOMAIN list : list[j].key = Lower(list[i].val)}
      first(S) == CHOOSE i \in S : \A j \in S : i <= j
  IN  IF early # {} THEN first(early) ELSE IF late # {} THEN first(late) ELSE 0

(***************************************************************************)
(* Rows: a rule with a local id, under which it stays mounted               *)
(***************************************************************************)
RuleOf(row) == [key |-> row.key, val |-> row.val]
SameMappings(a, b) == Len(a) = Len(b) /\ \A i \in DOMAIN a : RuleOf(a[i]) = RuleOf(b[i])
INSTANCE SettingsDraft WITH Same <- SameMappings

\* A row at the same position with the same rule lends its id (the server lowercases keys).
RowsFromRules(rules, previous, next) ==
  [i \in DOMAIN rules |->
     [id  |-> IF i \in DOMAIN previous /\ Normal(previous[i]) = Normal(rules[i])
              THEN previous[i].id ELSE next + i,
      key |-> rules[i].key, val |-> rules[i].val]]

MoveRow(rows, from, to) == InsertAt(RemoveAt(rows, from), to, rows[from])
IndexOf(rows, id) == SelectInSeq(rows, LAMBDA row : row.id = id)
RulesOf(rows) == [i \in DOMAIN rows |-> RuleOf(rows[i])]

VARIABLES stored,  \* the list on the server
          form,    \* the card's draft over it
          next,    \* ids handed out so far
          save,    \* the save under way: the rows it was made from and the refused position
          error,   \* the row the last refusal is shown on
          filter,  \* the filter field's text
          focus,   \* where focus goes after a delete or a refusal: a row, "add" or "page"
          editor,  \* the dialog: open, the row it was opened on, its fields
          steps

vars == <<stored, form, next, save, error, filter, focus, editor, steps>>
rows == form.draft
Idle == [st |-> "idle", rows |-> <<>>, at |-> 0]
Closed == [open |-> FALSE, of |-> NoRow, key |-> "", val |-> ""]
Lists == {l \in SeqOf(Rule, MaxRows) : Refused(l) = 0 /\ Normalized(l) = l}

TypeOK ==
  /\ stored \in Lists
  /\ save.st \in {"idle", "sent", "ok", "refused"} /\ error \in Nat /\ filter \in {"", "a", "b"}

Init ==
  /\ stored \in Lists
  /\ form = InitialDraft(RowsFromRules(stored, <<>>, 0)) /\ next = Len(stored)
  /\ save = Idle /\ error = NoRow /\ filter = "" /\ focus = "card" /\ editor = Closed /\ steps = 0

Step == steps < MaxSteps /\ steps' = steps + 1

\* The rows the filter leaves.
Shown(list) == {i \in DOMAIN list : filter = "" \/ filter \in {Lower(list[i].key), list[i].val}}
Focusable(list, id) == \E i \in Shown(list) : list[i].id = id

(***************************************************************************)
(* Editing the list                                                         *)
(***************************************************************************)
OpenEditor ==
  /\ ~editor.open /\ Step
  /\ \/ Len(rows) < MaxRows /\ editor' = [open |-> TRUE, of |-> NoRow, key |-> "", val |-> ""]
     \/ \E i \in Shown(rows) :
          editor' = [open |-> TRUE, key |-> rows[i].key, val |-> rows[i].val, of |-> rows[i].id]
  /\ UNCHANGED <<stored, form, next, save, error, filter, focus>>

\* Apply needs both fields.  A new mapping goes on top; a row that is gone by now takes nothing.
Apply ==
  /\ editor.open /\ editor' = Closed
  /\ \E rule \in Rule :
       LET new == [id |-> next + 1, key |-> rule.key, val |-> rule.val]
           at  == IndexOf(rows, editor.of)
       IN  IF editor.of = NoRow
           THEN /\ Len(rows) < MaxRows /\ next' = next + 1 /\ error' = error
                /\ form' = Set(form, <<new>> \o rows)
           ELSE /\ form' = IF at = 0 THEN form
                           ELSE Set(form, [rows EXCEPT ![at].key = rule.key, ![at].val = rule.val])
                /\ error' = IF editor.of = error THEN NoRow ELSE error
                /\ next' = next
  /\ UNCHANGED <<stored, save, filter, focus, steps>>

CancelEditor ==
  /\ editor.open /\ editor' = Closed
  /\ UNCHANGED <<stored, form, next, save, error, filter, focus, steps>>

\* Focus goes to the next row, to the previous one after the last, to Add when none is left.
RemoveRow ==
  /\ ~editor.open /\ Step
  /\ \E i \in Shown(rows) :
       LET left      == RemoveAt(rows, i)
           neighbour == IF i < Len(rows) THEN i + 1 ELSE i - 1
       IN  /\ form' = Set(form, left)
           /\ error' = IF rows[i].id = error THEN NoRow ELSE error
           /\ focus' = IF neighbour \notin DOMAIN rows THEN "add"
                       ELSE IF Focusable(left, rows[neighbour].id) THEN "row" ELSE "page"
  /\ UNCHANGED <<stored, next, save, filter, editor>>

\* Move up, Move down and the end of a drag; not while the list is filtered.
Move ==
  /\ ~editor.open /\ filter = "" /\ Step
  /\ \E i, j \in DOMAIN rows : i # j /\ form' = Set(form, MoveRow(rows, i, j))
  /\ UNCHANGED <<stored, next, save, error, filter, focus, editor>>

\* The field is there while the list is long; what was typed stays when it goes.
TypeFilter ==
  /\ ~editor.open /\ Len(rows) > FilterFrom /\ Step
  /\ \E text \in {"", "a", "b"} \ {filter} : filter' = text
  /\ UNCHANGED <<stored, form, next, save, error, focus, editor>>

\* Back to the server's defaults (here: no rules), after a question when there are rules.
ResetToDefaults ==
  /\ ~editor.open /\ rows # <<>> /\ Step
  /\ form' = Set(form, <<>>) /\ error' = NoRow /\ filter' = ""
  /\ UNCHANGED <<stored, next, save, focus, editor>>

ReloadList ==
  /\ ~editor.open /\ ServerChanged(form)
  /\ form' = Reload(form) /\ error' = NoRow
  /\ UNCHANGED <<stored, next, save, filter, focus, editor, steps>>

(***************************************************************************)
(* Saving                                                                   *)
(***************************************************************************)
Submit ==
  /\ ~editor.open /\ ~Clean(form) /\ save.st = "idle"
  /\ save' = [st |-> "sent", rows |-> rows, at |-> 0] /\ error' = NoRow
  /\ UNCHANGED <<stored, form, next, filter, focus, editor, steps>>

Serve ==
  /\ save.st = "sent"
  /\ LET bad == Refused(RulesOf(save.rows))
     IN  IF bad # 0
         THEN save' = [save EXCEPT !.st = "refused", !.at = bad] /\ stored' = stored
         ELSE save' = [save EXCEPT !.st = "ok"] /\ stored' = Normalized(RulesOf(save.rows))
  /\ UNCHANGED <<form, next, error, filter, focus, editor, steps>>

\* A new copy is rendered over `before`, the draft; its rows take the ids they can.
Receive(f, rules) ==
  /\ form' = ReceiveServer(f, RowsFromRules(rules, f.draft, next))
  /\ next' = next + Len(rules)

\* onSaved: the list becomes the sent list, which is also written into the cached copy.
Saved ==
  /\ save.st = "ok" /\ save' = Idle
  /\ Receive(Commit(form, save.rows), RulesOf(save.rows))
  /\ UNCHANGED <<stored, error, filter, focus, editor, steps>>

\* The fetch that follows a save, or the other tab's change.
Refetched ==
  /\ ~SameMappings(form.seen, stored)
  /\ Receive(form, stored)
  /\ UNCHANGED <<stored, save, error, filter, focus, editor, steps>>

OtherTabSaves ==
  /\ Step /\ \E list \in Lists : list # stored /\ stored' = list /\ Receive(form, list)
  /\ UNCHANGED <<save, error, filter, focus, editor>>

\* Faulty variant: the refused position is looked up in the list as it is now.
FailedRowNow == IF save.at \in DOMAIN rows THEN rows[save.at].id ELSE NoRow

\* The row a refusal is about, in the list as it was sent.
FailedRow == save.rows[save.at].id

\* onFailed: the filter is cleared, so that the row can be focused.
SaveRefused ==
  /\ save.st = "refused" /\ save' = Idle /\ error' = FailedRow /\ filter' = ""
  /\ focus' = IF IndexOf(rows, FailedRow) # 0 THEN "row" ELSE focus
  /\ UNCHANGED <<stored, form, next, editor, steps>>

ListEdit == OpenEditor \/ Apply \/ CancelEditor \/ RemoveRow \/ Move \/ TypeFilter
              \/ ResetToDefaults \/ ReloadList
Saving == Submit \/ Serve \/ Saved \/ Refetched \/ OtherTabSaves \/ SaveRefused
Next == ListEdit \/ Saving

Spec == Init /\ [][Next]_vars

(***************************************************************************)
(* Properties                                                               *)
(***************************************************************************)
\* A refusal is shown on the row the server refused, also when the rows were moved, removed or
\* edited while the save was under way.
ErrorNamesRefusedRow ==
  SaveRefused /\ error' # NoRow /\ IndexOf(rows, error') # 0 =>
    \E i \in DOMAIN save.rows : save.rows[i].id = error' /\ i = Refused(RulesOf(save.rows))

\* Reading back a saved list that nobody changed meanwhile keeps every row mounted under its id,
\* so focus and open menus survive a save in spite of the server's spelling of the keys.
RowsSurviveSave ==
  (\/ Saved /\ rows = save.rows
   \/ Refetched /\ Clean(form) /\ Normalized(RulesOf(rows)) = stored)
  => \A i \in DOMAIN rows : rows'[i].id = rows[i].id
=============================================================================
