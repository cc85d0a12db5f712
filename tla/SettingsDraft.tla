---------------------------- MODULE SettingsDraft ----------------------------
(***************************************************************************)
(* The edit state of one settings card on top of the server copy it shows   *)
(* (useDraft).                                                              *)
(***************************************************************************)
CONSTANT Same(_, _) \* the card's equality

InitialDraft(server) == [base |-> server, draft |-> server, seen |-> server, changed |-> FALSE]

Clean(s) == Same(s.draft, s.base)

\* Faulty variant: a copy equal to the one the draft started from is not looked at.
ReceiveServerByBase(s, server) ==
  IF Same(s.base, server) THEN s
  ELSE IF Clean(s) THEN InitialDraft(server)
  ELSE [s EXCEPT !.seen = server, !.changed = TRUE]

\* A clean draft takes a new server copy; a dirty one is kept and flagged.
ReceiveServer(s, server) ==
  IF Same(s.seen, server) THEN s
  ELSE IF Clean(s) THEN InitialDraft(server)
  ELSE [s EXCEPT !.seen = server, !.changed = TRUE]

Set(s, value) == [s EXCEPT !.draft = value]

Reload(s) == InitialDraft(s.seen)

\* `seen` stays, so that the copy that follows the save replaces the draft.
Commit(s, saved) == [s EXCEPT !.base = saved, !.draft = saved, !.changed = FALSE]

\* What the card's footer shows in place of "Unsaved changes".
ServerChanged(s) == ~Clean(s) /\ s.changed
=============================================================================
