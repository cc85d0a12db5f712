---------------------------- MODULE ThinkingTags ----------------------------
(***************************************************************************)
(* Inline <thinking> tags in the upstream text.  A text is a sequence of   *)
(* characters; the two tags are short sequences that, like the real ones,  *)
(* begin with a character that occurs nowhere else in them.  Tool stands   *)
(* for a tool call between two stretches of text.                          *)
(***************************************************************************)
EXTENDS Naturals, Sequences, SequencesExt

CONSTANTS OpenTag,   \* "<thinking>"
          CloseTag   \* "</thinking>"

Tool == "TOOL"

ASSUME TagAssumption ==
    /\ OpenTag # <<>> /\ CloseTag # <<>>
    /\ \A tag \in {OpenTag, CloseTag} :
          \A i \in 2..Len(tag) : tag[i] \notin {OpenTag[1], CloseTag[1]}
    /\ ~IsPrefix(OpenTag, CloseTag) /\ ~IsPrefix(CloseTag, OpenTag)

\* strings.Index, counted from 1; 0 stands for the -1 of the code.
Index(s, tag) ==
    LET at == {i \in 1..Len(s) : IsPrefix(tag, SubSeq(s, i, Len(s)))}
    IN  IF at = {} THEN 0 ELSE CHOOSE i \in at : \A j \in at : i <= j

\* What precedes position i, and what follows the tag found at i.
Before(s, i) == SubSeq(s, 1, i - 1)
After(s, i, tag) == SubSeq(s, i + Len(tag), Len(s))

(***************************************************************************)
(* The reference: one pass over the whole text, a character at a time.     *)
(* No tag spans a tool call, and the call shows in both parts; it ends a   *)
(* block that is still open when toolEnds says so.                         *)
(***************************************************************************)
RECURSIVE SplitWhole(_, _, _)
SplitWhole(s, inTag, toolEnds) ==
    IF s = <<>> THEN [text |-> <<>>, thought |-> <<>>]
    ELSE LET c == Head(s)
             tag == IF inTag THEN CloseTag ELSE OpenTag
         IN  IF IsPrefix(tag, s) THEN SplitWhole(After(s, 1, tag), ~inTag, toolEnds)
             ELSE LET rest == SplitWhole(Tail(s), inTag /\ ~(c = Tool /\ toolEnds), toolEnds)
                  IN  [text    |-> (IF inTag /\ c # Tool THEN <<>> ELSE <<c>>) \o rest.text,
                       thought |-> (IF inTag \/ c = Tool THEN <<c>> ELSE <<>>) \o rest.thought]
=============================================================================
