---------------------------- MODULE PromptFilter ----------------------------
(***************************************************************************)
(* The prompt-filter card: its switches, its rules with their editor, and   *)
(* the check that tells whether Go's regexp.Compile takes a pattern, typed  *)
(* token by token.  An "item" token is a literal, an escape or a class, as  *)
(* the lexers of the check read it; a "bad" one is one that they refuse.    *)
(***************************************************************************)
EXTENDS Naturals, Sequences, SequencesExt, FiniteSetsExt

CONSTANTS Tokens,    \* the tokens that are typed
          MaxLen,    \* bound: tokens of a pattern
          MaxRepeat, \* the largest product of nested repeat counts (MAX_REPEAT)
          MaxRules   \* bound: custom rules

\* The counted repetitions: the larger count, or the only one ({n,}).
Counts == [n \in {"{0}", "{3}", "{9}"} |-> CASE n = "{0}" -> 0 [] n = "{3}" -> 3 [] OTHER -> 9]
Repeat(t) == t = "*" \/ t \in DOMAIN Counts
Max2(a, b) == IF a > b THEN a ELSE b

(***************************************************************************)
(* compilesInGo: one pass with a stack of open groups.  `done` is the       *)
(* heaviest finished item of the group, `last` the item a repetition would  *)
(* apply to, 0 when there is none.                                          *)
(***************************************************************************)
Frame   == [done |-> 1, last |-> 0]
Start   == [frames |-> <<Frame>>, repeated |-> FALSE, ok |-> TRUE]
Heaviest(f) == Max2(f.done, Max2(f.last, 1))
Fail(s) == [s EXCEPT !.ok = FALSE]
Top(s)  == Last(s.frames)
WithTop(s, f) == [s EXCEPT !.frames = Append(Front(@), f), !.repeated = FALSE]
Item(s, w)    == WithTop(s, [done |-> Heaviest(Top(s)), last |-> w])

\* Faulty variant: a group weighs as much as its last item.
CloseGroupByLast(s) ==
  IF Len(s.frames) = 1 THEN Fail(s)
  ELSE Item([s EXCEPT !.frames = Front(@)], Max2(Top(s).last, 1))

CloseGroup(s) ==
  IF Len(s.frames) = 1 THEN Fail(s)
  ELSE Item([s EXCEPT !.frames = Front(@)], Heaviest(Top(s)))

\* repeatWeight: {0} drops its operand from the count.
RepeatWeight(w, n) == IF n = 0 THEN 1 ELSE w * n

Repetition(s, t) ==
  LET f == Top(s)
      w == IF t = "*" THEN f.last ELSE RepeatWeight(f.last, Counts[t])
  IN  IF \/ s.repeated \/ f.last = 0 \/ w > MaxRepeat
         \/ (t # "*" /\ Counts[t] > MaxRepeat) THEN Fail(s)
      ELSE [WithTop(s, [f EXCEPT !.last = w]) EXCEPT !.repeated = TRUE]

\* The lexers of escapes, Unicode classes and bracket classes take an item whole or refuse it.
Refused(t) == t = "bad"

Parse(s, t) ==
  IF ~s.ok \/ Refused(t) THEN Fail(s)
  ELSE CASE t = "item"  -> Item(s, 1)
         [] t = "("     -> [s EXCEPT !.frames = Append(@, Frame), !.repeated = FALSE]
         [] t = "flags" -> [s EXCEPT !.repeated = FALSE]
         [] t = ")"     -> CloseGroup(s)
         [] t = "|"     -> WithTop(s, [done |-> Heaviest(Top(s)), last |-> 0])
         [] OTHER       -> Repetition(s, t)

CompilesInGo(p) == LET s == FoldLeft(Parse, Start, p) IN s.ok /\ Len(s.frames) = 1

(***************************************************************************)
(* What Go accepts, said of the whole pattern: brackets match, a repetition *)
(* has an operand, and along any path the product of the counts is bounded. *)
(***************************************************************************)
Depth(p, i) == Cardinality({j \in 1 .. i : p[j] = "("}) - Cardinality({j \in 1 .. i : p[j] = ")"})
Opens(p, i) == Cardinality({j \in 1 .. i : p[j] = "("}) >= Cardinality({j \in 1 .. i : p[j] = ")"})
Balanced(p) == (\A i \in DOMAIN p : Opens(p, i)) /\ (p # <<>> => Depth(p, Len(p)) = 0)

\* The token before position i that is not a flag setting, 0 when there is none.
Before(p, i) == Max({0} \cup {j \in 1 .. i - 1 : p[j] # "flags"})
\* The bracket that closes at i opens here.
Opening(p, i) == Max({j \in 1 .. i - 1 : p[j] = "(" /\ Depth(p, j) = Depth(p, i) + 1})

\* Where the operand of the repetition at each position starts.
Operand(p) ==
  LET at[i \in 1 .. Len(p)] ==
        LET j == Before(p, i)
        IN  IF p[j] = ")" THEN Opening(p, j) ELSE IF Repeat(p[j]) THEN at[j] ELSE j
  IN  at

HasOperand(p, i) ==
  /\ Before(p, i) # 0 /\ p[Before(p, i)] \notin {"(", "|"}
  /\ i > 1 => ~Repeat(p[i - 1])

\* The counted repetitions up to i that hold position k, unless a later one drops what they hold.
Chain(p, k, i) ==
  LET holds == {j \in k + 1 .. i : p[j] \in DOMAIN Counts /\ Operand(p)[j] <= k}
      zero  == {j \in holds : Counts[p[j]] = 0}
  IN  {j \in holds : \A z \in zero : j > z}

GoAccepts(p) ==
  /\ "bad" \notin Range(p) /\ Balanced(p)
  /\ \A i \in DOMAIN p : Repeat(p[i]) =>
       /\ HasOperand(p, i)
       /\ p[i] \in DOMAIN Counts => Counts[p[i]] <= MaxRepeat
       /\ \A k \in 1 .. i - 1 :
            MapThenFoldSet(LAMBDA a, b : a * b, 1, LAMBDA j : Counts[p[j]], LAMBDA S : CHOOSE x \in S : TRUE,
                           Chain(p, k, i)) <= MaxRepeat

(***************************************************************************)
(* The card                                                                 *)
(***************************************************************************)
VARIABLES part,    \* "pattern": a pattern is typed; "rules": the list is edited
          builtin, \* the built-in filters that are on
          rules,   \* custom rules: id, kind, whether they are on
          editor,  \* the dialog: open, the position it was opened on (0: a new rule), its rule
          pattern, \* what is typed in its match field
          clock    \* the time a new rule takes its id from

vars == <<part, builtin, rules, editor, pattern, clock>>
Builtin == {"filterClaudeCode", "filterEnvNoise", "filterStripBoundaries"}
Kind    == {"regex", "lines-containing"}

TypeOK ==
  /\ builtin \subseteq Builtin /\ pattern \in Seq(Tokens) /\ Len(rules) <= MaxRules
  /\ \A i \in DOMAIN rules : rules[i].kind \in Kind /\ rules[i].on \in BOOLEAN

\* newRule: the id is the time, moved past the ids of the list.
NewRule == [id |-> Min((clock .. clock + MaxRules) \ {rules[i].id : i \in DOMAIN rules}),
            kind |-> "lines-containing", on |-> TRUE]

Init ==
  /\ part \in {"pattern", "rules"} /\ builtin = {} /\ rules = <<>> /\ pattern = <<>>
  /\ clock = 1 /\ editor = [open |-> FALSE, at |-> 0, rule |-> NewRule]

TypeToken ==
  /\ part = "pattern" /\ Len(pattern) < MaxLen
  /\ \E t \in Tokens : pattern' = Append(pattern, t)
  /\ UNCHANGED <<part, builtin, rules, editor, clock>>

Tick ==
  /\ part = "rules" /\ clock = 1 /\ clock' = 2
  /\ UNCHANGED <<part, builtin, rules, editor, pattern>>

OpenEditor ==
  /\ part = "rules" /\ ~editor.open
  /\ \E i \in 0 .. Len(rules) :
       /\ i = 0 => Len(rules) < MaxRules
       /\ editor' = [open |-> TRUE, at |-> i, rule |-> IF i = 0 THEN NewRule ELSE rules[i]]
  /\ UNCHANGED <<part, builtin, rules, pattern, clock>>

PickKind ==
  /\ editor.open /\ \E k \in Kind \ {editor.rule.kind} : editor' = [editor EXCEPT !.rule.kind = k]
  /\ UNCHANGED <<part, builtin, rules, pattern, clock>>

\* A new rule goes at the end; an edited one to the position the editor was opened on.
ApplyEditor ==
  /\ editor.open /\ editor' = [editor EXCEPT !.open = FALSE]
  /\ rules' = IF editor.at = 0 THEN Append(rules, editor.rule)
              ELSE [i \in DOMAIN rules |-> IF i = editor.at THEN editor.rule ELSE rules[i]]
  /\ UNCHANGED <<part, builtin, pattern, clock>>

\* The switch of a row and its delete button, which answer to the row's position.
RuleRow(i) == rules' = [rules EXCEPT ![i].on = ~@] \/ rules' = RemoveAt(rules, i)

SetRule ==
  /\ part = "rules" /\ ~editor.open
  /\ \E i \in DOMAIN rules : RuleRow(i)
  /\ UNCHANGED <<part, builtin, editor, pattern, clock>>

SetBuiltin ==
  /\ part = "rules" /\ ~editor.open
  /\ \E b \in Builtin : builtin' = (builtin \ {b}) \cup ({b} \ builtin)
  /\ UNCHANGED <<part, rules, editor, pattern, clock>>

\* The switch of the whole card: on when some filter is off, else off.
AllOn == builtin = Builtin /\ \A i \in DOMAIN rules : rules[i].on
SetAll ==
  /\ part = "rules" /\ ~editor.open
  /\ builtin' = IF AllOn THEN {} ELSE Builtin
  /\ rules' = [i \in DOMAIN rules |-> [rules[i] EXCEPT !.on = ~AllOn]]
  /\ UNCHANGED <<part, editor, pattern, clock>>

Next == TypeToken \/ Tick \/ OpenEditor \/ PickKind \/ ApplyEditor \/ SetRule \/ SetBuiltin \/ SetAll
Spec == Init /\ [][Next]_vars

(***************************************************************************)
(* Properties                                                               *)
(***************************************************************************)
\* The hint under a pattern is shown exactly when Go refuses it and the proxy would skip the
\* rule: the one-pass check with its stack agrees with what Go accepts of the whole pattern.
HintIsGoVerdict == CompilesInGo(pattern) = GoAccepts(pattern)
=============================================================================
