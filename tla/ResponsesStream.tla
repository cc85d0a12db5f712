--------------------------- MODULE ResponsesStream ---------------------------
(***************************************************************************)
(* How the Responses API streams an answer: the loop of                    *)
(* handleResponsesStream in proxy/responses_api.go with the splitter of    *)
(* proxy/thinking_split.go.  The answer is a list of output items (message,*)
(* reasoning, tool call); each is added, receives deltas, is done, and is  *)
(* listed with its final text in the response object that ends the stream. *)
(*                                                                         *)
(* The wire is the sequence of events the client has received.  Blank is   *)
(* the white space that is trimmed from the front of the first text and of *)
(* the first reasoning.                                                    *)
(***************************************************************************)
EXTENDS Integers, FiniteSets, ThinkingTags

CONSTANTS Thinking,               \* the values of the request's thinking flag
          TextChunks, ReasoningChunks,
          Blank,
          MaxRaw, MaxHeard,       \* bounds: characters of text and of reasoning
          MaxTools                \* bound: tool calls

VARIABLES thinking,
          st,          \* the variables of one attempt, and the wire
          raw, heard,  \* history: the attempt's text and native reasoning
          phase        \* "open", "done", "failed", "refused" or "gone"

vars == <<thinking, st, raw, heard, phase>>

Nil == [kind |-> "nil"]
NoItem == [added |-> FALSE, done |-> FALSE, index |-> 0, text |-> <<>>]

\* outputItems is indexed from 1 here; the code counts from 0.
FreshAttempt ==
    [buf |-> <<>>, inBlock |-> FALSE, src |-> "unknown",
     sawText |-> FALSE, sawReasoning |-> FALSE, content |-> <<>>, reasons |-> <<>>,
     message |-> NoItem, reasoning |-> NoItem, tools |-> 0,
     started |-> FALSE, next |-> 1, output |-> <<>>, wire |-> <<>>]

Init ==
    /\ thinking \in Thinking
    /\ st = FreshAttempt
    /\ raw = <<>> /\ heard = <<>>
    /\ phase = "open"

Send(s, event) == [s EXCEPT !.wire = Append(@, event)]

-----------------------------------------------------------------------------
(* Output items.  The code keeps one message and one reasoning item; slot  *)
(* says which.                                                             *)

ReserveOutputItem(s, i, item) ==
    [s EXCEPT !.output = [j \in 1..(IF Len(@) < i THEN i ELSE Len(@)) |->
                             IF j = i THEN item ELSE IF j <= Len(@) THEN @[j] ELSE Nil]]

EnsureStarted(s) ==
    IF s.started THEN s ELSE [Send(s, [ev |-> "created"]) EXCEPT !.started = TRUE]

\* Announces an item unless the slot's is open; a done one is never reopened.
EnsureAdded(s0, slot) ==
    LET s == EnsureStarted(s0)
        announced == Send(ReserveOutputItem(s, s.next, [kind |-> slot, text |-> <<>>]),
                          [ev |-> "added", index |-> s.next, kind |-> slot])
    IN  IF s[slot].added /\ ~s[slot].done THEN s
        ELSE [announced EXCEPT
                ![slot] = [added |-> TRUE, done |-> FALSE, index |-> s.next, text |-> <<>>],
                !.next = @ + 1]

Finish(s, slot) ==
    IF ~s[slot].added \/ s[slot].done THEN s
    ELSE [Send(ReserveOutputItem(s, s[slot].index, [kind |-> slot, text |-> s[slot].text]),
               [ev |-> "done", index |-> s[slot].index, text |-> s[slot].text])
             EXCEPT ![slot].done = TRUE]

EnsureReasoningAdded(s) == EnsureAdded(s, "reasoning")

EnsureMessageAdded(s) == EnsureAdded(s, "message")

FinishReasoning(s) == Finish(s, "reasoning")
FinishMessage(s) == Finish(s, "message")

SendDelta(s, slot, text) ==
    [Send(s, [ev |-> "delta", index |-> s[slot].index, from |-> slot, text |-> text])
        EXCEPT ![slot].text = @ \o text]

-----------------------------------------------------------------------------
(* The sinks of the splitter.                                              *)

RECURSIVE TrimLeft(_)
TrimLeft(text) == IF text # <<>> /\ Head(text) = Blank THEN TrimLeft(Tail(text)) ELSE text

EmitReasoningDelta(s, text0) ==
    LET text == IF s.sawReasoning THEN text0 ELSE TrimLeft(text0)
        noted == [s EXCEPT !.sawReasoning = TRUE, !.reasons = @ \o text]
    IN  IF text = <<>> THEN s
        ELSE SendDelta(EnsureReasoningAdded(FinishMessage(noted)), "reasoning", text)

EmitTextDelta(s, text0) ==
    LET text == IF s.sawText THEN text0 ELSE TrimLeft(text0)
        noted == [s EXCEPT !.sawText = TRUE, !.content = @ \o text]
    IN  IF text = <<>> THEN s
        ELSE SendDelta(EnsureMessageAdded(FinishReasoning(noted)), "message", text)

\* Thinking from tags yields to native reasoning that came first.
EmitTagThinking(s, text) ==
    IF ~thinking \/ s.src = "event" THEN s
    ELSE EmitReasoningDelta([s EXCEPT !.src = "tag"], text)

EmitSplit(s, text) ==
    CASE text = <<>> -> s
      [] text # <<>> /\ s.inBlock -> EmitTagThinking(s, text)
      [] OTHER -> EmitTextDelta(s, text)

-----------------------------------------------------------------------------
(* thinkingTagSplitter.                                                    *)

\* Faulty variant: a half-received tag is not recognised as one.
PartialTagSuffixNone(s, tag) == 0

\* How many of the last characters may still grow into the tag.
PartialTagSuffixLen(s, tag) ==
    LET ks == {k \in 0..(Len(tag) - 1) : k <= Len(s) /\ IsSuffix(SubSeq(tag, 1, k), s)}
    IN  CHOOSE k \in ks : \A j \in ks : j <= k

RECURSIVE DrainTags(_, _)
DrainTags(s, final) ==
    LET tag == IF s.inBlock THEN CloseTag ELSE OpenTag
        i == Index(s.buf, tag)
        keep == IF final THEN Len(s.buf) ELSE Len(s.buf) - PartialTagSuffixLen(s.buf, tag)
    IN  IF i # 0
        THEN DrainTags([EmitSplit(s, Before(s.buf, i)) EXCEPT
                           !.buf = After(s.buf, i, tag), !.inBlock = ~@], final)
        ELSE [EmitSplit(s, SubSeq(s.buf, 1, keep)) EXCEPT
                 !.buf = SubSeq(@, keep + 1, Len(@))]

Push(s, text) == DrainTags([s EXCEPT !.buf = @ \o text], FALSE)
FlushTags(s) == DrainTags(s, TRUE)

-----------------------------------------------------------------------------
(* The callbacks of the upstream call.                                     *)

OnText(chunk) ==
    /\ phase = "open" /\ Len(raw) + Len(chunk) <= MaxRaw
    /\ st' = Push(st, chunk)
    /\ raw' = raw \o chunk
    /\ UNCHANGED <<thinking, heard, phase>>

OnReasoning(chunk) ==
    /\ phase = "open" /\ Len(heard) + Len(chunk) <= MaxHeard
    /\ st' = IF ~thinking \/ st.src = "tag" THEN st
             ELSE EmitReasoningDelta([st EXCEPT !.src = "event"], chunk)
    /\ heard' = heard \o chunk
    /\ UNCHANGED <<thinking, raw, phase>>

\* A call's item is added and done in one go, after all that came before it.
ToolItem(s) ==
    Send(Send(Send(ReserveOutputItem(s, s.next, [kind |-> Tool, text |-> <<Tool>>]),
                   [ev |-> "added", index |-> s.next, kind |-> Tool]),
              [ev |-> "delta", index |-> s.next, from |-> Tool, text |-> <<Tool>>]),
         [ev |-> "done", index |-> s.next, text |-> <<Tool>>])

CanCallTool == phase = "open" /\ st.tools < MaxTools

OnToolUse ==
    /\ CanCallTool
    /\ st' = [ToolItem(FinishMessage(FinishReasoning(FlushTags(EnsureStarted(st)))))
                 EXCEPT !.tools = @ + 1, !.next = @ + 1]
    /\ raw' = Append(raw, Tool) /\ heard' = Append(heard, Tool)
    /\ UNCHANGED <<thinking, phase>>

-----------------------------------------------------------------------------
(* The end of the upstream call.                                           *)

\* Reasoning that was never streamed is announced and sent as one delta.
ReplayReasoning(s) ==
    IF ~thinking \/ s.reasons = <<>> \/ s.reasoning.added THEN s
    ELSE SendDelta(EnsureReasoningAdded(FinishMessage(s)), "reasoning", s.reasons)

\* An answer without text and without calls still lists one empty message.
ListEmptyMessage(s) ==
    IF s.message.added \/ s.tools > 0 THEN s
    ELSE [ReserveOutputItem(s, s.next, [kind |-> "message", text |-> s.content])
             EXCEPT !.next = @ + 1]

Succeed ==
    /\ phase = "open"
    /\ LET s == ListEmptyMessage(FinishMessage(FinishReasoning(
                    ReplayReasoning(FlushTags(EnsureStarted(st))))))
       IN  st' = Send(s, [ev |-> "completed", output |-> s.output, content |-> s.content])
    /\ phase' = "done"
    /\ UNCHANGED <<thinking, raw, heard>>

\* The call fails after the answer has begun: the tail, then response.failed.
FailMidAnswer ==
    /\ phase = "open" /\ st.started
    /\ st' = Send(FlushTags(st), [ev |-> "failed"])
    /\ phase' = "failed"
    /\ UNCHANGED <<thinking, raw, heard>>

\* The call fails before anything was sent: another attempt starts afresh.
\* How many there may be is the business of RequestFailover.
FailAndRetry ==
    /\ phase = "open" /\ ~st.started
    /\ st' = FreshAttempt /\ raw' = <<>> /\ heard' = <<>>
    /\ UNCHANGED <<thinking, phase>>

\* No attempt is left: the client gets a plain error, no stream.
FailForGood ==
    /\ phase = "open" /\ ~st.started
    /\ phase' = "refused"
    /\ UNCHANGED <<thinking, st, raw, heard>>

\* The client is gone: the handler returns at once.
Disconnect ==
    /\ phase = "open"
    /\ phase' = "gone"
    /\ UNCHANGED <<thinking, st, raw, heard>>

Next ==
    \/ \E chunk \in TextChunks : OnText(chunk)
    \/ \E chunk \in ReasoningChunks : OnReasoning(chunk)
    \/ OnToolUse
    \/ Succeed
    \/ FailMidAnswer
    \/ FailAndRetry
    \/ FailForGood
    \/ Disconnect

Spec == Init /\ [][Next]_vars

-----------------------------------------------------------------------------
(* What the client makes of the wire.                                      *)

Deltas == SelectSeq(st.wire, LAMBDA e : e.ev = "delta")

\* The characters of the given kinds of item, in order of arrival.
Shown(kinds) == FlattenSeq([i \in DOMAIN Deltas |->
                   IF Deltas[i].from \in kinds THEN Deltas[i].text ELSE <<>>])

\* The deltas of one item put together.
TextOf(i) == FlattenSeq([k \in DOMAIN Deltas |->
                IF Deltas[k].index = i THEN Deltas[k].text ELSE <<>>])

\* Drops the blanks before the first character that is no tool call.
RECURSIVE TrimFirst(_)
TrimFirst(s) ==
    IF s = <<>> THEN s
    ELSE CASE Head(s) = Blank -> TrimFirst(Tail(s))
           [] Head(s) = Tool -> <<Tool>> \o TrimFirst(Tail(s))
           [] OTHER -> s

Ended == phase \in {"done", "failed"}

-----------------------------------------------------------------------------
(* Properties.                                                             *)

\* The attempt's variables fit together: every index handed out is listed,
\* an open item is listed as its kind, and at most one of the two is open.
ResponseInv ==
    /\ phase \in {"open", "done", "failed", "refused", "gone"}
    /\ st.next = Len(st.output) + 1
    /\ \A i \in DOMAIN st.output : st.output[i] # Nil
    /\ \A slot \in {"message", "reasoning"} :
          st[slot].added => st[slot].index < st.next /\ st.output[st[slot].index].kind = slot
    /\ ~(st.message.added /\ ~st.message.done /\ st.reasoning.added /\ ~st.reasoning.done)
    /\ st.wire # <<>> => st.started

\* However the upstream cuts its text into chunks, the messages of the answer
\* are the visible text of one pass over the whole text, every tool call at
\* its place: what was sent plus what is held back, and all of it at the end.
\* The text before the first visible character is trimmed of blanks.
AnswerExact ==
    LET held == SplitWhole(st.buf, st.inBlock, FALSE).text
        shown == Shown({"message", Tool})
    IN  /\ TrimFirst(shown) = shown
        /\ TrimFirst(shown \o held) = TrimFirst(SplitWhole(raw, FALSE, FALSE).text)
        /\ Ended => held = <<>>

\* Reasoning items hold the thinking of one source, the first to appear, and
\* then completely; none is shown to a caller that did not ask for it.
ReasoningExact ==
    LET native == st.src = "event"
        held == IF native THEN <<>> ELSE SplitWhole(st.buf, st.inBlock, FALSE).thought
        all == IF native THEN heard ELSE SplitWhole(raw, FALSE, FALSE).thought
        shown == Shown({"reasoning", Tool})
    IN  IF thinking THEN TrimFirst(shown \o held) = TrimFirst(all)
        ELSE Shown({"reasoning"}) = <<>>

\* "Items stream one at a time": indices are consecutive, a delta or a done
\* goes to the one open item, and a completed answer leaves none open.
OneItemAtATime ==
    LET w == st.wire
        added(i) == {j \in 1..i : w[j].ev = "added"}
        open(i) == Cardinality(added(i)) - Cardinality({j \in 1..i : w[j].ev = "done"})
    IN  /\ \A i \in DOMAIN w :
              /\ open(i) \in {0, 1}
              /\ w[i].ev \in {"added", "delta", "done"} => w[i].index = Cardinality(added(i))
              /\ w[i].ev = "delta" => open(i) = 1
        /\ phase = "done" => open(Len(w)) = 0

\* "The final text must equal the concatenated deltas": for every item that
\* is done, and again for every item and for the whole text in the response
\* object that ends the stream.
FinalTextIsStreamedText ==
    /\ \A k \in DOMAIN st.wire :
          st.wire[k].ev = "done" => st.wire[k].text = TextOf(st.wire[k].index)
    /\ phase = "done" =>
          LET end == st.wire[Len(st.wire)]
          IN  /\ \A i \in DOMAIN end.output : end.output[i].text = TextOf(i)
              /\ end.content = Shown({"message"})
=============================================================================
