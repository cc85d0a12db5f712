----------------------------- MODULE ChatStream -----------------------------
(***************************************************************************)
(* How a streamed chat answer is rendered for the client: the loops of     *)
(* handleClaudeStream and handleOpenAIStream in proxy/handler.go.          *)
(* The upstream delivers text and native reasoning in chunks of any size,  *)
(* and tool calls between them.  Text is held back while a <thinking> tag  *)
(* may still complete, thinking is shown in the format the request asks    *)
(* for, and each attempt that has not begun to answer may be started over. *)
(*                                                                         *)
(* The wire is the sequence of events the client has received.  A delta    *)
(* also carries "from", where its characters came from, and "mark", the    *)
(* <think> or </think> written with it; both are read by properties only.  *)
(***************************************************************************)
EXTENDS Integers, FiniteSets, ThinkingTags

CONSTANTS Requests,    \* the combinations of api, thinking, format and omit
          TextChunks, ReasoningChunks,
          TextLimit, ThinkLimit,  \* 50 and 20 in the code
          KeepTail,               \* 15 in the code
          MaxRaw, MaxHeard,       \* bounds: characters of text and of reasoning
          MaxTools                \* bound: tool calls

ASSUME LimitAssumption ==
    /\ Len(OpenTag) - 1 <= KeepTail /\ Len(CloseTag) - 1 <= KeepTail
    /\ 0 < KeepTail /\ KeepTail <= ThinkLimit /\ KeepTail <= TextLimit

VARIABLES req,     \* the request: [api, thinking, format, omit]
          st,      \* the variables of one attempt and what was sent
          raw,     \* history: the attempt's text, with Tool where a call was
          heard,   \* history: the attempt's native reasoning, likewise
          phase    \* "open", "done", "broken", "refused" or "gone"

vars == <<req, st, raw, heard, phase>>

NoBlock == -1

\* The variables an attempt starts with; nothing is on the wire yet.
FreshAttempt ==
    [buf |-> <<>>, inTag |-> FALSE, drop |-> FALSE, src |-> "unknown",
     started |-> FALSE, evOpen |-> FALSE,
     next |-> 0, active |-> NoBlock, kind |-> "", begun |-> FALSE, wire |-> <<>>]

Init ==
    /\ req \in Requests
    /\ st = FreshAttempt
    /\ raw = <<>> /\ heard = <<>>
    /\ phase = "open"

Send(s, event) == [s EXCEPT !.wire = Append(@, event), !.begun = TRUE]

Delta(index, kind, from, text, mark) ==
    [ev |-> "delta", index |-> index, kind |-> kind, from |-> from,
     text |-> text, mark |-> mark]

-----------------------------------------------------------------------------
(* Content blocks of the Claude answer.                                    *)

CloseActiveBlock(s) ==
    IF s.active = NoBlock THEN s
    ELSE [Send(s, [ev |-> "stop", index |-> s.active])
             EXCEPT !.active = NoBlock, !.kind = ""]

StartContentBlock(s, kind) ==
    IF s.kind = kind THEN s
    ELSE [Send(CloseActiveBlock(s), [ev |-> "start", index |-> s.next, kind |-> kind])
             EXCEPT !.active = s.next, !.next = @ + 1, !.kind = kind]

ClaudeDelta(s, kind, from, text, mark) ==
    LET b == StartContentBlock(s, kind)
    IN  Send(b, Delta(b.active, kind, from, text, mark))

\* The mark a thinking state writes: 1 opens, 2 continues, 3 closes.
Mark(state) == <<"open", "", "close">>[state]

\* The thinking block of the default format; with omit only its frame is sent.
ClaudeThinkingBlock(s, from, text, state) ==
    IF req.omit
    THEN CASE state = 1 -> StartContentBlock(s, "thinking")
           [] state = 2 -> s
           [] state = 3 -> CloseActiveBlock(StartContentBlock(s, "thinking"))
    ELSE LET shown == IF text = <<>> THEN s
                      ELSE ClaudeDelta(s, "thinking", from, text, "")
         IN  IF state = 3 /\ shown.kind = "thinking" THEN CloseActiveBlock(shown) ELSE shown

ClaudeSendText(s, from, text, state) ==
    CASE state = 0 -> IF text = <<>> THEN s ELSE ClaudeDelta(s, "text", from, text, "")
      [] state # 0 /\ ~req.thinking -> s
      [] state # 0 /\ req.thinking /\ req.format = "think" ->
            IF text = <<>> /\ state = 2 THEN s
            ELSE ClaudeDelta(s, "text", from, text, Mark(state))
      [] state # 0 /\ req.thinking /\ req.format = "reasoning_content" ->
            IF text = <<>> THEN s ELSE ClaudeDelta(s, "text", from, text, "")
      [] OTHER -> ClaudeThinkingBlock(s, from, text, state)

-----------------------------------------------------------------------------
(* Chunks of the OpenAI answer: no blocks, only deltas.                    *)

OpenAISendChunk(s, from, text, state) ==
    CASE text = <<>> /\ state \in {0, 2} -> s
      [] state # 0 /\ ~req.thinking -> s
      [] state # 0 /\ req.thinking /\ req.format \in {"thinking", "think"} ->
            Send(s, Delta(NoBlock, "content", from, text, Mark(state)))
      [] state # 0 /\ req.thinking /\ req.format = "reasoning_content" ->
            IF text = <<>> THEN s
            ELSE Send(s, Delta(NoBlock, "reasoning_content", from, text, ""))
      [] OTHER -> Send(s, Delta(NoBlock, "content", from, text, ""))

SendText(s, from, text, state) ==
    IF req.api = "claude" THEN ClaudeSendText(s, from, text, state)
    ELSE OpenAISendChunk(s, from, text, state)

-----------------------------------------------------------------------------
(* The two sources of thinking: whichever comes first is the only one.     *)

ReasoningAllowed(s) == s.src # "tag"

ClaimTag(s) == IF s.src = "unknown" THEN [s EXCEPT !.src = "tag"] ELSE s

-----------------------------------------------------------------------------
(* processClaudeText and processText: the same loop over the held-back     *)
(* text in both handlers.                                                  *)

\* Sends a tag's content: the opening first, unless it went out already.
SendThought(s, text, last) ==
    IF s.drop THEN s
    ELSE IF ~last THEN [SendText(s, "tag", text, IF s.started THEN 2 ELSE 1) EXCEPT !.started = TRUE]
    ELSE IF s.started THEN SendText(s, "tag", text, 3)
    ELSE SendText(SendText(s, "tag", text, 1), "tag", <<>>, 3)

\* An opening tag at i: the text before it goes out, the tag does not.
EnterTag(s, i) ==
    LET claimed == ClaimTag(SendText(s, "text", Before(s.buf, i), 0))
    IN  [claimed EXCEPT !.buf = After(s.buf, i, OpenTag), !.inTag = TRUE,
                        !.drop = claimed.src # "tag", !.started = FALSE]

\* The block ends with the content before the cut; rest is scanned further.
LeaveTag(s, content, rest) ==
    [SendThought(s, content, TRUE) EXCEPT
        !.buf = rest, !.inTag = FALSE, !.drop = FALSE, !.started = FALSE]

\* Faulty variant: the whole buffer goes out, a half-received tag with it.
SafeLenAll(s, force) == Len(s.buf)

\* How much of the buffer is released when it holds no tag.
SafeLen(s, force) == IF force THEN Len(s.buf) ELSE Len(s.buf) - KeepTail

Hold(s, n) == [s EXCEPT !.buf = SubSeq(@, n + 1, Len(@))]

RECURSIVE Drain(_, _)
Drain(s, force) ==
    LET i == Index(s.buf, IF s.inTag THEN CloseTag ELSE OpenTag)
        n == SafeLen(s, force)
    IN  CASE ~s.inTag /\ i # 0 -> Drain(EnterTag(s, i), force)
          [] ~s.inTag /\ i = 0 ->
                IF (force \/ Len(s.buf) > TextLimit) /\ n > 0
                THEN Hold(SendText(s, "text", SubSeq(s.buf, 1, n), 0), n) ELSE s
          [] s.inTag /\ i # 0 ->
                Drain(LeaveTag(s, Before(s.buf, i), After(s.buf, i, CloseTag)), force)
          [] s.inTag /\ i = 0 /\ force ->
                IF s.buf # <<>> THEN LeaveTag(s, s.buf, <<>>)
                ELSE [s EXCEPT !.inTag = FALSE, !.drop = FALSE, !.started = FALSE]
          [] OTHER ->
                IF Len(s.buf) > ThinkLimit
                THEN Hold(SendThought(s, SubSeq(s.buf, 1, n), FALSE), n) ELSE s

ProcessReasoning(s, text) ==
    IF ~req.thinking \/ ~ReasoningAllowed(s) THEN s
    ELSE LET c == [s EXCEPT !.src = "event"]
         IN  IF c.started THEN SendText(c, "event", text, 2)
             ELSE [SendText(c, "event", text, 1) EXCEPT !.started = TRUE, !.evOpen = TRUE]

CloseEventThinking(s) ==
    IF s.evOpen
    THEN [SendText(s, "event", <<>>, 3) EXCEPT !.evOpen = FALSE, !.started = FALSE]
    ELSE s

ProcessText(s, text, force) ==
    Drain([CloseEventThinking(s) EXCEPT !.buf = @ \o text], force)

-----------------------------------------------------------------------------
(* The callbacks of the upstream call.                                     *)

OnText(chunk) ==
    /\ phase = "open" /\ Len(raw) + Len(chunk) <= MaxRaw
    /\ st' = ProcessText(st, chunk, FALSE)
    /\ raw' = raw \o chunk
    /\ UNCHANGED <<req, heard, phase>>

OnReasoning(chunk) ==
    /\ phase = "open" /\ Len(heard) + Len(chunk) <= MaxHeard
    /\ st' = ProcessReasoning(st, chunk)
    /\ heard' = heard \o chunk
    /\ UNCHANGED <<req, raw, phase>>

\* A tool call is one whole block after everything that came before it.
ClaudeToolBlock(s) ==
    LET c == CloseActiveBlock(s)
    IN  [Send(Send(Send(c, [ev |-> "start", index |-> c.next, kind |-> Tool]),
                   Delta(c.next, Tool, Tool, <<Tool>>, "")),
              [ev |-> "stop", index |-> c.next]) EXCEPT !.next = @ + 1]

OpenAIToolChunk(s) == Send(s, Delta(NoBlock, Tool, Tool, <<Tool>>, ""))

OnToolUse ==
    /\ phase = "open" /\ Cardinality({i \in DOMAIN raw : raw[i] = Tool}) < MaxTools
    /\ LET s == ProcessText(st, <<>>, TRUE)
       IN  st' = IF req.api = "claude" THEN ClaudeToolBlock(s) ELSE OpenAIToolChunk(s)
    /\ raw' = Append(raw, Tool) /\ heard' = Append(heard, Tool)
    /\ UNCHANGED <<req, phase>>

-----------------------------------------------------------------------------
(* The end of the upstream call.                                           *)

\* Hands over what is held back and closes what is open.
Flush(s) == CloseActiveBlock(CloseEventThinking(ProcessText(s, <<>>, TRUE)))

Succeed ==
    /\ phase = "open"
    /\ st' = Send(Flush(st), [ev |-> "end"])
    /\ phase' = "done"
    /\ UNCHANGED <<req, raw, heard>>

\* The call fails after the answer has begun: the tail, then an error event.
FailMidAnswer ==
    /\ phase = "open" /\ st.begun
    /\ st' = Send(Flush(st), [ev |-> "error"])
    /\ phase' = "broken"
    /\ UNCHANGED <<req, raw, heard>>

\* The call fails before anything was sent: another attempt starts afresh.
\* How many there may be is the business of RequestFailover.
FailAndRetry ==
    /\ phase = "open" /\ ~st.begun
    /\ st' = FreshAttempt /\ raw' = <<>> /\ heard' = <<>>
    /\ UNCHANGED <<req, phase>>

\* No attempt is left: the client gets a plain error, no stream.
FailForGood ==
    /\ phase = "open" /\ ~st.begun
    /\ phase' = "refused"
    /\ UNCHANGED <<req, st, raw, heard>>

\* The client is gone: the handler returns at once.
Disconnect ==
    /\ phase = "open"
    /\ phase' = "gone"
    /\ UNCHANGED <<req, st, raw, heard>>

Next ==
    \/ \E chunk \in TextChunks : OnText(chunk)
    \/ \E chunk \in ReasoningChunks : OnReasoning(chunk)
    \/ OnToolUse
    \/ Succeed
    \/ FailMidAnswer
    \/ FailAndRetry
    \/ FailForGood
    \/ Disconnect

Spec == Init /\ [][Next]_vars

-----------------------------------------------------------------------------
(* What the client makes of the wire.                                      *)

Deltas == SelectSeq(st.wire, LAMBDA e : e.ev = "delta")

\* The characters that came from the given sources, in order of arrival.
Shown(sources) == FlattenSeq([i \in DOMAIN Deltas |->
                     IF Deltas[i].from \in sources THEN Deltas[i].text ELSE <<>>])

Ended == phase \in {"done", "broken"}

-----------------------------------------------------------------------------
(* Properties.                                                             *)

\* The attempt's variables fit together: a tag's content is only dropped in
\* a tag and only when native reasoning came first, an open native block is a
\* started one, and nothing is on the wire of an answer that has not begun.
StreamInv ==
    /\ phase \in {"open", "done", "broken", "refused", "gone"}
    /\ st.src \in {"unknown", "tag", "event"}
    /\ st.drop => st.inTag /\ st.src = "event"
    /\ st.evOpen => st.started /\ st.src = "event"
    /\ st.begun <=> st.wire # <<>>
    /\ (st.active = NoBlock) <=> (st.kind = "")
    /\ st.active < st.next

\* However the upstream cuts its text into chunks, the visible text of the
\* answer is that of one pass over the whole text, every tool call at its
\* place in it: what was sent plus what is held back, and all of it at the end.
TextExact ==
    LET held == SplitWhole(st.buf, st.inTag, TRUE).text
    IN  /\ Shown({"text", Tool}) \o held = SplitWhole(raw, FALSE, TRUE).text
        /\ Ended => held = <<>>

\* Thinking is shown from one source, the first to appear, and then
\* completely: all native reasoning, or all that stood between tags.
ThoughtExact ==
    LET source == IF st.src = "event" THEN "event" ELSE "tag"
        held == IF st.src = "event" THEN <<>> ELSE SplitWhole(st.buf, st.inTag, TRUE).thought
        all == IF st.src = "event" THEN heard ELSE SplitWhole(raw, FALSE, TRUE).thought
    IN  /\ Shown({"tag", "event"}) = Shown({source})
        /\ req.thinking /\ ~req.omit => Shown({source, Tool}) \o held = all
        /\ ~req.thinking => Shown({"tag", "event"}) = <<>>

\* The blocks of a Claude answer open one at a time under consecutive
\* indices, a delta goes to the open block and has its type, and no block is
\* open when the answer ends, by success or by an error in mid-answer.
BlocksWellFormed ==
    req.api = "claude" =>
      LET w == st.wire
          opens(i) == {j \in 1..i : w[j].ev = "start"}
          stops(i) == {j \in 1..i : w[j].ev = "stop"}
          open(i) == Cardinality(opens(i)) - Cardinality(stops(i))
      IN  /\ \A i \in DOMAIN w :
                /\ open(i) \in {0, 1}
                /\ w[i].ev = "start" => w[i].index = Cardinality(opens(i)) - 1
                /\ w[i].ev = "stop" => w[i].index = Cardinality(opens(i)) - 1
                /\ w[i].ev = "delta" =>
                      /\ open(i) = 1
                      /\ w[i].index = Cardinality(opens(i)) - 1
                      /\ \E j \in opens(i) : w[j].index = w[i].index /\ w[j].kind = w[i].kind
          /\ Ended => open(Len(w)) = 0

\* Where thinking is written between marks, <think> and </think>, the marks
\* alternate, enclose all of the thinking and none of the visible text, and
\* the last one is closed before a tool call and before the end.
MarksEnclose ==
    (req.thinking /\ ~req.omit /\ \E i \in DOMAIN Deltas : Deltas[i].mark # "") =>
      LET d == Deltas
          balance(i) == Cardinality({j \in 1..i : d[j].mark = "open"})
                        - Cardinality({j \in 1..i : d[j].mark = "close"})
      IN  /\ \A i \in DOMAIN d :
                /\ balance(i) \in {0, 1}
                /\ d[i].from \in {"text", Tool} => balance(i) = 0
                /\ d[i].from \in {"tag", "event"} /\ d[i].text # <<>> =>
                      balance(i) = 1 \/ d[i].mark = "close"
          /\ Ended => balance(Len(d)) = 0
=============================================================================
