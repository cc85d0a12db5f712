----------------------------- MODULE MCStreams -----------------------------
(* Small instances of ChatStream and ResponsesStream: two-character tags,  *)
(* chunks of one to three characters, the limits as tight as the tags      *)
(* allow, and blanks in front of the text of a response.  A behaviour runs *)
(* one of the two.                                                         *)
EXTENDS ChatStream

Opening == <<"<", "t">>
Closing == <<"<", "/", "t">>

Chunks == {<<"<">>, <<"t">>, <<"x">>, <<"/", "t">>, <<"x", "<", "/">>}
Reasons == {<<"r">>}

Asked(api, thinks, format, omit) ==
    [api |-> api, thinking |-> thinks, format |-> format, omit |-> omit]
Default == Asked("claude", TRUE, "thinking", FALSE)

AllRequests ==
    {Default, Asked("claude", TRUE, "thinking", TRUE),
     Asked("claude", TRUE, "think", FALSE), Asked("claude", FALSE, "thinking", FALSE),
     Asked("openai", TRUE, "think", FALSE), Asked("openai", TRUE, "reasoning_content", FALSE)}

VARIABLES which, thinking, response, said, thought, stage
responseVars == <<thinking, response, said, thought, stage>>

Responses == INSTANCE ResponsesStream WITH
    Thinking <- BOOLEAN, TextChunks <- (Chunks \ {<<"x">>}) \cup {<<"_", "x">>},
    ReasoningChunks <- {<<"_", "r">>}, Blank <- "_", MaxRaw <- 6, MaxHeard <- 4,
    st <- response, raw <- said, heard <- thought, phase <- stage

\* The part that does not run: a chat stays at its start, the response's variables empty.
NoResponse == thinking = 0 /\ response = 0 /\ said = 0 /\ thought = 0 /\ stage = 0

StreamsInit ==
    /\ Init
    /\ \/ which = "chat" /\ NoResponse
       \/ which = "responses" /\ Responses!Init /\ req = Default
StreamsNext ==
    \/ which = "chat" /\ Next /\ UNCHANGED <<which, responseVars>>
    \/ which = "responses" /\ Responses!Next /\ UNCHANGED <<which, vars>>
StreamsSpec == StreamsInit /\ [][StreamsNext]_<<which, vars, responseVars>>

\* However the upstream cuts its text into chunks, a chat answer shows the text and the thinking
\* of one pass over the whole text, in well-formed blocks and between balanced marks.
ChatExact == StreamInv /\ TextExact /\ ThoughtExact /\ BlocksWellFormed /\ MarksEnclose

\* The same for a Responses answer: its items stream one at a time, and the final text of each
\* equals its deltas.
ResponsesExact ==
  which = "responses" =>
    /\ Responses!ResponseInv /\ Responses!AnswerExact /\ Responses!ReasoningExact
    /\ Responses!OneItemAtATime /\ Responses!FinalTextIsStreamedText
=============================================================================
