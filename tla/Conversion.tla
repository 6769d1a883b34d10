------------------------------ MODULE Conversion ------------------------------
\* Between the OpenAI dialect callers speak and the Anthropic dialect of some
\* channels (protocol/anthropic.go): requests, whole answers and streamed answers.
\* Texts and arguments are sequences of pieces.
EXTENDS Naturals, Integers, SequencesExt

CONSTANTS Question,     \* OpenAI messages a request may hold
          Block,        \* content blocks an answer may hold
          MaxMessages, MaxBlocks

VARIABLES question,     \* a request's messages
          answer,       \* the channel's answer: blocks, stop_reason
          cut,          \* the stream ends after so many events, perhaps inside the next, and how
          source,       \* events not read yet
          out, stopped, err, toolIndex,    \* the stream transformer
          received, ended                  \* what its reader got

vars == <<question, answer, cut, source, out, stopped, err, toolIndex, received, ended>>

\* The members that pass the test: SelectSeq, which is built in and which the
\* provers cannot expand, by the operator of sequences they can.
Filter(s, Test(_)) == FlattenSeq([i \in 1..Len(s) |-> IF Test(s[i]) THEN <<s[i]>> ELSE <<>>])

-----------------------------------------------------------------------------
\* Requests. Message: role, content as a string (plain) or parts, tool calls.

Texts(parts) == FlattenSeq([i \in 1..Len(parts) |-> IF parts[i].type = "text" THEN parts[i].text ELSE <<>>])

\* Parts of unknown types, empty texts and images without an address vanish.
Carried(p) == p.type \in {"text", "image"} /\ p.text # <<>>
ConvertContent(m) == Filter(m.parts, Carried)
Named(call) == call.name # ""
ToolUse(calls) == Filter(calls, Named)

\* As a bug: a message without text is dropped before its calls are looked at.
ToAnthropicByText(m) ==
    IF m.role = "tool" THEN <<[role |-> "user", content |-> <<[type |-> "tool_result", id |-> m.id, text |-> Texts(m.parts)]>>]>>
    ELSE IF m.role \in {"user", "assistant"} /\ ConvertContent(m) # <<>>
      THEN <<[role |-> m.role, content |-> ConvertContent(m) \o ToolUse(m.calls)]>>
    ELSE <<>>

\* What becomes of one message: nothing when no content is left.
ToAnthropic(m) ==
    LET blocks == ConvertContent(m) \o ToolUse(m.calls)
    IN IF m.role = "tool" THEN <<[role |-> "user", content |-> <<[type |-> "tool_result", id |-> m.id, text |-> Texts(m.parts)]>>]>>
       ELSE IF m.role \in {"user", "assistant"} /\ blocks # <<>> THEN <<[role |-> m.role, content |-> blocks]>>
       ELSE <<>>

\* The last system message is the system prompt.
OpenAIToAnthropic(ms) ==
    LET systems == Filter(ms, LAMBDA m : m.role = "system")
    IN [system |-> IF systems = <<>> THEN <<>> ELSE Texts(Last(systems).parts),
        messages |-> FlattenSeq([i \in 1..Len(ms) |-> ToAnthropic(ms[i])])]

-----------------------------------------------------------------------------
\* Answers, whole.

Finish(reason) ==
    CASE reason = "max_tokens" -> "length"
      [] reason = "tool_use" -> "tool_calls"
      [] OTHER -> "stop"

Tools(blocks) == Filter(blocks, LAMBDA b : b.type = "tool_use")

\* An input that is left out reads as the empty object.
AnthropicToOpenAI(a) ==
    LET tools == Tools(a.blocks)
    IN [text |-> Texts(a.blocks),
        calls |-> [i \in 1..Len(tools) |-> [id |-> tools[i].id, args |-> IF tools[i].args = <<>> THEN <<"{}">> ELSE tools[i].args]],
        finish |-> IF tools # <<>> THEN "tool_calls" ELSE Finish(a.stop)]

\* Statuses of errors.
ErrorStatus(type) ==
    CASE type = "invalid_request_error" -> 400
      [] type \in {"authentication_error", "permission_error"} -> 401
      [] type = "not_found_error" -> 404
      [] type = "rate_limit_error" -> 429
      [] OTHER -> 500

-----------------------------------------------------------------------------
\* Answers, streamed. The events of an answer, one delta per piece; a relay may
\* leave the reason it stopped away.

BlockEvents(b, i) ==
    <<[event |-> "content_block_start", block |-> b, index |-> i]>>
    \o (IF b.type = "text" THEN [j \in 1..Len(b.text) |-> [event |-> "content_block_delta", type |-> "text_delta", piece |-> b.text[j]]]
        ELSE [j \in 1..Len(b.args) |-> [event |-> "content_block_delta", type |-> "input_json_delta", piece |-> b.args[j]]])
    \o <<[event |-> "content_block_stop"]>>

Closing(a) ==
    IF a.stop = "" THEN <<[event |-> "message_stop"]>>
    ELSE <<[event |-> "message_delta", stop |-> a.stop], [event |-> "message_stop"]>>

Events(a) ==
    <<[event |-> "message_start"], [event |-> "ping"]>>
    \o FlattenSeq([i \in 1..Len(a.blocks) |-> BlockEvents(a.blocks[i], i - 1)])
    \o Closing(a)

\* The events up to the one that ends the transformed stream.
Sufficient(a) == Len(Events(a)) + 1 - Len(Closing(a))

Chunk(kind, index, value) == [kind |-> kind, index |-> index, value |-> value]
Done == Chunk("done", 0, "")

\* As a bug: the place of the block instead of the place among the tools.
OpenByPlace(block, index) == index

\* toolIndex after a block is opened: only calls of tools count.
Opened(block, index) == IF block.type = "tool_use" THEN toolIndex + 1 ELSE toolIndex

HandleEvent(e) ==
    \/ /\ e.event = "error" /\ err' = ErrorStatus(e.type) /\ UNCHANGED <<out, stopped, toolIndex>>
    \/ /\ e.event = "message_start" /\ out' = <<Chunk("role", 0, "assistant")>>
       /\ UNCHANGED <<stopped, err, toolIndex>>
    \/ /\ e.event = "content_block_start" /\ toolIndex' = Opened(e.block, e.index)
       /\ out' = IF e.block.type = "tool_use" THEN <<Chunk("call", toolIndex', e.block.id)>> ELSE <<>>
       /\ UNCHANGED <<stopped, err>>
    \/ /\ e.event = "content_block_delta"
       /\ out' = <<IF e.type = "text_delta" THEN Chunk("text", 0, e.piece) ELSE Chunk("args", toolIndex, e.piece)>>
       /\ UNCHANGED <<stopped, err, toolIndex>>
    \/ /\ e.event = "message_delta" /\ out' = <<Chunk("finish", 0, Finish(e.stop)), Done>>
       /\ stopped' = TRUE /\ UNCHANGED <<err, toolIndex>>
    \/ /\ e.event = "message_stop" /\ out' = <<Done>> /\ stopped' = TRUE /\ UNCHANGED <<err, toolIndex>>
    \/ /\ e.event \in {"ping", "content_block_stop"} /\ UNCHANGED <<out, stopped, err, toolIndex>>

\* A read error hands on an event whose data was begun. What was read of the
\* data does not parse: a block's event is passed over, the others go on
\* without their fields.
HalfRead(e) ==
    CASE e.event \in {"content_block_start", "content_block_delta"} -> [event |-> "ping"]
      [] e.event = "message_delta" -> [event |-> "message_delta", stop |-> ""]
      [] OTHER -> e

\* The events that are handled: those before the cut, the one it falls in, and
\* the error that cuts. An event of which no data was read is none, one that
\* lacks its last line break is whole.
Script(a, c) ==
    SubSeq(Events(a), 1, c.after)
    \o IF c.how = "error" THEN <<[event |-> "error", type |-> "overloaded_error"]>>
       ELSE IF c.inside THEN <<HalfRead(Events(a)[c.after + 1])>> ELSE <<>>

Cuts(a) == {c \in [after : 0..Len(Events(a)), inside : BOOLEAN, how : {"eof", "broken", "error"}] :
               c.inside => c.how # "error" /\ c.after < Len(Events(a))}

Init ==
    /\ \/ /\ question \in BoundedSeq(Question, MaxMessages)
          /\ answer = [blocks |-> <<>>, stop |-> "end_turn"] /\ cut = [after |-> 0, inside |-> FALSE, how |-> "eof"]
       \/ /\ question = <<>>
          /\ answer \in [blocks : BoundedSeq(Block, MaxBlocks), stop : {"end_turn", "max_tokens", "tool_use", ""}]
          /\ cut \in Cuts(answer)
    /\ source = Script(answer, cut)
    /\ out = <<>> /\ stopped = FALSE /\ err = 0 /\ toolIndex = -1
    /\ received = <<>> /\ ended = "no"

Live == ended = "no" /\ out = <<>> /\ ~stopped /\ err = 0

\* Read: what is there is handed out; otherwise the next event is read.
Copy ==
    /\ out # <<>> /\ received' = Append(received, Head(out)) /\ out' = Tail(out)
    /\ UNCHANGED <<question, answer, cut, source, stopped, err, toolIndex, ended>>

NextEvent ==
    /\ Live /\ source # <<>>
    /\ HandleEvent(Head(source)) /\ source' = Tail(source)
    /\ UNCHANGED <<question, answer, cut, received, ended>>

\* The source ends, cleanly or not; a clean end looks like any other.
EndOfSource ==
    /\ Live /\ source = <<>>
    /\ IF cut.how = "broken" THEN err' = 1 /\ UNCHANGED stopped ELSE stopped' = TRUE /\ UNCHANGED err
    /\ UNCHANGED <<question, answer, cut, source, out, toolIndex, received, ended>>

Return ==
    /\ ended = "no" /\ out = <<>> /\ (stopped \/ err # 0)
    /\ ended' = IF err = 0 THEN "eof" ELSE "error"
    /\ UNCHANGED <<question, answer, cut, source, out, stopped, err, toolIndex, received>>

Next == Copy \/ NextEvent \/ EndOfSource \/ Return

Spec == Init /\ [][Next]_vars

-----------------------------------------------------------------------------
\* What the reader makes of the chunks.
Of(kind) == Filter(received, LAMBDA c : c.kind = kind)
Values(cs) == [i \in 1..Len(cs) |-> cs[i].value]
Calls ==
    [i \in 1..Len(Of("call")) |->
        [id |-> (CHOOSE c \in ToSet(Of("call")) : c.index = i - 1).value,
         args |-> Values(Filter(Of("args"), LAMBDA c : c.index = i - 1))]]

\* The places of the calls are 0, 1, ... in the order they were opened.
InPlace == \A i \in 1..Len(Of("call")) : Of("call")[i].index = i - 1

\* Answers for which the two forms agree: a call has input, and the model
\* stops for its tools if and only if it calls some.
Regular == \A t \in ToSet(Tools(answer.blocks)) : t.args # <<>>
Expected == answer.stop # "" /\ ((Tools(answer.blocks) # <<>>) <=> answer.stop = "tool_use")

\* Events handled, one the cut fell in included.
Handled == cut.after + IF cut.inside THEN 1 ELSE 0

\* A stream whose last block was read, and the beginning of what follows at
\* least, says what the answer would have said whole and says once, at the end,
\* that it is over; the reason it gives is the answer's if that was read whole.
\* Any other stream gives a beginning of the text, no reason and no end, and
\* what broke it off is an error.
StreamMatches ==
    LET whole == AnthropicToOpenAI(answer) IN
    ended # "no" =>
        /\ InPlace
        /\ IF Handled >= Sufficient(answer)
           THEN /\ ended = "eof" /\ Filter(received, LAMBDA c : c = Done) = <<Done>> /\ Last(received) = Done
                /\ Values(Of("text")) = whole.text
                /\ Regular => Calls = whole.calls
                /\ Expected /\ cut.after >= Sufficient(answer) => Values(Of("finish")) = <<whole.finish>>
           ELSE /\ Of("done") = <<>> /\ Of("finish") = <<>>
                /\ IsPrefix(Values(Of("text")), whole.text)
                /\ cut.how # "eof" => ended = "error"


\* Each result of a tool reaches the channel after the call it answers, if the
\* conversation had it so, also where a message held calls and nothing else.
Heard(ms) ==
    LET sent == OpenAIToAnthropic(ms).messages
    IN FlattenSeq([i \in 1..Len(sent) |-> sent[i].content])
Answers(ms) ==
    \A i \in 1..Len(ms) : ms[i].role = "tool" =>
        \E j \in 1..i - 1 : ms[j].role = "assistant" /\ \E call \in ToSet(ms[j].calls) : call.name # "" /\ call.id = ms[i].id
ResultsFollowCalls ==
    Answers(question) =>
        LET heard == Heard(question) IN
        \A i \in 1..Len(heard) : heard[i].type = "tool_result" =>
            \E j \in 1..i - 1 : heard[j].type = "tool_use" /\ heard[j].id = heard[i].id
=============================================================================
