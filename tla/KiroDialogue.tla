---------------------------- MODULE KiroDialogue ----------------------------
(***************************************************************************)
(* A dialogue of one client with Kiro through the proxy (main.go,          *)
(* parser/sse_parser.go): how the client's messages, in the form of        *)
(* Anthropic or of OpenAI, become the history and the current message that *)
(* Kiro is sent, and how the frames that Kiro answers with become a        *)
(* streamed answer or one collected answer, which the client puts among    *)
(* its messages and sends again in the next turn.                          *)
(*                                                                         *)
(* The proxy keeps nothing between turns: what Kiro knows of the dialogue  *)
(* is what each request tells it.  The handlers read the whole response    *)
(* before they parse it; here each frame is parsed, and both answers       *)
(* brought up to date, when Kiro sends it, which gives the same answers    *)
(* wherever the response ends.                                             *)
(*                                                                         *)
(* A text is a sequence of pieces, each written once, by the user, by Kiro *)
(* or by the proxy.  The input of a tool call is the sequence of the       *)
(* fragments it was sent in.  Left out: names of tools, the tools a        *)
(* request offers, models, token counts, and frames that are no JSON.      *)
(***************************************************************************)
EXTENDS Integers, Sequences, SequencesExt

CONSTANTS
  RequestCost,  \* bound: a dialogue may cost MaxCost, where a frame of Kiro costs 1
  MaxCost       \* and a request RequestCost

ASSUME DialogueAssumption == RequestCost \in Nat \ {0} /\ MaxCost \in Nat

VARIABLES
  api,       \* the API, and whether its answers are streamed
  system,    \* there is a system message
  messages,  \* client: the messages it will send
  at,        \* whose turn it is
  request,   \* Kiro: what it was sent
  calls,     \* Kiro: the tool calls of this response
  said,      \* Kiro: the text of this response
  answered,  \* the response has an event
  loop,      \* local variables of handleNonStreamRequest
  stream,    \* client: what it makes of the streamed events
  heard,     \* history: the dialogue as it was
  turns,     \* requests so far
  cost

responseVars == <<calls, said, answered, loop, stream>>
dialogueVars == <<api, system, messages, at, request, responseVars, heard, turns, cost>>

-----------------------------------------------------------------------------
\* Who wrote it, in which turn, and its number there.
Piece == {"user", "result", "kiro", "proxy"} \X Nat \X Nat

Text == Seq(Piece)

\* What getMessageContent says of a content without a text.
Default == << <<"proxy", 0, 1>> >>

\* What openAIRequestToAnthropic adds after an answer.
Continue == << <<"proxy", 0, 2>> >>

\* A content of a message: a string, a list of blocks, of which only the texts are
\* here, or the list of maps that openAIRequestToAnthropic makes.
Content == [form : {"string", "list", "maps"}, texts : Seq(Text)]

StringOf(text) == [form |-> "string", texts |-> <<text>>]

ListOf(texts) == [form |-> "list", texts |-> texts]

MapsOf(texts) == [form |-> "maps", texts |-> texts]

\* calls: how many tool calls an assistant message has.
Message == [role : {"user", "assistant", "tool"}, content : Content, calls : Nat]

MessageOf(role, content) == [role |-> role, content |-> content, calls |-> 0]

\* What Kiro is told of a message.
Entry == [role : {"user", "assistant"}, text : Text]

Said(role, text) == [role |-> role, text |-> text]

\* A tool call is known by its number in the response.
Fragment == Nat \X Nat

Call == [input : Seq(Fragment), done : BOOLEAN]

\* A tool call as a client gets it.
ToolUse == [id : Nat, input : Seq(Fragment)]

\* toolUseId is 0 before the first fragment of an input.
NewLoop == [context |-> <<>>, toolUseId |-> 0, partialJsonStr |-> <<>>, contexts |-> <<>>]

\* open: the indexes of the blocks that were started and not stopped.  ok: so far
\* no event was about a block that cannot be.
NewStream == [text |-> <<>>, calls |-> <<>>, open |-> {0}, ok |-> TRUE]

DialogueTypeOK ==
  /\ api \in {"anthropic", "anthropic stream", "openai"}
  /\ system \in BOOLEAN
  /\ messages \in Seq(Message)
  /\ at \in {"client", "kiro"}
  /\ request \in [history : Seq(Entry), current : Text]
  /\ calls \in Seq(Call)
  /\ said \in Text
  /\ answered \in BOOLEAN
  /\ loop \in [context : Text, toolUseId : Nat, partialJsonStr : Seq(Fragment),
               contexts : Seq(ToolUse)]
  /\ stream \in [text : Text, calls : Seq(ToolUse), open : SUBSET {0, 1}, ok : BOOLEAN]
  /\ heard \in Seq([role : {"user", "assistant"}, text : Text, vague : BOOLEAN])
  /\ turns \in Nat
  /\ cost \in 0..MaxCost

-----------------------------------------------------------------------------
(* From messages to a request.                                             *)

\* Bug: a content that is not understood is passed on as it is.
Bug_getMessageContent(content) ==
  IF content.form = "maps" THEN content.texts
  ELSE IF content.texts = <<>> \/ content = StringOf(<<>>) THEN Default
  ELSE FlattenSeq(content.texts)

getMessageContent(content) ==
  IF \/ content.form = "maps"
     \/ content.texts = <<>>
     \/ content = StringOf(<<>>)
  THEN Default
  ELSE FlattenSeq(content.texts)

openAIContentText(content) == FlattenSeq(content.texts)

\* The result of a tool, and the calls of an answer, become lists of maps.
OpenAIMessage(m) ==
  IF m.role = "tool"  THEN MessageOf("user", MapsOf(<<openAIContentText(m.content)>>))
  ELSE IF m.calls > 0 THEN MessageOf("assistant", MapsOf(<<>>))
  ELSE MessageOf(m.role, StringOf(openAIContentText(m.content)))

openAIRequestToAnthropic(ms) ==
  LET converted == [i \in DOMAIN ms |-> OpenAIMessage(ms[i])]
  IN  IF Last(converted).role = "user"
      THEN converted
      ELSE Append(converted, MessageOf("user", StringOf(Continue)))

Instructions ==
  IF system
  THEN << Said("user", << <<"proxy", 0, 3>> >>),
          Said("assistant", << <<"proxy", 0, 4>> >>) >>
  ELSE <<>>

\* Bug: also the current message is looked at for an answer.
Bug_Exchange(ms, i) ==
  LET Told(j) == Said(ms[j].role, getMessageContent(ms[j].content))
  IN  IF ms[i].role # "user" THEN <<>>
      ELSE IF ms[i + 1].role = "assistant" THEN <<Told(i), Told(i + 1)>>
      ELSE <<Told(i)>>

\* One round of the loop over all messages but the last: a user message, with the
\* answer that follows it.
Exchange(ms, i) ==
  LET Told(j) == Said(ms[j].role, getMessageContent(ms[j].content))
  IN  IF ms[i].role # "user" THEN <<>>
      ELSE IF i + 1 < Len(ms) /\ ms[i + 1].role = "assistant"
      THEN <<Told(i), Told(i + 1)>>
      ELSE <<Told(i)>>

buildCodeWhispererRequest(ms) ==
  [history |-> Instructions \o FlattenSeq([i \in 1..(Len(ms) - 1) |-> Exchange(ms, i)]),
   current |-> getMessageContent(Last(ms).content)]

\* The handlers of /v1/messages and /v1/chat/completions, up to the call.
Send(ms) ==
  /\ at = "client"
  /\ cost + RequestCost =< MaxCost
  /\ cost' = cost + RequestCost
  /\ turns' = turns + 1
  /\ at' = "kiro"
  /\ messages' = ms
  /\ request' = buildCodeWhispererRequest(
                  IF api = "openai" THEN openAIRequestToAnthropic(ms) ELSE ms)
  /\ UNCHANGED <<api, system, responseVars>>

-----------------------------------------------------------------------------
(* From frames to answers.                                                 *)

\* The fields of assistantResponseEvent; what is empty is absent.
NoFrame == [content |-> <<>>, tool |-> 0, input |-> <<>>, stop |-> FALSE]

Event(type, f) == [type |-> type, id |-> f.tool, text |-> f.content, fragment |-> f.input]

\* Bug: the end of a call is not told from its start.
Bug_convertAssistantEventToSSE(f) ==
  CASE f.content # <<>> -> Event("text_delta", f)
    [] f.content = <<>> /\ f.tool > 0 /\ f.input = <<>> -> Event("content_block_start", f)
    [] f.content = <<>> /\ f.tool > 0 /\ f.input # <<>> -> Event("input_json_delta", f)
    [] OTHER -> Event("none", f)

\* Texts are deltas of block 0, all else is about block 1.
convertAssistantEventToSSE(f) ==
  CASE f.content # <<>>             -> Event("text_delta", f)
    [] f.content = <<>> /\ f.stop   -> Event("content_block_stop", f)
    [] f.content = <<>> /\ ~f.stop /\ f.tool > 0 /\ f.input = <<>>
                                    -> Event("content_block_start", f)
    [] f.content = <<>> /\ ~f.stop /\ f.tool > 0 /\ f.input # <<>>
                                    -> Event("input_json_delta", f)
    [] OTHER                        -> Event("none", f)

\* The fragments of one input, all of them, are JSON; those of two are not, and leave
\* toolInput empty.
Parsed(json) == IF \E i \in DOMAIN calls : calls[i].input = json THEN json ELSE <<>>

\* Bug: the id of a call is not remembered.
Bug_Collect(l, e) ==
  CASE e.type = "content_block_start" -> [l EXCEPT !.context = <<>>]
    [] e.type = "text_delta"          -> [l EXCEPT !.context = Append(@, e.text)]
    [] e.type = "input_json_delta"    ->
         [l EXCEPT !.partialJsonStr = Append(@, e.fragment)]
    [] e.type = "content_block_stop"  ->
         [l EXCEPT !.contexts =
            Append(@, [id |-> l.toolUseId, input |-> Parsed(l.partialJsonStr)])]
    [] e.type = "none"                -> l

\* One round of the loop of handleNonStreamRequest.  partialJsonStr is never reset.
Collect(l, e) ==
  CASE e.type = "content_block_start" -> [l EXCEPT !.context = <<>>]
    [] e.type = "text_delta"          -> [l EXCEPT !.context = Append(@, e.text)]
    [] e.type = "input_json_delta"    ->
         [l EXCEPT !.toolUseId = e.id, !.partialJsonStr = Append(@, e.fragment)]
    [] e.type = "content_block_stop"  ->
         [l EXCEPT !.contexts =
            Append(@, [id |-> l.toolUseId, input |-> Parsed(l.partialJsonStr)])]
    [] e.type = "none"                -> l

\* The text of the collected answer: the fallback, since no event stops block 0.
CollectedText == IF loop.contexts = <<>> THEN loop.context ELSE <<>>

\* What a client makes of the events of handleStreamRequest, by their block.  Every
\* tool call is block 1; the client takes one that starts anew as another block.
Assemble(s, e) ==
  CASE e.type = "content_block_start" ->
         [s EXCEPT !.calls = Append(@, [id |-> e.id, input |-> <<>>]),
                   !.open = @ \cup {1}, !.ok = @ /\ 1 \notin s.open]
    [] e.type = "text_delta" -> [s EXCEPT !.text = Append(@, e.text)]
    [] e.type = "input_json_delta" ->
         IF 1 \in s.open
         THEN [s EXCEPT !.calls[Len(s.calls)].input = Append(@, e.fragment)]
         ELSE [s EXCEPT !.ok = FALSE]
    [] e.type = "content_block_stop" ->
         [s EXCEPT !.open = @ \ {1}, !.ok = @ /\ 1 \in s.open]
    [] e.type = "none" -> s

\* Kiro sends a frame, which ParseEvents makes an event of.
Frame(f) ==
  /\ at = "kiro"
  /\ cost < MaxCost
  /\ cost' = cost + 1
  /\ answered' = TRUE
  /\ loop' = Collect(loop, convertAssistantEventToSSE(f))
  /\ stream' = Assemble(stream, convertAssistantEventToSSE(f))
  /\ UNCHANGED <<api, system, messages, at, request, heard, turns>>

\* Kiro is within a tool call, the last one.
Calling == calls # <<>> /\ ~Last(calls).done

KiroSpeaks ==
  LET piece == <<"kiro", turns, Len(said) + 1>> IN
  /\ ~Calling
  /\ said' = Append(said, piece)
  /\ Frame([NoFrame EXCEPT !.content = piece])
  /\ UNCHANGED calls

KiroCalls ==
  /\ ~Calling
  /\ calls' = Append(calls, [input |-> <<>>, done |-> FALSE])
  /\ Frame([NoFrame EXCEPT !.tool = Len(calls) + 1])
  /\ UNCHANGED said

KiroGivesInput ==
  LET fragment == <<Len(calls), Len(Last(calls).input) + 1>> IN
  /\ Calling
  /\ calls' = [calls EXCEPT ![Len(calls)].input = Append(@, fragment)]
  /\ Frame([NoFrame EXCEPT !.tool = Len(calls), !.input = fragment])
  /\ UNCHANGED said

KiroEndsCall ==
  /\ Calling
  /\ calls' = [calls EXCEPT ![Len(calls)].done = TRUE]
  /\ Frame([NoFrame EXCEPT !.tool = Len(calls), !.stop = TRUE])
  /\ UNCHANGED said

\* A frame with none of the fields that are looked at.
KiroNotes ==
  /\ Frame(NoFrame)
  /\ UNCHANGED <<said, calls>>

-----------------------------------------------------------------------------
(* The client.                                                             *)

\* The two forms of OpenAI's answer say the same: a collected answer has no text when
\* it has calls.
AssistantMessage ==
  CASE api = "openai" ->
         [MessageOf("assistant", StringOf(CollectedText))
            EXCEPT !.calls = Len(loop.contexts)]
    [] api = "anthropic stream" ->
         [MessageOf("assistant", ListOf(<<stream.text>>)) EXCEPT !.calls = Len(stream.calls)]
    [] api = "anthropic" ->
         [MessageOf("assistant",
                    ListOf(IF CollectedText = <<>> THEN <<>> ELSE <<CollectedText>>))
            EXCEPT !.calls = Len(loop.contexts)]

\* What was said, and whether the client's message may be without it: it is empty, or
\* it is a collected answer with a tool call.
HeardAnswer ==
  [role |-> "assistant", text |-> said,
   vague |-> said = <<>> \/ (api # "anthropic stream" /\ calls # <<>>)]

HeardUser(text) == [role |-> "user", text |-> text, vague |-> text = <<>>]

EndTurn ==
  /\ at = "kiro"
  /\ at' = "client"
  /\ calls' = <<>>
  /\ said' = <<>>
  /\ answered' = FALSE
  /\ loop' = NewLoop
  /\ stream' = NewStream
  /\ UNCHANGED <<api, system, request, turns, cost>>

\* The response ends, or is cut off, anywhere.  Nothing is streamed without an event.
EndResponse ==
  /\ EndTurn
  /\ answered \/ api # "anthropic stream"
  /\ messages' = Append(messages, AssistantMessage)
  /\ heard' = Append(heard, HeardAnswer)

\* Kiro, or a call to it, fails: the client is told so, and keeps its message.
Refuse ==
  /\ EndTurn
  /\ ~answered
  /\ UNCHANGED <<messages, heard>>

\* The user writes something, as a string or as a list of blocks, or nothing.
Ask ==
  LET text == << <<"user", turns, 1>> >> IN
  \E content \in {StringOf(text), ListOf(<<text>>), StringOf(<<>>)} :
    /\ Send(Append(messages, MessageOf("user", content)))
    /\ heard' = Append(heard, HeardUser(content.texts[1]))

HasCalls == messages # <<>> /\ Last(messages).calls > 0

\* The results of all calls of the last answer: for Anthropic blocks of one message,
\* whose contents are strings, or lists, which getMessageContent passes over.
ReturnBlocks ==
  LET result == <<"result", turns, 1>> IN
  /\ api # "openai" /\ HasCalls
  /\ \E results \in {<<>>, [i \in 1..Last(messages).calls |-> <<result>>]} :
       /\ Send(Append(messages, MessageOf("user", ListOf(results))))
       /\ heard' = Append(heard, [role |-> "user", text |-> FlattenSeq(results),
                                  vague |-> results = <<>>])

\* For OpenAI a message each.
ReturnMessages ==
  LET result == << <<"result", turns, 1>> >>
      Each(x) == [i \in 1..Last(messages).calls |-> x]
  IN
  /\ api = "openai" /\ HasCalls
  /\ Send(messages \o Each(MessageOf("tool", StringOf(result))))
  /\ heard' = heard \o Each([role |-> "user", text |-> result, vague |-> TRUE])

\* The last message is an answer, which Kiro is to continue.
ContinueAnswer ==
  /\ messages # <<>> /\ Last(messages).role = "assistant"
  /\ Send(messages)
  /\ UNCHANGED heard

-----------------------------------------------------------------------------
\* A dialogue may begin with a greeting of the assistant.
DialogueInit ==
  /\ api \in {"anthropic", "anthropic stream", "openai"}
  /\ system \in BOOLEAN
  /\ \E greeting \in {<<>>, << <<"kiro", 0, 0>> >>} :
       IF greeting = <<>>
       THEN messages = <<>> /\ heard = <<>>
       ELSE /\ messages = <<MessageOf("assistant", StringOf(greeting))>>
            /\ heard = <<[role |-> "assistant", text |-> greeting, vague |-> FALSE]>>
  /\ at = "client"
  /\ request = [history |-> <<>>, current |-> <<>>]
  /\ calls = <<>>
  /\ said = <<>>
  /\ answered = FALSE
  /\ loop = NewLoop
  /\ stream = NewStream
  /\ turns = 0
  /\ cost = 0

ClientStep == Ask \/ ReturnBlocks \/ ReturnMessages \/ ContinueAnswer

KiroStep ==
  \/ KiroSpeaks \/ KiroCalls \/ KiroGivesInput \/ KiroEndsCall \/ KiroNotes
  \/ EndResponse \/ Refuse

DialogueNext == ClientStep \/ KiroStep

DialogueSpec == DialogueInit /\ [][DialogueNext]_dialogueVars

-----------------------------------------------------------------------------
(* Properties.                                                             *)

\* The dialogue that Kiro is asked to go on with.
Current ==
  IF api = "openai" /\ Last(heard).role = "assistant"
  THEN Append(heard, HeardUser(Continue))
  ELSE heard

\* What the requests tell of it: the greeting, and an answer that continues another,
\* follow no user message and are left out.
Told ==
  {i \in DOMAIN Current :
     \/ i = Len(Current)
     \/ Current[i].role = "user"
     \/ i > 1 /\ Current[i - 1].role = "user"}

\* The place of message i among those told.
Place(i) == Cardinality({j \in Told : j <= i})

Faithful(text, h) == text = h.text \/ (text = Default /\ h.vague)

\* Kiro, which the proxy has to tell everything anew in every turn, is told the
\* dialogue as it was, in order, after the instructions, each question with the answer
\* that Kiro gave it.  Left out or replaced by a phrase is only what Told and vague
\* say, over turns that failed, were cut off or continued, and in both APIs.
ContextIsTold ==
  at = "kiro" =>
    LET n == Len(Current)  k == Len(Instructions) IN
    /\ Len(request.history) = k + Cardinality(Told) - 1
    /\ SubSeq(request.history, 1, k) = Instructions
    /\ \A i \in Told \ {n} :
         /\ request.history[k + Place(i)].role = Current[i].role
         /\ Faithful(request.history[k + Place(i)].text, Current[i])
    /\ Faithful(request.current, Current[n])

\* Wherever the response ends, the events of a stream are those of whole blocks up to
\* there, and say what Kiro said and called.
StreamTellsAnswer ==
  /\ stream.ok
  /\ stream.open = IF Calling THEN {0, 1} ELSE {0}
  /\ stream.text = said
  /\ stream.calls = [i \in DOMAIN calls |-> [id |-> i, input |-> calls[i].input]]

NoInputBefore(i) == \A j \in 1..(i - 1) : calls[j].input = <<>>

\* The collected answer, of which OpenAI's is made, has the whole text, or none if a
\* tool was called, and it has the calls that were ended, in order.  The id of a call is
\* its own if it has an input, and its input is right as long as no call before it had
\* one.
CollectedTellsAnswer ==
  /\ CollectedText = IF calls = <<>> THEN said ELSE <<>>
  /\ Len(loop.contexts) = Len(calls) - (IF Calling THEN 1 ELSE 0)
  /\ \A i \in DOMAIN loop.contexts :
       /\ calls[i].input # <<>> => loop.contexts[i].id = i
       /\ NoInputBefore(i) => loop.contexts[i].input = calls[i].input
=============================================================================
