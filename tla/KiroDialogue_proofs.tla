------------------------ MODULE KiroDialogue_proofs ------------------------
(***************************************************************************)
(* Proofs about KiroDialogue, for responses and dialogues of any length:   *)
(* that a streamed answer says, wherever the response ends, what Kiro said *)
(* and called; what a collected answer keeps of it; and that the requests  *)
(* tell Kiro the dialogue.                                                 *)
(*                                                                         *)
(* Both answers are read off the same events.  Response is the invariant:  *)
(* what the loop over the events has in its variables when the next event  *)
(* comes, of which the property only shows what has gone into the answer.  *)
(*                                                                         *)
(* Of requests the invariant is Dialogue: the client's messages match what *)
(* was heard, one by one (an answer since Response holds when it ends),    *)
(* and Kiro has been sent what these messages say.  What the loop of       *)
(* buildCodeWhispererRequest makes of them is shown round by round, Tells, *)
(* for sequences of messages of any length: FlattenSeq is a recursive      *)
(* function, whose values are reasoned about by a least counterexample.    *)
(***************************************************************************)
EXTENDS KiroDialogue, SequenceTheorems, FiniteSetTheorems, TLAPS

USE DialogueAssumption DEF DialogueAssumption

\* The types of what belongs to a response.
ResponseTypes ==
  /\ calls \in Seq(Call)
  /\ said \in Text
  /\ stream \in [text : Text, calls : Seq(ToolUse), open : SUBSET {0, 1}, ok : BOOLEAN]
  /\ loop \in [context : Text, toolUseId : Nat, partialJsonStr : Seq(Fragment),
               contexts : Seq(ToolUse)]
  /\ turns \in Nat

\* What the loop holds of the calls so far: nothing of a text before a call, the id of
\* a call once it has an input, and its input if it is the first to have one.
LoopOK ==
  /\ calls = <<>> => loop.context = said /\ loop.partialJsonStr = <<>>
  /\ Calling => loop.context = <<>>
  /\ calls # <<>> =>
       LET n == Len(calls) IN
       /\ calls[n].input # <<>> => loop.toolUseId = n
       /\ NoInputBefore(n) => loop.partialJsonStr = calls[n].input

Response == ResponseTypes /\ LoopOK /\ CollectedTellsAnswer

-----------------------------------------------------------------------------
(* What a frame of each kind does.                                         *)

\* Kiro says something.
LEMMA Speaking ==
  ASSUME Response, KiroSpeaks
  PROVE  \E c \in Piece :
           /\ said' = Append(said, c) /\ calls' = calls /\ turns' = turns /\ ~Calling
           /\ loop' = [loop EXCEPT !.context = Append(@, c)]
           /\ stream' = [stream EXCEPT !.text = Append(@, c)]
<1> DEFINE c == <<"kiro", turns, Len(said) + 1>>
           e == convertAssistantEventToSSE([NoFrame EXCEPT !.content = c])
<1>1. c \in Piece /\ c # <<>>
  BY DEF Response, ResponseTypes, Piece, Text
<1>2. /\ said' = Append(said, c) /\ calls' = calls /\ turns' = turns /\ ~Calling
      /\ loop' = Collect(loop, e) /\ stream' = Assemble(stream, e)
  BY DEF KiroSpeaks, Frame
<1>3. e.type = "text_delta" /\ e.text = c
  <2> HIDE DEF c
  <2>1. QED
    BY <1>1 DEF convertAssistantEventToSSE, NoFrame, Event
<1> HIDE DEF c, e
<1>4. /\ loop' = [loop EXCEPT !.context = Append(@, e.text)]
      /\ stream' = [stream EXCEPT !.text = Append(@, e.text)]
  BY <1>2, <1>3 DEF Collect, Assemble
<1>5. QED
  BY <1>1, <1>2, <1>3, <1>4

\* Kiro calls a tool.
LEMMA Starting ==
  ASSUME Response, KiroCalls
  PROVE  /\ calls' = Append(calls, [input |-> <<>>, done |-> FALSE])
         /\ said' = said /\ turns' = turns /\ ~Calling
         /\ loop' = [loop EXCEPT !.context = <<>>]
         /\ stream' = [stream EXCEPT !.calls = Append(@, [id |-> Len(calls) + 1, input |-> <<>>]),
                                     !.open = @ \cup {1}, !.ok = @ /\ 1 \notin stream.open]
<1> DEFINE n == Len(calls) + 1
           e == convertAssistantEventToSSE([NoFrame EXCEPT !.tool = n])
<1>1. n \in Nat \ {0}
  BY DEF Response, ResponseTypes
<1>2. /\ calls' = Append(calls, [input |-> <<>>, done |-> FALSE])
      /\ said' = said /\ turns' = turns /\ ~Calling
      /\ loop' = Collect(loop, e) /\ stream' = Assemble(stream, e)
  BY DEF KiroCalls, Frame
<1>3. e.type = "content_block_start" /\ e.id = n
  <2> HIDE DEF n
  <2>1. QED
    BY <1>1 DEF convertAssistantEventToSSE, NoFrame, Event
<1> HIDE DEF e
<1>4. /\ loop' = [loop EXCEPT !.context = <<>>]
      /\ stream' = [stream EXCEPT !.calls = Append(@, [id |-> e.id, input |-> <<>>]),
                                  !.open = @ \cup {1}, !.ok = @ /\ 1 \notin stream.open]
  BY <1>2, <1>3 DEF Collect, Assemble
<1>5. QED
  BY <1>2, <1>3, <1>4

\* Kiro gives a part of the input of the last call.
LEMMA Giving ==
  ASSUME Response, KiroGivesInput
  PROVE  \E x \in Fragment :
           /\ calls' = [calls EXCEPT ![Len(calls)].input = Append(@, x)]
           /\ said' = said /\ turns' = turns /\ Calling
           /\ loop' = [loop EXCEPT !.toolUseId = Len(calls), !.partialJsonStr = Append(@, x)]
           /\ stream' = IF 1 \in stream.open
                        THEN [stream EXCEPT !.calls[Len(stream.calls)].input = Append(@, x)]
                        ELSE [stream EXCEPT !.ok = FALSE]
<1> DEFINE n == Len(calls)
           x == <<Len(calls), Len(Last(calls).input) + 1>>
           e == convertAssistantEventToSSE([NoFrame EXCEPT !.tool = n, !.input = x])
<1>1. n \in Nat \ {0} /\ x \in Fragment /\ x # <<>>
  <2>1. calls \in Seq(Call) /\ calls # <<>>
    BY DEF Response, ResponseTypes, KiroGivesInput, Calling
  <2>2. Last(calls) \in Call
    BY <2>1 DEF Last
  <2>3. Len(Last(calls).input) \in Nat
    BY <2>2 DEF Call
  <2>4. QED
    BY <2>1, <2>3 DEF Fragment
<1>2. /\ calls' = [calls EXCEPT ![n].input = Append(@, x)]
      /\ said' = said /\ turns' = turns /\ Calling
      /\ loop' = Collect(loop, e) /\ stream' = Assemble(stream, e)
  BY DEF KiroGivesInput, Frame
<1> HIDE DEF n, x
<1>3. e.type = "input_json_delta" /\ e.id = n /\ e.fragment = x
  BY <1>1 DEF convertAssistantEventToSSE, NoFrame, Event
<1> HIDE DEF e
<1>4. /\ loop' = [loop EXCEPT !.toolUseId = e.id, !.partialJsonStr = Append(@, e.fragment)]
      /\ stream' = IF 1 \in stream.open
                   THEN [stream EXCEPT !.calls[Len(stream.calls)].input = Append(@, e.fragment)]
                   ELSE [stream EXCEPT !.ok = FALSE]
  BY <1>2, <1>3 DEF Collect, Assemble
<1>5. QED
  BY <1>1, <1>2, <1>3, <1>4 DEF n

\* Kiro ends the last call.
LEMMA Ending ==
  ASSUME Response, KiroEndsCall
  PROVE  /\ calls' = [calls EXCEPT ![Len(calls)].done = TRUE]
         /\ said' = said /\ turns' = turns /\ Calling
         /\ loop' = [loop EXCEPT !.contexts =
                       Append(@, [id |-> loop.toolUseId, input |-> Parsed(loop.partialJsonStr)])]
         /\ stream' = [stream EXCEPT !.open = @ \ {1}, !.ok = @ /\ 1 \in stream.open]
<1> DEFINE n == Len(calls)
           e == convertAssistantEventToSSE([NoFrame EXCEPT !.tool = n, !.stop = TRUE])
<1>1. /\ calls' = [calls EXCEPT ![n].done = TRUE]
      /\ said' = said /\ turns' = turns /\ Calling
      /\ loop' = Collect(loop, e) /\ stream' = Assemble(stream, e)
  BY DEF KiroEndsCall, Frame
<1> HIDE DEF n
<1>2. e.type = "content_block_stop"
  BY DEF convertAssistantEventToSSE, NoFrame, Event
<1> HIDE DEF e
<1>3. /\ loop' = [loop EXCEPT !.contexts =
                    Append(@, [id |-> loop.toolUseId, input |-> Parsed(loop.partialJsonStr)])]
      /\ stream' = [stream EXCEPT !.open = @ \ {1}, !.ok = @ /\ 1 \in stream.open]
  BY <1>1, <1>2 DEF Collect, Assemble
<1>4. QED
  BY <1>1, <1>3 DEF n

\* All else of Kiro and of the client leaves the response alone, or ends it.
LEMMA Others ==
  ASSUME Response, KiroNotes \/ ClientStep
  PROVE  UNCHANGED <<said, calls, loop, stream>> /\ turns' \in Nat
<1>1. CASE KiroNotes
  <2> DEFINE e == convertAssistantEventToSSE(NoFrame)
  <2>1. /\ UNCHANGED <<said, calls, turns>>
        /\ loop' = Collect(loop, e) /\ stream' = Assemble(stream, e)
    BY <1>1 DEF KiroNotes, Frame
  <2>2. e.type = "none"
    BY DEF convertAssistantEventToSSE, NoFrame, Event
  <2> HIDE DEF e
  <2>3. QED
    BY <2>1, <2>2 DEF Collect, Assemble, Response, ResponseTypes
<1>2. CASE ClientStep
  <2>1. UNCHANGED responseVars /\ turns' = turns + 1
    BY <1>2 DEF ClientStep, Ask, ReturnBlocks, ReturnMessages, ContinueAnswer, Send
  <2>2. QED
    BY <2>1 DEF responseVars, Response, ResponseTypes
<1>3. QED
  BY <1>1, <1>2

-----------------------------------------------------------------------------
(* The response, step by step.                                             *)

\* Between two responses nothing was said, called or collected.
Fresh == said = <<>> /\ calls = <<>> /\ loop = NewLoop /\ stream = NewStream

LEMMA FreshIsRight == Fresh /\ turns \in Nat => Response /\ StreamTellsAnswer
<1> SUFFICES ASSUME Fresh, turns \in Nat PROVE Response /\ StreamTellsAnswer
  OBVIOUS
<1>1. /\ loop.context = <<>> /\ loop.toolUseId = 0 /\ loop.partialJsonStr = <<>>
      /\ loop.contexts = <<>>
      /\ stream.text = <<>> /\ stream.calls = <<>> /\ stream.open = {0} /\ stream.ok
  BY DEF Fresh, NewLoop, NewStream
<1>2. ~Calling
  BY DEF Fresh, Calling
<1>3. ResponseTypes
  BY DEF Fresh, NewLoop, NewStream, ResponseTypes, Text
<1>4. LoopOK /\ CollectedTellsAnswer
  BY <1>1, <1>2 DEF Fresh, LoopOK, CollectedTellsAnswer, CollectedText
<1>5. StreamTellsAnswer
  BY <1>1, <1>2 DEF Fresh, StreamTellsAnswer
<1>6. QED
  BY <1>3, <1>4, <1>5 DEF Response

\* What the types say of the parts.
LEMMA Parts ==
  ASSUME Response
  PROVE  /\ calls \in Seq(Call) /\ Len(calls) \in Nat
         /\ \A i \in 1..Len(calls) : /\ calls[i] \in Call
                                     /\ calls[i].input \in Seq(Fragment)
                                     /\ calls[i].done \in BOOLEAN
         /\ calls # <<>> <=> Len(calls) > 0
         /\ Calling <=> Len(calls) > 0 /\ ~calls[Len(calls)].done
         /\ said \in Text /\ turns \in Nat
         /\ loop.context \in Text /\ loop.toolUseId \in Nat
         /\ loop.partialJsonStr \in Seq(Fragment) /\ loop.contexts \in Seq(ToolUse)
         /\ stream.text \in Text /\ stream.calls \in Seq(ToolUse)
         /\ stream.open \in SUBSET {0, 1} /\ stream.ok \in BOOLEAN
<1>1. calls \in Seq(Call)
  BY DEF Response, ResponseTypes
<1>2. \A i \in 1..Len(calls) : calls[i] \in Call
  BY <1>1
<1>3. calls # <<>> <=> Len(calls) > 0
  BY <1>1
<1>4. Calling <=> Len(calls) > 0 /\ ~calls[Len(calls)].done
  BY <1>3 DEF Calling, Last
<1>5. QED
  BY <1>1, <1>2, <1>3, <1>4 DEF Response, ResponseTypes, Call

\* What the stream says of the calls, call by call.
LEMMA StreamParts ==
  ASSUME Response, StreamTellsAnswer
  PROVE  /\ Len(stream.calls) = Len(calls)
         /\ \A i \in 1..Len(calls) :
              stream.calls[i] = [id |-> i, input |-> calls[i].input]
         /\ stream.ok /\ stream.text = said
         /\ Calling => stream.open = {0, 1} /\ 1 \in stream.open
         /\ ~Calling => stream.open = {0} /\ 1 \notin stream.open
<1>1. DOMAIN stream.calls = DOMAIN calls
  BY DEF StreamTellsAnswer
<1>2. DOMAIN calls = 1..Len(calls) /\ DOMAIN stream.calls = 1..Len(stream.calls)
  BY Parts
<1>3. Len(calls) \in Nat /\ Len(stream.calls) \in Nat
  BY Parts
<1>4. Len(stream.calls) = Len(calls)
  BY <1>1, <1>2, <1>3
<1>5. QED
  BY <1>2, <1>4 DEF StreamTellsAnswer

\* A part of the input is all that changes of a call.
LEMMA InputGiven ==
  ASSUME NEW r, NEW i, NEW f, NEW g, r = [id |-> i, input |-> f]
  PROVE  [r EXCEPT !.input = g] = [id |-> i, input |-> g]
OBVIOUS

LEMMA TellsCalls ==
  ASSUME NEW s \in Seq(ToolUse), NEW c \in Seq(Call), Len(s) = Len(c),
         \A i \in 1..Len(c) : s[i] = [id |-> i, input |-> c[i].input]
  PROVE  s = [i \in DOMAIN c |-> [id |-> i, input |-> c[i].input]]
<1>1. s \in [1..Len(c) -> ToolUse] /\ DOMAIN c = 1..Len(c)
  BY LenProperties
<1>2. QED
  BY <1>1

LEMMA SpeakingKeeps ==
  ASSUME Response, StreamTellsAnswer, KiroSpeaks
  PROVE  (Response /\ StreamTellsAnswer)'
<1>1. PICK c \in Piece :
        /\ said' = Append(said, c) /\ calls' = calls /\ turns' = turns /\ ~Calling
        /\ loop' = [loop EXCEPT !.context = Append(@, c)]
        /\ stream' = [stream EXCEPT !.text = Append(@, c)]
  BY Speaking
<1>2. /\ loop'.context = Append(loop.context, c) /\ loop'.toolUseId = loop.toolUseId
      /\ loop'.partialJsonStr = loop.partialJsonStr /\ loop'.contexts = loop.contexts
      /\ stream'.text = Append(stream.text, c) /\ stream'.calls = stream.calls
      /\ stream'.open = stream.open /\ stream'.ok = stream.ok
  BY <1>1 DEF Response, ResponseTypes
<1>3. ~Calling'
  BY <1>1 DEF Calling
<1>4. ResponseTypes'
  <2>1. said' \in Text
    BY <1>1, Parts DEF Text
  <2>2. Append(loop.context, c) \in Text /\ Append(stream.text, c) \in Text
    BY Parts DEF Text
  <2>3. /\ loop' \in [context : Text, toolUseId : Nat, partialJsonStr : Seq(Fragment),
                      contexts : Seq(ToolUse)]
        /\ stream' \in [text : Text, calls : Seq(ToolUse), open : SUBSET {0, 1},
                        ok : BOOLEAN]
    BY <1>1, <2>2 DEF Response, ResponseTypes
  <2>4. QED
    BY <1>1, <2>1, <2>3 DEF Response, ResponseTypes
<1>5. LoopOK'
  BY <1>1, <1>2, <1>3 DEF Response, LoopOK, NoInputBefore
<1>6. CollectedTellsAnswer'
  <2>1. calls # <<>> => loop.contexts # <<>>
    BY <1>1, Parts DEF Response, CollectedTellsAnswer
  <2>2. CollectedText' = IF calls = <<>> THEN said' ELSE <<>>
    BY <1>1, <1>2, <2>1, Parts DEF Response, LoopOK, CollectedText, CollectedTellsAnswer
  <2>3. QED
    BY <1>1, <1>2, <1>3, <2>2 DEF Response, CollectedTellsAnswer, NoInputBefore
<1>7. StreamTellsAnswer'
  BY <1>1, <1>2, <1>3 DEF StreamTellsAnswer
<1>8. QED
  BY <1>4, <1>5, <1>6, <1>7 DEF Response

LEMMA StartingKeeps ==
  ASSUME Response, StreamTellsAnswer, KiroCalls
  PROVE  (Response /\ StreamTellsAnswer)'
<1> DEFINE n == Len(calls)
<1>1. /\ calls' = Append(calls, [input |-> <<>>, done |-> FALSE])
      /\ said' = said /\ turns' = turns /\ ~Calling
      /\ loop' = [loop EXCEPT !.context = <<>>]
      /\ stream' = [stream EXCEPT !.calls = Append(@, [id |-> n + 1, input |-> <<>>]),
                                  !.open = @ \cup {1}, !.ok = @ /\ 1 \notin stream.open]
  BY Starting
<1>2. /\ loop'.context = <<>> /\ loop'.toolUseId = loop.toolUseId
      /\ loop'.partialJsonStr = loop.partialJsonStr /\ loop'.contexts = loop.contexts
  BY <1>1 DEF Response, ResponseTypes
<1>3. /\ stream'.text = stream.text
      /\ stream'.calls = Append(stream.calls, [id |-> n + 1, input |-> <<>>])
      /\ stream'.open = stream.open \cup {1} /\ stream'.ok = (stream.ok /\ 1 \notin stream.open)
  BY <1>1 DEF Response, ResponseTypes
<1>4. /\ n \in Nat /\ Len(calls') = n + 1
      /\ calls'[n + 1].input = <<>> /\ ~calls'[n + 1].done
      /\ \A i \in 1..n : calls'[i] = calls[i]
  BY <1>1, Parts
<1>5. Calling'
  BY <1>1, <1>4, Parts DEF Calling, Last
<1>6. ResponseTypes'
  <2>1. calls' \in Seq(Call)
    BY <1>1, Parts DEF Call
  <2>2. stream' \in [text : Text, calls : Seq(ToolUse), open : SUBSET {0, 1}, ok : BOOLEAN]
    <3>1. Append(stream.calls, [id |-> n + 1, input |-> <<>>]) \in Seq(ToolUse)
      BY <1>4, Parts DEF ToolUse
    <3>2. QED
      BY <1>1, <3>1 DEF Response, ResponseTypes
  <2>3. loop' \in [context : Text, toolUseId : Nat, partialJsonStr : Seq(Fragment),
                   contexts : Seq(ToolUse)]
    <3>1. <<>> \in Text
      BY DEF Text
    <3>2. QED
      BY <1>1, <3>1 DEF Response, ResponseTypes
  <2>4. QED
    BY <1>1, <2>1, <2>2, <2>3 DEF Response, ResponseTypes
<1>7. LoopOK'
  <2>1. ASSUME \A j \in 1..n : calls[j].input = <<>> PROVE loop.partialJsonStr = <<>>
    BY <2>1, <1>4, Parts DEF Response, LoopOK, NoInputBefore
  <2>2. QED
    BY <1>2, <1>4, <2>1 DEF LoopOK, NoInputBefore
<1>8. CollectedTellsAnswer'
  <2>1. Len(loop.contexts) = n
    BY <1>1, <1>4 DEF Response, CollectedTellsAnswer
  <2>2. CollectedText' = <<>>
    BY <1>2 DEF CollectedText
  <2>3. QED
    BY <1>1, <1>2, <1>4, <1>5, <2>1, <2>2, Parts DEF Response, CollectedTellsAnswer, NoInputBefore
<1>9. StreamTellsAnswer'
  <2>1. stream'.open = {0, 1} /\ stream'.text = said'
    BY <1>1, <1>3, StreamParts
  <2>4. stream'.ok
    <3>1. stream.ok /\ 1 \notin stream.open
      BY <1>1, StreamParts
    <3>2. QED
      BY <1>3, <3>1, Zenon
  <2>2. stream'.calls = [i \in DOMAIN calls' |-> [id |-> i, input |-> calls'[i].input]]
    BY <1>3, <1>4, StreamParts, Parts
  <2>3. QED
    BY <1>5, <2>1, <2>2, <2>4 DEF StreamTellsAnswer
<1>10. QED
  BY <1>6, <1>7, <1>8, <1>9 DEF Response

LEMMA GivingKeeps ==
  ASSUME Response, StreamTellsAnswer, KiroGivesInput
  PROVE  (Response /\ StreamTellsAnswer)'
<1> DEFINE n == Len(calls)
<1>1. PICK x \in Fragment :
        /\ calls' = [calls EXCEPT ![n].input = Append(@, x)]
        /\ said' = said /\ turns' = turns /\ Calling
        /\ loop' = [loop EXCEPT !.toolUseId = n, !.partialJsonStr = Append(@, x)]
        /\ stream' = IF 1 \in stream.open
                     THEN [stream EXCEPT !.calls[Len(stream.calls)].input = Append(@, x)]
                     ELSE [stream EXCEPT !.ok = FALSE]
  BY Giving
<1>2. n \in Nat \ {0} /\ calls \in Seq(Call) /\ ~calls[n].done
  BY <1>1, Parts
<1>3. /\ Len(calls') = n /\ calls' \in Seq(Call)
      /\ calls'[n].input = Append(calls[n].input, x) /\ ~calls'[n].done
      /\ \A i \in 1..(n - 1) : calls'[i] = calls[i]
  <2> DEFINE c == [calls[n] EXCEPT !.input = Append(@, x)]
  <2>1. calls[n] \in Call /\ Append(calls[n].input, x) \in Seq(Fragment)
    BY <1>2, Parts
  <2>2. c \in Call /\ c.input = Append(calls[n].input, x) /\ c.done = calls[n].done
    BY <2>1 DEF Call
  <2>3. calls' = [calls EXCEPT ![n] = c]
    BY <1>1
  <2> HIDE DEF c
  <2>4. /\ calls' \in Seq(Call) /\ Len(calls') = n
        /\ \A i \in 1..n : calls'[i] = IF i = n THEN c ELSE calls[i]
    BY <1>2, <2>2, <2>3, ExceptSeq
  <2>5. QED
    BY <1>2, <2>2, <2>4
<1>4. /\ loop'.context = loop.context /\ loop'.toolUseId = n
      /\ loop'.partialJsonStr = Append(loop.partialJsonStr, x)
      /\ loop'.contexts = loop.contexts
  BY <1>1 DEF Response, ResponseTypes
<1>5. stream' = [stream EXCEPT !.calls[n].input = Append(@, x)]
  BY <1>1, StreamParts
<1>6. /\ stream'.text = stream.text /\ stream'.open = stream.open /\ stream'.ok = stream.ok
      /\ stream'.calls = [stream.calls EXCEPT ![n].input = Append(@, x)]
  BY <1>5 DEF Response, ResponseTypes
<1>7. /\ Len(stream'.calls) = n /\ stream'.calls \in Seq(ToolUse)
      /\ \A i \in 1..n : stream'.calls[i] = [id |-> i, input |-> calls'[i].input]
  <2> DEFINE c == [id |-> n, input |-> calls'[n].input]
  <2>1. stream.calls \in Seq(ToolUse) /\ Len(stream.calls) = n
    BY StreamParts, Parts
  <2>2. stream.calls[n] = [id |-> n, input |-> calls[n].input]
    BY <1>2, StreamParts
  <2>3. stream'.calls = [stream.calls EXCEPT ![n] = c]
    <3>1. stream'.calls = [stream.calls EXCEPT ![n] = [stream.calls[n] EXCEPT
                             !.input = Append(stream.calls[n].input, x)]]
      BY <1>6
    <3>2. stream.calls[n].input = calls[n].input
      BY <2>2
    <3>3. [stream.calls[n] EXCEPT !.input = calls'[n].input] = c
      BY <2>2, InputGiven
    <3>4. QED
      BY <1>3, <3>1, <3>2, <3>3
  <2>4. calls'[n] \in Call
    BY <1>2, <1>3
  <2>5. c \in ToolUse
    BY <1>2, <2>4 DEF ToolUse, Call
  <2> HIDE DEF c
  <2>6. /\ stream'.calls \in Seq(ToolUse) /\ Len(stream'.calls) = n
        /\ \A i \in 1..n : stream'.calls[i] = IF i = n THEN c ELSE stream.calls[i]
    BY <1>2, <2>1, <2>3, <2>5, ExceptSeq
  <2>7. ASSUME NEW i \in 1..n
        PROVE  stream'.calls[i] = [id |-> i, input |-> calls'[i].input]
    <3>1. CASE i = n
      BY <2>6, <3>1 DEF c
    <3>2. CASE i # n
      <4>1. i \in 1..(n - 1)
        BY <1>2, <3>2
      <4>2. QED
        BY <1>3, <2>6, <3>2, <4>1, StreamParts
    <3>3. QED
      BY <3>1, <3>2
  <2>8. QED
    BY <2>6, <2>7
<1>8. Calling'
  BY <1>2, <1>3 DEF Calling, Last
<1>9. ResponseTypes'
  <2>1. Append(loop.partialJsonStr, x) \in Seq(Fragment)
    BY Parts
  <2>2. loop' \in [context : Text, toolUseId : Nat, partialJsonStr : Seq(Fragment),
                   contexts : Seq(ToolUse)]
    BY <1>1, <1>2, <2>1 DEF Response, ResponseTypes
  <2>3. stream' = [stream EXCEPT !.calls = stream'.calls]
    BY <1>5 DEF Response, ResponseTypes
  <2>4. stream' \in [text : Text, calls : Seq(ToolUse), open : SUBSET {0, 1}, ok : BOOLEAN]
    BY <1>7, <2>3 DEF Response, ResponseTypes
  <2>5. QED
    BY <1>1, <1>3, <2>2, <2>4 DEF Response, ResponseTypes
<1>10. LoopOK'
  <2>1. calls' # <<>> /\ calls # <<>> /\ loop'.context = <<>>
    BY <1>1, <1>2, <1>3, <1>4 DEF Response, LoopOK
  <2>2. ASSUME NoInputBefore(n)'
        PROVE  loop'.partialJsonStr = calls'[n].input
    <3>1. NoInputBefore(n)
      BY <1>2, <1>3, <2>2 DEF NoInputBefore
    <3>2. loop.partialJsonStr = calls[n].input
      BY <2>1, <3>1 DEF Response, LoopOK
    <3>3. QED
      BY <1>3, <1>4, <3>2
  <2>3. QED
    BY <1>3, <1>4, <1>8, <2>1, <2>2 DEF LoopOK
<1>11. CollectedTellsAnswer'
  <2>1. /\ calls # <<>> /\ calls' # <<>> /\ CollectedText' = CollectedText
        /\ DOMAIN loop.contexts = 1..(n - 1) /\ Len(loop.contexts) = n - 1
    <3>1. Len(loop.contexts) = n - 1
      BY <1>1, <1>2 DEF Response, CollectedTellsAnswer
    <3>2. DOMAIN loop.contexts = 1..(n - 1)
      BY <3>1, Parts, LenProperties
    <3>3. calls # <<>> /\ calls' # <<>> /\ CollectedText' = CollectedText
      BY <1>2, <1>3, <1>4 DEF CollectedText
    <3>4. QED
      BY <3>1, <3>2, <3>3
  <2>2. ASSUME NEW i \in 1..(n - 1)
        PROVE  /\ calls'[i].input # <<>> => loop'.contexts[i].id = i
               /\ NoInputBefore(i)' => loop'.contexts[i].input = calls'[i].input
    <3>1. calls'[i] = calls[i] /\ \A j \in 1..(i - 1) : calls'[j] = calls[j]
      BY <1>2, <1>3
    <3>2. NoInputBefore(i)' => NoInputBefore(i)
      BY <3>1 DEF NoInputBefore
    <3>3. QED
      BY <1>4, <2>1, <3>1, <3>2 DEF Response, CollectedTellsAnswer
  <2>3. CollectedText' = IF calls' = <<>> THEN said' ELSE <<>>
    BY <2>1 DEF Response, CollectedTellsAnswer
  <2>4. Len(loop'.contexts) = Len(calls') - (IF Calling' THEN 1 ELSE 0)
    BY <1>3, <1>4, <1>8, <2>1
  <2>5. DOMAIN loop'.contexts = 1..(n - 1)
    BY <1>4, <2>1
  <2>6. \A i \in DOMAIN loop'.contexts :
          /\ calls'[i].input # <<>> => loop'.contexts[i].id = i
          /\ NoInputBefore(i)' => loop'.contexts[i].input = calls'[i].input
    BY <2>2, <2>5
  <2>7. QED
    BY <2>3, <2>4, <2>6 DEF CollectedTellsAnswer
<1>12. StreamTellsAnswer'
  <2>1. stream'.ok /\ stream'.open = {0, 1} /\ stream'.text = said'
    BY <1>1, <1>6, StreamParts
  <2>2. stream'.calls = [i \in DOMAIN calls' |-> [id |-> i, input |-> calls'[i].input]]
    <3>1. /\ stream'.calls \in Seq(ToolUse) /\ calls' \in Seq(Call)
          /\ Len(stream'.calls) = Len(calls')
          /\ \A i \in 1..Len(calls') :
               stream'.calls[i] = [id |-> i, input |-> calls'[i].input]
      BY <1>3, <1>7
    <3>2. QED
      BY <3>1, TellsCalls
  <2>3. QED
    BY <1>8, <2>1, <2>2 DEF StreamTellsAnswer
<1>13. QED
  BY <1>9, <1>10, <1>11, <1>12 DEF Response

LEMMA EndingKeeps ==
  ASSUME Response, StreamTellsAnswer, KiroEndsCall
  PROVE  (Response /\ StreamTellsAnswer)'
<1> DEFINE n == Len(calls)
           got == [id |-> loop.toolUseId, input |-> Parsed(loop.partialJsonStr)]
<1>1. /\ calls' = [calls EXCEPT ![n].done = TRUE]
      /\ said' = said /\ turns' = turns /\ Calling
      /\ loop' = [loop EXCEPT !.contexts = Append(@, got)]
      /\ stream' = [stream EXCEPT !.open = @ \ {1}, !.ok = @ /\ 1 \in stream.open]
  BY Ending
<1>2. n \in Nat \ {0} /\ calls \in Seq(Call) /\ ~calls[n].done
  BY <1>1, Parts
<1>3. /\ Len(calls') = n /\ calls' \in Seq(Call) /\ calls'[n].done
      /\ \A i \in 1..n : calls'[i].input = calls[i].input
  <2> DEFINE c == [calls[n] EXCEPT !.done = TRUE]
  <2>1. calls[n] \in Call
    BY <1>2, Parts
  <2>2. c \in Call /\ c.input = calls[n].input /\ c.done
    BY <2>1 DEF Call
  <2>3. calls' = [calls EXCEPT ![n] = c]
    BY <1>1
  <2> HIDE DEF c
  <2>4. /\ calls' \in Seq(Call) /\ Len(calls') = n
        /\ \A i \in 1..n : calls'[i] = IF i = n THEN c ELSE calls[i]
    BY <1>2, <2>2, <2>3, ExceptSeq
  <2>5. QED
    BY <1>2, <2>2, <2>4
<1>4. got \in ToolUse
  <2>1. Parsed(loop.partialJsonStr) \in Seq(Fragment)
    BY Parts DEF Parsed
  <2>2. QED
    BY <2>1, Parts DEF ToolUse
<1>5. /\ loop.contexts \in Seq(ToolUse) /\ Len(loop.contexts) = n - 1
      /\ loop'.contexts = Append(loop.contexts, got)
  BY <1>1, <1>2, Parts DEF Response, ResponseTypes, CollectedTellsAnswer
<1>6. /\ loop'.contexts # <<>> /\ Len(loop'.contexts) = n /\ DOMAIN loop'.contexts = 1..n
      /\ loop'.contexts[n] = got /\ loop'.contexts \in Seq(ToolUse)
      /\ \A i \in 1..(n - 1) : loop'.contexts[i] = loop.contexts[i]
  <2> HIDE DEF got
  <2>1. /\ loop'.contexts \in Seq(ToolUse) /\ Len(loop'.contexts) = n
        /\ loop'.contexts[n] = got
        /\ \A i \in 1..(n - 1) : loop'.contexts[i] = loop.contexts[i]
    BY <1>2, <1>4, <1>5
  <2>2. QED
    BY <1>2, <2>1, LenProperties
<1>7. /\ loop'.context = loop.context /\ loop'.toolUseId = loop.toolUseId
      /\ loop'.partialJsonStr = loop.partialJsonStr
      /\ calls # <<>> /\ calls' # <<>>
  BY <1>1, <1>2, <1>3 DEF Response, ResponseTypes
<1>8. stream'.text = stream.text /\ stream'.calls = stream.calls /\ stream'.open = {0}
  <2>1. /\ stream'.text = stream.text /\ stream'.calls = stream.calls
        /\ stream'.open = stream.open \ {1}
    BY <1>1 DEF Response, ResponseTypes
  <2>2. QED
    BY <1>1, <2>1, StreamParts
<1>9. stream'.ok
  <2>1. stream.ok /\ 1 \in stream.open
    BY <1>1, StreamParts
  <2>2. stream'.ok = (stream.ok /\ 1 \in stream.open)
    BY <1>1 DEF Response, ResponseTypes
  <2>3. QED
    BY <2>1, <2>2, Zenon
<1>10. ~Calling'
  BY <1>2, <1>3 DEF Calling, Last
<1>11. ASSUME NEW i \in 1..n PROVE NoInputBefore(i)' <=> NoInputBefore(i)
  <2>1. \A j \in 1..(i - 1) : calls'[j].input = calls[j].input
    BY <1>2, <1>3
  <2>2. QED
    BY <2>1 DEF NoInputBefore
<1>12. ResponseTypes'
  <2>1. loop' \in [context : Text, toolUseId : Nat, partialJsonStr : Seq(Fragment),
                   contexts : Seq(ToolUse)]
    <3>1. Append(loop.contexts, got) \in Seq(ToolUse)
      BY <1>5, <1>6
    <3> HIDE DEF got
    <3>2. QED
      BY <1>1, <3>1 DEF Response, ResponseTypes
  <2>2. stream' \in [text : Text, calls : Seq(ToolUse), open : SUBSET {0, 1}, ok : BOOLEAN]
    BY <1>1 DEF Response, ResponseTypes
  <2>3. QED
    BY <1>1, <1>3, <2>1, <2>2 DEF Response, ResponseTypes
<1>13. LoopOK'
  <2>1. /\ calls[n].input # <<>> => loop.toolUseId = n
        /\ NoInputBefore(n) => loop.partialJsonStr = calls[n].input
    BY <1>7 DEF Response, LoopOK
  <2>2. n \in 1..n
    BY <1>2
  <2>3. /\ calls'[n].input # <<>> => loop'.toolUseId = n
        /\ NoInputBefore(n)' => loop'.partialJsonStr = calls'[n].input
    BY <1>3, <1>7, <1>11, <2>1, <2>2 DEF NoInputBefore
  <2>4. QED
    BY <1>3, <1>7, <1>10, <2>3 DEF LoopOK
<1>14. CollectedTellsAnswer'
  <2>1. CollectedText' = <<>>
    BY <1>6 DEF CollectedText
  <2>2. /\ calls'[n].input # <<>> => got.id = n
        /\ NoInputBefore(n) => got.input = calls'[n].input
    <3>1. n \in DOMAIN calls
      BY <1>2
    <3>2. NoInputBefore(n) => got.input = calls[n].input
      BY <1>7, <3>1 DEF Response, LoopOK, Parsed
    <3>3. calls[n].input # <<>> => got.id = n
      BY <1>7 DEF Response, LoopOK
    <3>4. QED
      BY <1>2, <1>3, <3>2, <3>3
  <2>3. ASSUME NEW i \in 1..n
        PROVE  /\ calls'[i].input # <<>> => loop'.contexts[i].id = i
               /\ NoInputBefore(i)' => loop'.contexts[i].input = calls'[i].input
    <3> HIDE DEF got
    <3>1. CASE i = n
      BY <1>6, <1>11, <2>2, <3>1
    <3>2. CASE i # n
      <4>1. i \in 1..(n - 1) /\ i \in DOMAIN loop.contexts
        BY <1>2, <1>5, <3>2, LenProperties
      <4>2. /\ calls[i].input # <<>> => loop.contexts[i].id = i
            /\ NoInputBefore(i) => loop.contexts[i].input = calls[i].input
        BY <4>1 DEF Response, CollectedTellsAnswer
      <4>3. QED
        BY <1>3, <1>6, <1>11, <4>1, <4>2
    <3>3. QED
      BY <3>1, <3>2
  <2>4. Len(loop'.contexts) = Len(calls') - (IF Calling' THEN 1 ELSE 0)
    BY <1>2, <1>3, <1>6, <1>10
  <2>5. \A i \in DOMAIN loop'.contexts :
          /\ calls'[i].input # <<>> => loop'.contexts[i].id = i
          /\ NoInputBefore(i)' => loop'.contexts[i].input = calls'[i].input
    BY <1>6, <2>3
  <2>6. QED
    BY <1>7, <2>1, <2>4, <2>5 DEF CollectedTellsAnswer
<1>15. StreamTellsAnswer'
  <2>1. /\ stream'.calls \in Seq(ToolUse) /\ Len(stream'.calls) = Len(calls')
        /\ \A i \in 1..Len(calls') :
             stream'.calls[i] = [id |-> i, input |-> calls'[i].input]
    BY <1>3, <1>8, StreamParts, Parts
  <2>2. stream'.calls = [i \in DOMAIN calls' |-> [id |-> i, input |-> calls'[i].input]]
    BY <1>3, <2>1, TellsCalls
  <2>3. stream'.text = said'
    BY <1>1, <1>8, StreamParts
  <2>4. QED
    BY <1>8, <1>9, <1>10, <2>2, <2>3 DEF StreamTellsAnswer
<1>16. QED
  BY <1>12, <1>13, <1>14, <1>15 DEF Response

LEMMA OthersKeep ==
  ASSUME Response, StreamTellsAnswer,
         UNCHANGED <<said, calls, loop, stream>>, turns' \in Nat
  PROVE  (Response /\ StreamTellsAnswer)'
BY DEF Response, ResponseTypes, LoopOK, CollectedTellsAnswer, CollectedText, NoInputBefore,
       StreamTellsAnswer, Calling

\* A step keeps what is right, or ends the response.
LEMMA DialogueStep ==
  ASSUME Response, StreamTellsAnswer, [DialogueNext]_dialogueVars
  PROVE  (Response /\ StreamTellsAnswer)' \/ (Fresh /\ turns \in Nat)'
<1>1. CASE KiroNotes \/ ClientStep
  BY <1>1, Others, OthersKeep
<1>2. CASE EndResponse \/ Refuse
  BY <1>2, Parts DEF EndResponse, Refuse, EndTurn, Fresh
<1>3. CASE UNCHANGED dialogueVars
  <2>1. UNCHANGED <<said, calls, loop, stream>> /\ turns' \in Nat
    BY <1>3, Parts DEF dialogueVars, responseVars
  <2>2. QED
    BY <2>1, OthersKeep
<1>4. QED
  BY <1>1, <1>2, <1>3, SpeakingKeeps, StartingKeeps, GivingKeeps, EndingKeeps
  DEF DialogueNext, KiroStep

LEMMA FreshAtFirst == DialogueInit => Fresh /\ turns \in Nat
<1> SUFFICES ASSUME DialogueInit PROVE Fresh /\ turns \in Nat
  OBVIOUS
<1>1. said = <<>> /\ calls = <<>> /\ loop = NewLoop /\ stream = NewStream /\ turns = 0
  BY Zenon DEF DialogueInit
<1>2. QED
  BY <1>1 DEF Fresh

\* Wherever a response of Kiro ends, however long it is and however many calls it has,
\* the events that handleStreamRequest has sent are those of whole blocks, and say what
\* Kiro said and called.
THEOREM StreamIsTheAnswer == DialogueSpec => []StreamTellsAnswer
BY FreshAtFirst, FreshIsRight, DialogueStep, PTL DEF DialogueSpec

\* The answer that handleNonStreamRequest collects has all texts or all calls that were
\* ended, the id of each that has an input, and the input of the first that has one.
THEOREM CollectedIsTheAnswer == DialogueSpec => []CollectedTellsAnswer
<1>1. Response => CollectedTellsAnswer
  BY DEF Response
<1>2. QED
  BY <1>1, FreshAtFirst, FreshIsRight, DialogueStep, PTL DEF DialogueSpec

-----------------------------------------------------------------------------
(* What FlattenSeq returns.  What fails for some length fails for a least  *)
(* one.                                                                    *)

Less == {p \in Nat \X Nat : p[1] < p[2]}

LEMMA LessWF == IsWellFoundedOn(Less, Nat)
<1>1. IsWellFoundedOn(OpToRel(<, Nat), Nat)
  BY NatLessThanWellFounded
<1>2. OpToRel(<, Nat) = Less
  BY DEF OpToRel, Less
<1>3. QED
  BY <1>1, <1>2

LEMMA Least ==
  ASSUME NEW T \in SUBSET Nat, T # {}
  PROVE  \E x \in T : \A y \in T : x <= y
<1>1. PICK x \in T : \A y \in T : <<y, x>> \notin Less
  BY LessWF, WFMin
<1>2. ASSUME NEW y \in T PROVE x <= y
  <2>1. x \in Nat /\ y \in Nat /\ <<y, x>> \in Nat \X Nat
    OBVIOUS
  <2>2. <<y, x>>[1] = y /\ <<y, x>>[2] = x
    OBVIOUS
  <2>3. ~(y < x)
    BY <1>1, <2>1, <2>2 DEF Less
  <2>4. QED
    BY <2>1, <2>3
<1>3. QED
  BY <1>2

\* f[i] is the first i of the sequences s, one after the other.
Joins(f, s, S, m) ==
  /\ f \in [1..m -> Seq(S)]
  /\ f[1] = s[1]
  /\ \A i \in 2..m : f[i] = f[i - 1] \o s[i]

LEMMA Joined ==
  ASSUME NEW S, NEW s \in Seq(Seq(S)), NEW n \in Nat, n > 0, n <= Len(s)
  PROVE  \E f : Joins(f, s, S, n)
<1> DEFINE bad == {m \in 1..n : ~ \E f : Joins(f, s, S, m)}
<1> SUFFICES ASSUME bad # {} PROVE FALSE
  <2>1. n \in 1..n
    OBVIOUS
  <2>2. n \notin bad => \E f : Joins(f, s, S, n)
    BY <2>1
  <2>3. QED
    BY <2>2
<1>1. \A i \in 1..n : s[i] \in Seq(S)
  OBVIOUS
<1>2. PICK m \in bad : \A k \in bad : m <= k
  <2>1. bad \in SUBSET Nat
    OBVIOUS
  <2>2. QED
    BY <2>1, Least
<1>3. m \in 1..n /\ ~ \E f : Joins(f, s, S, m)
  BY <1>2
<1>4. CASE m = 1
  <2> DEFINE f == [i \in 1..1 |-> s[1]]
  <2>1. f \in [1..1 -> Seq(S)] /\ f[1] = s[1] /\ 2..1 = {}
    BY <1>1
  <2>2. Joins(f, s, S, 1)
    BY <2>1 DEF Joins
  <2>3. QED
    BY <1>3, <1>4, <2>2
<1>5. CASE m # 1
  <2>1. m \in Nat /\ m - 1 \in 1..n /\ m \in 2..n /\ ~(m <= m - 1)
    BY <1>3, <1>5
  <2>2. PICK f : Joins(f, s, S, m - 1)
    <3>1. m - 1 \notin bad
      BY <1>2, <2>1
    <3>2. QED
      BY <2>1, <3>1
  <2> DEFINE x == f[m - 1] \o s[m]
             g == [i \in 1..m |-> IF i = m THEN x ELSE f[i]]
  <2>3. f \in [1..(m - 1) -> Seq(S)] /\ f[1] = s[1]
    BY <2>2 DEF Joins
  <2>4. f[m - 1] \in Seq(S) /\ s[m] \in Seq(S) /\ m - 1 \in 1..(m - 1)
    BY <1>1, <2>1, <2>3
  <2>5. x \in Seq(S)
    BY <2>4
  <2> HIDE DEF x
  <2>6. g \in [1..m -> Seq(S)] /\ g[m] = x /\ \A i \in 1..(m - 1) : g[i] = f[i]
    BY <2>1, <2>3, <2>5
  <2>7. ASSUME NEW i \in 2..m PROVE g[i] = g[i - 1] \o s[i]
    <3>1. CASE i = m
      <4>1. g[m - 1] = f[m - 1]
        BY <2>4, <2>6
      <4>2. QED
        BY <2>6, <3>1, <4>1 DEF x
    <3>2. CASE i # m
      <4>1. i \in 2..(m - 1) /\ i - 1 \in 1..(m - 1) /\ i \in 1..(m - 1)
        BY <2>1, <3>2
      <4>2. f[i] = f[i - 1] \o s[i]
        BY <2>2, <4>1 DEF Joins
      <4>3. QED
        BY <2>6, <4>1, <4>2
    <3>3. QED
      BY <3>1, <3>2
  <2>8. g[1] = s[1]
    BY <2>1, <2>3, <2>6
  <2>9. Joins(g, s, S, m)
    <3> HIDE DEF g
    <3>1. QED
      BY <2>6, <2>7, <2>8 DEF Joins
  <2>10. QED
    BY <1>3, <2>9
<1>6. QED
  BY <1>4, <1>5

LEMMA FlattenJoins ==
  ASSUME NEW S, NEW s \in Seq(Seq(S)), s # <<>>
  PROVE  \E f : Joins(f, s, S, Len(s)) /\ FlattenSeq(s) = f[Len(s)]
<1> DEFINE n == Len(s)
           Step(h) == [i \in 1..n |-> IF i = 1 THEN s[i] ELSE h[i - 1] \o s[i]]
           f == CHOOSE h : h = Step(h)
<1>1. n \in Nat /\ n > 0
  OBVIOUS
<1>2. PICK g : Joins(g, s, S, n)
  BY <1>1, Joined
<1>3. g \in [1..n -> Seq(S)] /\ g[1] = s[1] /\ \A i \in 2..n : g[i] = g[i - 1] \o s[i]
  BY <1>2 DEF Joins
<1>0. \A i \in 1..n : i = 1 \/ (i # 1 /\ i \in 2..n)
  BY <1>1
<1>4. \A i \in 1..n : g[i] = IF i = 1 THEN s[i] ELSE g[i - 1] \o s[i]
  BY <1>0, <1>3
<1>5. g = Step(g)
  BY <1>3, <1>4
<1>6. f = Step(f)
  BY <1>5
<1>7. FlattenSeq(s) = f[n]
  BY <1>1 DEF FlattenSeq
<1> HIDE DEF f
<1>8. \A i \in 1..n : f[i] = IF i = 1 THEN s[i] ELSE f[i - 1] \o s[i]
  BY <1>6
<1>13. 1 \in 1..n /\ \A i \in 2..n : i \in 1..n /\ i # 1
  BY <1>1
<1>9. f[1] = s[1] /\ \A i \in 2..n : f[i] = f[i - 1] \o s[i]
  BY <1>8, <1>13
<1> DEFINE bad == {m \in 1..n : f[m] # g[m]}
<1>10. ASSUME bad # {} PROVE FALSE
  <2>1. PICK m \in bad : \A k \in bad : m <= k
    <3>1. bad \in SUBSET Nat
      OBVIOUS
    <3>2. QED
      BY <1>10, <3>1, Least
  <2>2. m \in 1..n /\ f[m] # g[m] /\ m # 1
    BY <1>3, <1>9, <2>1
  <2>3. m \in 2..n /\ m - 1 \in 1..n /\ ~(m <= m - 1)
    BY <1>1, <2>2
  <2>6. m - 1 \notin bad
    BY <2>1, <2>3
  <2>4. f[m - 1] = g[m - 1]
    BY <2>3, <2>6
  <2>5. QED
    BY <1>3, <1>9, <2>2, <2>3, <2>4
<1>11. f = g
  <2>1. f = [i \in 1..n |-> f[i]]
    BY <1>6
  <2>2. \A i \in 1..n : f[i] = g[i]
    BY <1>10
  <2>3. QED
    BY <1>3, <2>1, <2>2
<1>12. QED
  BY <1>2, <1>7, <1>11

LEMMA FlattenTyped ==
  ASSUME NEW S, NEW s \in Seq(Seq(S))
  PROVE  FlattenSeq(s) \in Seq(S)
<1>1. CASE s = <<>>
  <2>1. FlattenSeq(<<>>) = <<>>
    BY DEF FlattenSeq
  <2>2. QED
    BY <1>1, <2>1, EmptySeq
<1>2. CASE s # <<>>
  <2>1. PICK f : Joins(f, s, S, Len(s)) /\ FlattenSeq(s) = f[Len(s)]
    BY <1>2, FlattenJoins
  <2>2. f \in [1..Len(s) -> Seq(S)] /\ Len(s) \in 1..Len(s)
    BY <1>2, <2>1 DEF Joins
  <2>3. QED
    BY <2>1, <2>2
<1>3. QED
  BY <1>1, <1>2

LEMMA FlattenOne ==
  ASSUME NEW S, NEW x \in Seq(S)
  PROVE  FlattenSeq(<<x>>) = x
<1>1. <<x>> \in Seq(Seq(S)) /\ <<x>> # <<>> /\ Len(<<x>>) = 1 /\ <<x>>[1] = x
  OBVIOUS
<1>2. PICK f : Joins(f, <<x>>, S, Len(<<x>>)) /\ FlattenSeq(<<x>>) = f[Len(<<x>>)]
  BY <1>1, FlattenJoins
<1>3. f[1] = <<x>>[1] /\ FlattenSeq(<<x>>) = f[1]
  BY <1>1, <1>2 DEF Joins
<1>4. QED
  BY <1>1, <1>3

-----------------------------------------------------------------------------
(* Counting.                                                               *)

LEMMA Countable ==
  ASSUME NEW n \in Nat, NEW C \in SUBSET (1..n)
  PROVE  IsFiniteSet(C) /\ Cardinality(C) \in Nat
<1>1. IsFiniteSet(1..n)
  BY FS_Interval
<1>2. IsFiniteSet(C)
  BY <1>1, FS_Subset
<1>3. QED
  BY <1>2, FS_CardinalityType

LEMMA CountedWithin ==
  ASSUME NEW n \in Nat, NEW C \in SUBSET (1..n), NEW D \in SUBSET C, D # {}
  PROVE  Cardinality(D) \in 1..Cardinality(C)
<1>1. D \in SUBSET (1..n)
  OBVIOUS
<1>2. /\ IsFiniteSet(C) /\ Cardinality(C) \in Nat
      /\ IsFiniteSet(D) /\ Cardinality(D) \in Nat
  BY <1>1, Countable
<1>3. Cardinality(D) <= Cardinality(C)
  BY <1>2, FS_Subset
<1>4. Cardinality(D) # 0
  BY <1>2, FS_EmptySet
<1>5. QED
  BY <1>2, <1>3, <1>4

LEMMA OneMore ==
  ASSUME NEW n \in Nat, NEW C \in SUBSET (1..n), NEW x, x \notin C
  PROVE  Cardinality(C \cup {x}) = Cardinality(C) + 1
BY Countable, FS_AddElement

-----------------------------------------------------------------------------
(* From messages to a request.                                             *)

LEMMA Contents ==
  ASSUME NEW c \in Content
  PROVE  /\ c.form \in {"string", "list", "maps"} /\ c.texts \in Seq(Text)
         /\ getMessageContent(c) \in Text
         /\ openAIContentText(c) \in Text
<1>1. c.form \in {"string", "list", "maps"} /\ c.texts \in Seq(Text)
  BY DEF Content
<1>2. FlattenSeq(c.texts) \in Text
  BY <1>1, FlattenTyped DEF Text
<1>3. Default \in Text
  <2>1. <<"proxy", 0, 1>> \in Piece
    BY DEF Piece
  <2>2. QED
    BY <2>1 DEF Default, Text
<1>4. QED
  BY <1>1, <1>2, <1>3 DEF getMessageContent, openAIContentText

\* What getMessageContent makes of a text, of a list of one and of an empty one.
LEMMA TextsAreSaid ==
  ASSUME NEW t \in Text
  PROVE  /\ getMessageContent(StringOf(t)) = IF t = <<>> THEN Default ELSE t
         /\ getMessageContent(ListOf(<<t>>)) = t
         /\ openAIContentText(StringOf(t)) = t
         /\ openAIContentText(ListOf(<<t>>)) = t
         /\ getMessageContent(ListOf(<<>>)) = Default
<1>1. FlattenSeq(<<t>>) = t
  BY FlattenOne DEF Text
<1>2. /\ StringOf(t).form = "string" /\ StringOf(t).texts = <<t>>
      /\ StringOf(t) = StringOf(<<>>) <=> t = <<>>
      /\ ListOf(<<t>>).form = "list" /\ ListOf(<<t>>).texts = <<t>>
      /\ ListOf(<<>>).texts = <<>>
      /\ <<t>> # <<>>
  BY DEF StringOf, ListOf
<1>3. ListOf(<<t>>) # StringOf(<<>>)
  BY DEF StringOf, ListOf
<1>4. QED
  BY <1>1, <1>2, <1>3 DEF getMessageContent, openAIContentText

LEMMA ContentsOf ==
  /\ \A t \in Text : StringOf(t) \in Content
  /\ \A s \in Seq(Text) : ListOf(s) \in Content /\ MapsOf(s) \in Content
<1>1. ASSUME NEW t \in Text PROVE StringOf(t) \in Content
  <2>1. <<t>> \in Seq(Text)
    OBVIOUS
  <2>2. QED
    BY <2>1 DEF StringOf, Content
<1>2. ASSUME NEW s \in Seq(Text) PROVE ListOf(s) \in Content /\ MapsOf(s) \in Content
  BY DEF ListOf, MapsOf, Content
<1>3. QED
  BY <1>1, <1>2

LEMMA Messages ==
  ASSUME NEW m \in Message
  PROVE  /\ m.role \in {"user", "assistant", "tool"} /\ m.content \in Content /\ m.calls \in Nat
         /\ OpenAIMessage(m) \in Message /\ OpenAIMessage(m).role \in {"user", "assistant"}
<1>1. m.role \in {"user", "assistant", "tool"} /\ m.content \in Content /\ m.calls \in Nat
  BY DEF Message
<1>2. openAIContentText(m.content) \in Text
  BY <1>1, Contents
<1>3. /\ StringOf(openAIContentText(m.content)) \in Content
      /\ MapsOf(<<openAIContentText(m.content)>>) \in Content
      /\ MapsOf(<<>>) \in Content
  <2>1. <<openAIContentText(m.content)>> \in Seq(Text) /\ <<>> \in Seq(Text)
    BY <1>2
  <2>2. QED
    BY <1>2, <2>1, ContentsOf
<1>4. /\ OpenAIMessage(m) \in Message
      /\ OpenAIMessage(m).role \in {"user", "assistant"}
  BY <1>1, <1>3 DEF OpenAIMessage, MessageOf, Message
<1>5. QED
  BY <1>1, <1>4

LEMMA Exchanges ==
  ASSUME NEW ms \in Seq(Message), \A i \in DOMAIN ms : ms[i].role \in {"user", "assistant"}
  PROVE  /\ \A i \in DOMAIN ms :
              Said(ms[i].role, getMessageContent(ms[i].content)) \in Entry
         /\ \A i \in 1..(Len(ms) - 1) : Exchange(ms, i) \in Seq(Entry)
<1>1. ASSUME NEW i \in DOMAIN ms
      PROVE  Said(ms[i].role, getMessageContent(ms[i].content)) \in Entry
  <2>1. ms[i] \in Message /\ ms[i].role \in {"user", "assistant"}
    OBVIOUS
  <2>2. getMessageContent(ms[i].content) \in Text
    BY <2>1, Messages, Contents
  <2>3. QED
    BY <2>1, <2>2 DEF Said, Entry
<1>2. ASSUME NEW i \in 1..(Len(ms) - 1) PROVE Exchange(ms, i) \in Seq(Entry)
  <2> DEFINE e(j) == Said(ms[j].role, getMessageContent(ms[j].content))
  <2>1. i \in DOMAIN ms /\ i + 1 \in DOMAIN ms
    OBVIOUS
  <2>2. e(i) \in Entry /\ e(i + 1) \in Entry
    BY <1>1, <2>1
  <2>3. Exchange(ms, i) \in {<<>>, <<e(i)>>, <<e(i), e(i + 1)>>}
    BY DEF Exchange
  <2> HIDE DEF e
  <2>4. <<>> \in Seq(Entry) /\ <<e(i)>> \in Seq(Entry) /\ <<e(i), e(i + 1)>> \in Seq(Entry)
    BY <2>2
  <2>5. QED
    BY <2>3, <2>4
<1>3. QED
  BY <1>1, <1>2

-----------------------------------------------------------------------------
(* What the history of a request tells of its messages, which are from     *)
(* here on messages of users and assistants.                               *)

Spoken(ms) == \A i \in DOMAIN ms : ms[i].role \in {"user", "assistant"}

\* The messages that are told.
Kept(ms) ==
  {i \in 1..Len(ms) : \/ i = Len(ms)
                      \/ ms[i].role = "user"
                      \/ i > 1 /\ ms[i - 1].role = "user"}

UpTo(ms, i) == {j \in Kept(ms) : j <= i}

\* Those told in the first m rounds: an answer is told with the message it answers.
ToldIn(ms, m) ==
  {i \in Kept(ms) : i <= m \/ (i = m + 1 /\ i < Len(ms) /\ ms[i].role = "assistant")}

Telling(ms, i) == Said(ms[i].role, getMessageContent(ms[i].content))

Tells(h, ms, m) ==
  /\ h \in Seq(Entry)
  /\ Len(h) = Cardinality(ToldIn(ms, m))
  /\ \A i \in ToldIn(ms, m) : h[Cardinality(UpTo(ms, i))] = Telling(ms, i)

\* Whether round m tells an answer too.
Answers(ms, m) == m + 1 < Len(ms) /\ ms[m + 1].role = "assistant"

LEMMA Round ==
  ASSUME NEW ms \in Seq(Message), Spoken(ms), NEW m \in Nat, m + 1 < Len(ms)
  PROVE  /\ m + 1 \in 1..(Len(ms) - 1)
         /\ Exchange(ms, m + 1) =
              IF ms[m + 1].role # "user" THEN <<>>
              ELSE IF Answers(ms, m + 1) THEN <<Telling(ms, m + 1), Telling(ms, m + 2)>>
              ELSE <<Telling(ms, m + 1)>>
<1>1. m + 1 \in 1..(Len(ms) - 1) /\ (m + 1) + 1 = m + 2
  OBVIOUS
<1>2. QED
  BY <1>1 DEF Exchange, Answers, Telling

LEMMA RoundTells ==
  ASSUME NEW ms \in Seq(Message), Spoken(ms), NEW m \in Nat, m + 1 < Len(ms)
  PROVE  /\ ms[m + 1].role # "user" => ToldIn(ms, m + 1) = ToldIn(ms, m)
         /\ ms[m + 1].role = "user" =>
              /\ m + 1 \notin ToldIn(ms, m)
              /\ UpTo(ms, m + 1) = ToldIn(ms, m) \cup {m + 1}
              /\ ~Answers(ms, m + 1) => ToldIn(ms, m + 1) = ToldIn(ms, m) \cup {m + 1}
              /\ Answers(ms, m + 1) =>
                   /\ m + 2 \notin UpTo(ms, m + 1)
                   /\ UpTo(ms, m + 2) = UpTo(ms, m + 1) \cup {m + 2}
                   /\ ToldIn(ms, m + 1) = UpTo(ms, m + 1) \cup {m + 2}
<1> DEFINE n == Len(ms)
<1>1. /\ n \in Nat /\ m + 1 \in 1..n /\ m + 2 \in 1..n
      /\ \A i \in 1..n : ms[i].role = "user" \/ ms[i].role = "assistant"
      /\ \A i \in 1..n : ~(ms[i].role = "user" /\ ms[i].role = "assistant")
  BY DEF Spoken
<1>2. \A i : i \in Kept(ms) <=> /\ i \in 1..n
                                /\ i = n \/ ms[i].role = "user" \/ (i > 1 /\ ms[i - 1].role = "user")
  BY DEF Kept
<1>3. \A i, k : i \in UpTo(ms, k) <=> i \in Kept(ms) /\ i <= k
  BY DEF UpTo
<1>4. \A i, k : i \in ToldIn(ms, k) <=>
                  i \in Kept(ms) /\ (i <= k \/ (i = k + 1 /\ i < n /\ ms[i].role = "assistant"))
  BY DEF ToldIn
<1>5. Answers(ms, m + 1) <=> m + 2 < n /\ ms[m + 2].role = "assistant"
  <2>1. (m + 1) + 1 = m + 2
    OBVIOUS
  <2>2. QED
    BY <2>1 DEF Answers
<1>6. CASE ms[m + 1].role # "user"
  <2>1. ms[m + 1].role = "assistant"
    BY <1>1, <1>6
  <2>2. ASSUME NEW i \in Kept(ms) PROVE i \in ToldIn(ms, m + 1) <=> i \in ToldIn(ms, m)
    <3>1. i \in 1..n
      BY <1>2
    <3>2. CASE i <= m
      BY <1>4, <3>1, <3>2
    <3>3. CASE i = m + 1
      BY <1>4, <2>1, <3>3
    <3>4. CASE i = m + 2
      <4>1. (m + 2) - 1 = m + 1 /\ ~(m + 2 <= m + 1) /\ ~(m + 2 <= m) /\ m + 2 # m + 1
        OBVIOUS
      <4>2. i < n /\ ms[i].role = "assistant" => i \notin Kept(ms)
        BY <1>1, <1>2, <1>6, <3>4, <4>1
      <4>3. QED
        BY <1>4, <3>4, <4>1, <4>2
    <3>5. CASE i > m + 2
      BY <1>4, <3>1, <3>5
    <3>6. QED
      BY <3>1, <3>2, <3>3, <3>4, <3>5
  <2>3. ToldIn(ms, m + 1) = ToldIn(ms, m)
    BY <1>4, <2>2
  <2>4. QED
    BY <1>6, <2>3
<1>7. CASE ms[m + 1].role = "user"
  <2>1. m + 1 \in Kept(ms) /\ ms[m + 1].role # "assistant"
    BY <1>1, <1>2, <1>7
  <2>2. m + 2 \in Kept(ms)
    <3>1. (m + 2) - 1 = m + 1 /\ m + 2 > 1
      OBVIOUS
    <3>2. QED
      BY <1>1, <1>2, <1>7, <3>1
  <2>3. \A i \in 1..n : /\ i <= m + 1 <=> i <= m \/ i = m + 1
                        /\ i <= m + 2 <=> i <= m + 1 \/ i = m + 2
                        /\ ~(m + 1 <= m) /\ ~(m + 2 <= m + 1) /\ m + 2 # m + 1
                        /\ (m + 1) + 1 = m + 2
    BY <1>1
  <2>4. \A i : i \in ToldIn(ms, m) <=> i \in Kept(ms) /\ i <= m
    BY <1>2, <1>4, <2>1, <2>3
  <2>5. m + 1 \notin ToldIn(ms, m)
    BY <1>1, <2>3, <2>4
  <2>6. UpTo(ms, m + 1) = ToldIn(ms, m) \cup {m + 1}
    BY <1>2, <1>3, <2>1, <2>3, <2>4
  <2>7. m + 2 \notin UpTo(ms, m + 1) /\ UpTo(ms, m + 2) = UpTo(ms, m + 1) \cup {m + 2}
    BY <1>1, <1>2, <1>3, <2>2, <2>3
  <2>8. \A i : i \in ToldIn(ms, m + 1) <=>
                 i \in Kept(ms) /\ (i <= m + 1 \/ (i = m + 2 /\ i < n /\ ms[i].role = "assistant"))
    BY <1>4, <2>3
  <2>9. ~Answers(ms, m + 1) => ToldIn(ms, m + 1) = UpTo(ms, m + 1)
    BY <1>3, <1>5, <2>8
  <2>10. Answers(ms, m + 1) => ToldIn(ms, m + 1) = UpTo(ms, m + 1) \cup {m + 2}
    BY <1>3, <1>5, <2>2, <2>8
  <2>11. QED
    BY <1>7, <2>5, <2>6, <2>7, <2>9, <2>10
<1>8. QED
  BY <1>6, <1>7

LEMMA ToldArePlaced ==
  ASSUME NEW ms \in Seq(Message), Spoken(ms), NEW m \in Nat
  PROVE  /\ ToldIn(ms, m) \in SUBSET (1..Len(ms))
         /\ \A i : UpTo(ms, i) \in SUBSET (1..Len(ms))
         /\ \A i \in ToldIn(ms, m) :
              Cardinality(UpTo(ms, i)) \in 1..Cardinality(ToldIn(ms, m))
<1>1. /\ ToldIn(ms, m) \in SUBSET (1..Len(ms))
      /\ \A i : UpTo(ms, i) \in SUBSET (1..Len(ms))
  BY DEF ToldIn, UpTo, Kept
<1>2. ASSUME NEW i \in ToldIn(ms, m)
      PROVE  Cardinality(UpTo(ms, i)) \in 1..Cardinality(ToldIn(ms, m))
  <2>1. i \in UpTo(ms, i)
    BY <1>1 DEF ToldIn, UpTo
  <2>2. UpTo(ms, i) \in SUBSET ToldIn(ms, m)
    <3>1. ASSUME NEW j \in UpTo(ms, i) PROVE j \in ToldIn(ms, m)
      <4>1. j \in Kept(ms) /\ j <= i /\ i \in Kept(ms) /\ j \in Nat /\ i \in Nat
        BY <1>1 DEF UpTo, ToldIn, Kept
      <4>2. CASE i <= m
        BY <4>1, <4>2 DEF ToldIn
      <4>3. CASE ~(i <= m)
        <5>1. i = m + 1 /\ i < Len(ms) /\ ms[i].role = "assistant"
          BY <4>3 DEF ToldIn
        <5>2. j <= m \/ j = i
          BY <4>1, <5>1
        <5>3. QED
          BY <4>1, <5>1, <5>2 DEF ToldIn
      <4>4. QED
        BY <4>2, <4>3
    <3>2. QED
      BY <3>1
  <2> DEFINE D == UpTo(ms, i)  C == ToldIn(ms, m)  n == Len(ms)
  <2>3. n \in Nat /\ C \in SUBSET (1..n) /\ D \in SUBSET C /\ D # {}
    BY <1>1, <2>1, <2>2
  <2> HIDE DEF D, C, n
  <2>4. Cardinality(D) \in 1..Cardinality(C)
    BY <2>3, CountedWithin
  <2>5. QED
    BY <2>4 DEF D, C
<1>3. QED
  BY <1>1, <1>2

\* Appending what round m + 1 tells.
LEMMA RoundKeeps ==
  ASSUME NEW ms \in Seq(Message), Spoken(ms), NEW m \in Nat, m + 1 < Len(ms),
         NEW h, Tells(h, ms, m)
  PROVE  Tells(h \o Exchange(ms, m + 1), ms, m + 1)
<1> DEFINE C == ToldIn(ms, m)
           n == Len(ms)
           c == Cardinality(C)
           a == Telling(ms, m + 1)
           b == Telling(ms, m + 2)
<1>1. /\ h \in Seq(Entry) /\ Len(h) = c
      /\ \A i \in C : h[Cardinality(UpTo(ms, i))] = Telling(ms, i)
  BY DEF Tells
<1>2. /\ n \in Nat /\ C \in SUBSET (1..n) /\ c \in Nat
      /\ \A i : UpTo(ms, i) \in SUBSET (1..n)
      /\ \A i \in C : Cardinality(UpTo(ms, i)) \in 1..c
  <2>1. C \in SUBSET (1..n) /\ n \in Nat
    BY ToldArePlaced
  <2>2. Cardinality(C) \in Nat
    BY <2>1, Countable
  <2>3. QED
    BY <2>1, <2>2, ToldArePlaced
<1>3. a \in Entry /\ b \in Entry
  <2>1. m + 1 \in DOMAIN ms /\ m + 2 \in DOMAIN ms
    OBVIOUS
  <2>2. QED
    BY <2>1, Exchanges DEF Spoken, Telling
<1>4. /\ ms[m + 1].role # "user" => ToldIn(ms, m + 1) = C
      /\ ms[m + 1].role = "user" =>
           /\ m + 1 \notin C
           /\ UpTo(ms, m + 1) = C \cup {m + 1}
           /\ ~Answers(ms, m + 1) => ToldIn(ms, m + 1) = C \cup {m + 1}
           /\ Answers(ms, m + 1) =>
                /\ m + 2 \notin UpTo(ms, m + 1)
                /\ UpTo(ms, m + 2) = UpTo(ms, m + 1) \cup {m + 2}
                /\ ToldIn(ms, m + 1) = UpTo(ms, m + 1) \cup {m + 2}
  BY RoundTells
<1>5. Exchange(ms, m + 1) = IF ms[m + 1].role # "user" THEN <<>>
                            ELSE IF Answers(ms, m + 1) THEN <<a, b>> ELSE <<a>>
  BY Round
<1> HIDE DEF C, c, n, a, b
<1>6. CASE ms[m + 1].role # "user"
  <2>1. h \o Exchange(ms, m + 1) = h
    BY <1>1, <1>5, <1>6, ConcatEmptySeq
  <2>2. QED
    BY <1>1, <1>4, <1>6, <2>1 DEF Tells, C, c
<1>7. CASE ms[m + 1].role = "user"
  <2>1. Cardinality(UpTo(ms, m + 1)) = c + 1
    BY <1>2, <1>4, <1>7, OneMore DEF c
  <2>2. CASE ~Answers(ms, m + 1)
    <3> DEFINE g == h \o <<a>>
    <3>1. /\ g \in Seq(Entry) /\ Len(g) = c + 1 /\ g[c + 1] = a
          /\ \A i \in 1..c : g[i] = h[i]
      BY <1>1, <1>2, <1>3
    <3>2. h \o Exchange(ms, m + 1) = g
      BY <1>5, <1>7, <2>2
    <3>3. ToldIn(ms, m + 1) = C \cup {m + 1} /\ Cardinality(ToldIn(ms, m + 1)) = c + 1
      BY <1>4, <1>7, <2>1, <2>2
    <3> HIDE DEF g
    <3>4. ASSUME NEW i \in ToldIn(ms, m + 1)
          PROVE  g[Cardinality(UpTo(ms, i))] = Telling(ms, i)
      <4>1. CASE i = m + 1
        BY <2>1, <3>1, <4>1 DEF a
      <4>2. CASE i \in C
        BY <1>1, <1>2, <3>1, <4>2
      <4>3. QED
        BY <3>3, <4>1, <4>2
    <3>5. QED
      BY <3>1, <3>2, <3>3, <3>4 DEF Tells
  <2>3. CASE Answers(ms, m + 1)
    <3> DEFINE g == h \o <<a, b>>
    <3>1. /\ g \in Seq(Entry) /\ Len(g) = c + 2 /\ g[c + 1] = a /\ g[c + 2] = b
          /\ \A i \in 1..c : g[i] = h[i]
      BY <1>1, <1>2, <1>3
    <3>2. h \o Exchange(ms, m + 1) = g
      BY <1>5, <1>7, <2>3
    <3>3. /\ ToldIn(ms, m + 1) = C \cup {m + 1} \cup {m + 2}
          /\ UpTo(ms, m + 2) = ToldIn(ms, m + 1)
      BY <1>4, <1>7, <2>3
    <3>4. Cardinality(UpTo(ms, m + 2)) = c + 2
      <4>1. Cardinality(UpTo(ms, m + 1) \cup {m + 2}) = Cardinality(UpTo(ms, m + 1)) + 1
        BY <1>2, <1>4, <1>7, <2>3, OneMore
      <4>2. UpTo(ms, m + 2) = UpTo(ms, m + 1) \cup {m + 2}
        BY <1>4, <1>7, <2>3
      <4>3. Cardinality(UpTo(ms, m + 2)) = (c + 1) + 1
        BY <2>1, <4>1, <4>2
      <4>4. QED
        BY <1>2, <4>3
    <3> HIDE DEF g
    <3>5. ASSUME NEW i \in ToldIn(ms, m + 1)
          PROVE  g[Cardinality(UpTo(ms, i))] = Telling(ms, i)
      <4>1. CASE i = m + 1
        BY <2>1, <3>1, <4>1 DEF a
      <4>2. CASE i = m + 2
        BY <3>1, <3>4, <4>2 DEF b
      <4>3. CASE i \in C
        BY <1>1, <1>2, <3>1, <4>3
      <4>4. QED
        BY <3>3, <4>1, <4>2, <4>3
    <3>6. QED
      BY <3>1, <3>2, <3>3, <3>4, <3>5 DEF Tells
  <2>4. QED
    BY <2>2, <2>3
<1>8. QED
  BY <1>6, <1>7

LEMMA NothingToldBefore ==
  ASSUME NEW ms \in Seq(Message), Spoken(ms)
  PROVE  Tells(<<>>, ms, 0)
<1>1. ToldIn(ms, 0) = {}
  <2>1. ASSUME NEW i \in ToldIn(ms, 0) PROVE FALSE
    <3>1. i \in Kept(ms) /\ i \in 1..Len(ms)
      BY DEF ToldIn, Kept
    <3>2. i = Len(ms) \/ ms[i].role = "user" \/ i > 1
      BY <3>1 DEF Kept
    <3>3. i <= 0 \/ (i = 0 + 1 /\ i < Len(ms) /\ ms[i].role = "assistant")
      BY DEF ToldIn
    <3>4. QED
      BY <3>1, <3>2, <3>3
  <2>2. QED
    BY <2>1
<1>2. Len(<<>>) = 0 /\ <<>> \in Seq(Entry) /\ Cardinality({}) = 0
  BY EmptySeq, FS_EmptySet
<1>3. QED
  BY <1>1, <1>2 DEF Tells

Rounds(ms) == [i \in 1..(Len(ms) - 1) |-> Exchange(ms, i)]

LEMMA AllRoundsTell ==
  ASSUME NEW ms \in Seq(Message), Spoken(ms), Len(ms) > 0
  PROVE  Tells(FlattenSeq(Rounds(ms)), ms, Len(ms) - 1)
<1> DEFINE n == Len(ms) - 1
           s == Rounds(ms)
<1>1. n \in Nat /\ s \in Seq(Seq(Entry)) /\ Len(s) = n /\ \A i \in 1..n : s[i] = Exchange(ms, i)
  <2>1. n \in Nat
    OBVIOUS
  <2>2. \A i \in 1..n : Exchange(ms, i) \in Seq(Entry)
    BY Exchanges DEF Spoken
  <2>3. QED
    BY <2>1, <2>2 DEF Rounds
<1>2. Tells(<<>>, ms, 0)
  BY NothingToldBefore
<1> HIDE DEF s
<1>3. CASE n = 0
  <2>1. s = <<>>
    BY <1>1, <1>3
  <2>2. FlattenSeq(<<>>) = <<>>
    BY DEF FlattenSeq
  <2>3. QED
    BY <1>2, <1>3, <2>1, <2>2 DEF s
<1>4. CASE n # 0
  <2>1. n \in 1..n /\ 1 \in 1..n /\ s # <<>>
    BY <1>1, <1>4
  <2>2. PICK f : Joins(f, s, Entry, n) /\ FlattenSeq(s) = f[n]
    BY <1>1, <2>1, FlattenJoins
  <2>3. /\ f \in [1..n -> Seq(Entry)] /\ f[1] = s[1]
        /\ \A i \in 2..n : f[i] = f[i - 1] \o s[i]
    BY <2>2 DEF Joins
  <2> DEFINE bad == {m \in 1..n : ~Tells(f[m], ms, m)}
  <2>4. ASSUME bad # {} PROVE FALSE
    <3>1. PICK m \in bad : \A k \in bad : m <= k
      <4>1. bad \in SUBSET Nat
        BY <1>1
      <4>2. QED
        BY <2>4, <4>1, Least
    <3>2. m \in 1..n /\ ~Tells(f[m], ms, m)
      BY <3>1
    <3>3. CASE m = 1
      <4>1. <<>> \o s[1] = s[1]
        BY <1>1, <2>1, ConcatEmptySeq
      <4>2. 0 \in Nat /\ 0 + 1 < Len(ms) /\ 0 + 1 = 1
        BY <1>1, <1>4
      <4>3. Tells(<<>> \o Exchange(ms, 0 + 1), ms, 0 + 1)
        BY <1>2, <4>2, RoundKeeps
      <4>4. QED
        BY <1>1, <2>1, <2>3, <3>2, <3>3, <4>1, <4>2, <4>3
    <3>4. CASE m # 1
      <4>1. /\ m - 1 \in 1..n /\ m - 1 \in Nat /\ m \in 2..n /\ ~(m <= m - 1)
            /\ (m - 1) + 1 < Len(ms) /\ (m - 1) + 1 = m
        BY <1>1, <3>2, <3>4
      <4>2. m - 1 \notin bad
        BY <3>1, <4>1
      <4>3. Tells(f[m - 1], ms, m - 1)
        BY <4>1, <4>2
      <4>4. Tells(f[m - 1] \o Exchange(ms, (m - 1) + 1), ms, (m - 1) + 1)
        BY <4>1, <4>3, RoundKeeps
      <4>5. f[m] = f[m - 1] \o Exchange(ms, m)
        BY <1>1, <2>3, <3>2, <4>1
      <4>6. QED
        BY <3>2, <4>1, <4>4, <4>5
    <3>5. QED
      BY <3>3, <3>4
  <2>5. Tells(f[n], ms, n)
    BY <2>1, <2>4
  <2>6. QED
    BY <2>2, <2>5 DEF s
<1>5. QED
  BY <1>3, <1>4

\* The history tells all of them but the last.
LEMMA HistoryTells ==
  ASSUME NEW ms \in Seq(Message), Spoken(ms), Len(ms) > 0,
         NEW h, h = FlattenSeq(Rounds(ms))
  PROVE  /\ h \in Seq(Entry)
         /\ Len(h) = Cardinality(Kept(ms)) - 1
         /\ \A i \in Kept(ms) \ {Len(ms)} :
              /\ Cardinality(UpTo(ms, i)) \in 1..Len(h)
              /\ h[Cardinality(UpTo(ms, i))] = Telling(ms, i)
<1> DEFINE n == Len(ms)
<1>1. n \in Nat /\ n - 1 \in Nat
  OBVIOUS
<1>2. Tells(h, ms, n - 1)
  BY AllRoundsTell
<1>3. ToldIn(ms, n - 1) = Kept(ms) \ {n} /\ n \in Kept(ms)
  <2>1. Kept(ms) \in SUBSET (1..n) /\ n \in Kept(ms)
    BY <1>1 DEF Kept
  <2>2. \A i \in 1..n : (i <= n - 1 <=> i # n) /\ ~(i = (n - 1) + 1 /\ i < n)
    BY <1>1
  <2>3. QED
    BY <2>1, <2>2 DEF ToldIn
<1>4. Cardinality(Kept(ms) \ {n}) = Cardinality(Kept(ms)) - 1
  <2>1. Kept(ms) \in SUBSET (1..n)
    BY DEF Kept
  <2>2. IsFiniteSet(Kept(ms))
    BY <1>1, <2>1, Countable
  <2>3. QED
    BY <1>3, <2>2, FS_RemoveElement
<1>5. \A i \in ToldIn(ms, n - 1) :
        Cardinality(UpTo(ms, i)) \in 1..Cardinality(ToldIn(ms, n - 1))
  BY <1>1, ToldArePlaced
<1>6. QED
  BY <1>2, <1>3, <1>4, <1>5 DEF Tells

-----------------------------------------------------------------------------
(* The client's messages and what was heard.                               *)

Hearing == [role : {"user", "assistant"}, text : Text, vague : BOOLEAN]

\* A message, and all of them, as buildCodeWhispererRequest gets them in API a.
Shown(a, m) == IF a = "openai" THEN OpenAIMessage(m) ELSE m

Given(a, ms) == IF a = "openai" THEN openAIRequestToAnthropic(ms) ELSE ms

Matches(m, h) == m.role = h.role /\ Faithful(getMessageContent(m.content), h)

HeardBy(a, ms, hs) ==
  /\ Len(ms) = Len(hs)
  /\ \A i \in 1..Len(ms) : Matches(Shown(a, ms[i]), hs[i])

\* The dialogue that a request is about.
Asked(a, hs) ==
  IF a = "openai" /\ Last(hs).role = "assistant"
  THEN Append(hs, HeardUser(Continue))
  ELSE hs

LEMMA HeardTogether ==
  ASSUME NEW a, NEW ms \in Seq(Message), NEW hs \in Seq(Hearing), HeardBy(a, ms, hs),
         NEW ns \in Seq(Message), NEW gs \in Seq(Hearing), HeardBy(a, ns, gs)
  PROVE  HeardBy(a, ms \o ns, hs \o gs)
<1>1. /\ Len(ms) \in Nat /\ Len(ns) \in Nat /\ Len(ms) = Len(hs) /\ Len(ns) = Len(gs)
      /\ Len(ms \o ns) = Len(ms) + Len(ns) /\ Len(hs \o gs) = Len(hs) + Len(gs)
  <2>1. Len(ms) = Len(hs) /\ Len(ns) = Len(gs)
    BY DEF HeardBy
  <2>2. Len(ms) \in Nat /\ Len(ns) \in Nat
    BY LenProperties
  <2>3. Len(ms \o ns) = Len(ms) + Len(ns) /\ Len(hs \o gs) = Len(hs) + Len(gs)
    BY ConcatProperties
  <2>4. QED
    BY <2>1, <2>2, <2>3
<1>2. ASSUME NEW i \in 1..(Len(ms) + Len(ns))
      PROVE  Matches(Shown(a, (ms \o ns)[i]), (hs \o gs)[i])
  <2>1. CASE i <= Len(ms)
    <3>1. i \in 1..Len(ms) /\ (ms \o ns)[i] = ms[i] /\ (hs \o gs)[i] = hs[i]
      BY <1>1, <2>1, ConcatProperties
    <3>2. QED
      BY <3>1 DEF HeardBy
  <2>2. CASE ~(i <= Len(ms))
    <3> DEFINE j == i - Len(ms)
    <3>1. j \in 1..Len(ns) /\ (ms \o ns)[i] = ns[j] /\ (hs \o gs)[i] = gs[j]
      BY <1>1, <2>2, ConcatProperties
    <3>2. QED
      BY <3>1 DEF HeardBy
  <2>3. QED
    BY <2>1, <2>2
<1>3. QED
  BY <1>1, <1>2 DEF HeardBy

LEMMA HeardOneMore ==
  ASSUME NEW a, NEW ms \in Seq(Message), NEW hs \in Seq(Hearing), HeardBy(a, ms, hs),
         NEW m \in Message, NEW h \in Hearing, Matches(Shown(a, m), h)
  PROVE  /\ HeardBy(a, Append(ms, m), Append(hs, h))
         /\ Append(ms, m) \in Seq(Message) /\ Append(ms, m) # <<>>
         /\ Append(hs, h) \in Seq(Hearing)
<1>1. /\ Append(ms, m) \in Seq(Message) /\ Append(hs, h) \in Seq(Hearing)
      /\ Len(ms) \in Nat /\ Len(ms) = Len(hs)
      /\ Len(Append(ms, m)) = Len(ms) + 1 /\ Len(Append(hs, h)) = Len(hs) + 1
  BY DEF HeardBy
<1>2. ASSUME NEW i \in 1..(Len(ms) + 1)
      PROVE  Matches(Shown(a, Append(ms, m)[i]), Append(hs, h)[i])
  <2>1. CASE i \in 1..Len(ms)
    <3>1. Append(ms, m)[i] = ms[i] /\ Append(hs, h)[i] = hs[i]
      BY <1>1, <2>1
    <3>2. QED
      BY <2>1, <3>1 DEF HeardBy
  <2>2. CASE i = Len(ms) + 1
    <3>1. Append(ms, m)[i] = m /\ Append(hs, h)[i] = h
      BY <1>1, <2>2
    <3>2. QED
      BY <3>1
  <2>3. QED
    BY <1>1, <2>1, <2>2
<1>3. QED
  BY <1>1, <1>2 DEF HeardBy

LEMMA GivenMatches ==
  ASSUME NEW a, NEW ms \in Seq(Message), NEW hs \in Seq(Hearing), HeardBy(a, ms, hs),
         ms # <<>>
  PROVE  /\ Given(a, ms) \in Seq(Message) /\ Len(Given(a, ms)) \in Nat \ {0}
         /\ Len(Asked(a, hs)) = Len(Given(a, ms))
         /\ \A i \in 1..Len(Given(a, ms)) :
              /\ Matches(Given(a, ms)[i], Asked(a, hs)[i])
              /\ Asked(a, hs)[i] \in Hearing
         /\ Spoken(Given(a, ms))
<1> DEFINE n == Len(ms)
<1>1. n \in Nat \ {0} /\ Len(hs) = n /\ n \in 1..n
  BY DEF HeardBy
<1>2. /\ \A i \in 1..n : hs[i] \in Hearing /\ ms[i] \in Message
      /\ \A h \in Hearing : h.role \in {"user", "assistant"}
  <2>1. \A i \in 1..n : hs[i] \in Hearing /\ ms[i] \in Message
    BY <1>1, ElementOfSeq
  <2>2. \A h \in Hearing : h.role \in {"user", "assistant"}
    BY DEF Hearing
  <2>3. QED
    BY <2>1, <2>2
<1>3. /\ Given(a, ms) \in Seq(Message) /\ Len(Given(a, ms)) \in Nat \ {0}
      /\ Len(Asked(a, hs)) = Len(Given(a, ms))
      /\ \A i \in 1..Len(Given(a, ms)) :
           /\ Matches(Given(a, ms)[i], Asked(a, hs)[i])
           /\ Asked(a, hs)[i] \in Hearing
  <2>1. CASE a # "openai"
    <3>1. Given(a, ms) = ms /\ Asked(a, hs) = hs /\ \A i \in 1..n : Shown(a, ms[i]) = ms[i]
      BY <2>1 DEF Given, Asked, Shown
    <3>2. QED
      BY <1>1, <1>2, <3>1 DEF HeardBy
  <2>2. CASE a = "openai"
    <3> DEFINE cs == [i \in 1..n |-> OpenAIMessage(ms[i])]
               more == MessageOf("user", StringOf(Continue))
    <3>1. \A i \in 1..n : OpenAIMessage(ms[i]) \in Message
      BY <1>2, Messages
    <3>2. cs \in Seq(Message) /\ Len(cs) = n /\ \A i \in 1..n : cs[i] = OpenAIMessage(ms[i])
      BY <1>1, <3>1
    <3>3. DOMAIN ms = 1..n
      BY <1>1
    <3>4. Given(a, ms) = IF Last(cs).role = "user" THEN cs ELSE Append(cs, more)
      BY <2>2, <3>3, Zenon DEF Given, openAIRequestToAnthropic
    <3> HIDE DEF cs
    <3>5. \A i \in 1..n : Matches(cs[i], hs[i])
      BY <2>2, <3>2 DEF HeardBy, Shown
    <3>6. Last(cs) = cs[n] /\ Last(hs) = hs[n] /\ cs[n].role = hs[n].role
      BY <1>1, <3>2, <3>5 DEF Last, Matches
    <3>7. Continue \in Text /\ Continue # <<>>
      <4>1. <<"proxy", 0, 2>> \in Piece
        BY DEF Piece
      <4>2. QED
        BY <4>1 DEF Continue, Text
    <3>8. more \in Message /\ HeardUser(Continue) \in Hearing
      <4>1. StringOf(Continue) \in Content
        BY <3>7, ContentsOf
      <4>2. QED
        BY <3>7, <4>1 DEF MessageOf, Message, HeardUser, Hearing
    <3>9. Matches(more, HeardUser(Continue))
      <4>1. getMessageContent(StringOf(Continue)) = Continue
        BY <3>7, TextsAreSaid
      <4>2. /\ more.role = "user" /\ more.content = StringOf(Continue)
            /\ HeardUser(Continue).role = "user" /\ HeardUser(Continue).text = Continue
        BY DEF MessageOf, HeardUser
      <4>3. QED
        BY <4>1, <4>2 DEF Matches, Faithful
    <3> HIDE DEF more
    <3>10. CASE Last(cs).role = "user"
      <4>1. Given(a, ms) = cs /\ Asked(a, hs) = hs
        BY <3>4, <3>6, <3>10 DEF Asked
      <4>2. QED
        BY <1>1, <1>2, <3>2, <3>5, <4>1
    <3>11. CASE Last(cs).role # "user"
      <4> DEFINE h == HeardUser(Continue)
      <4>1. hs[n].role = "assistant"
        BY <1>1, <1>2, <3>6, <3>11
      <4>2. Given(a, ms) = Append(cs, more) /\ Asked(a, hs) = Append(hs, h)
        BY <2>2, <3>4, <3>6, <3>11, <4>1 DEF Asked
      <4> HIDE DEF h
      <4>3. /\ Append(cs, more) \in Seq(Message) /\ Len(Append(cs, more)) = n + 1
            /\ Len(Append(hs, h)) = n + 1
            /\ \A i \in 1..n : Append(cs, more)[i] = cs[i] /\ Append(hs, h)[i] = hs[i]
            /\ Append(cs, more)[n + 1] = more /\ Append(hs, h)[n + 1] = h
        BY <1>1, <3>2, <3>8 DEF h
      <4>4. \A i \in 1..(n + 1) : i \in 1..n \/ i = n + 1
        BY <1>1
      <4>5. h \in Hearing /\ Matches(more, h)
        BY <3>8, <3>9 DEF h
      <4>6. \A i \in 1..(n + 1) : /\ Matches(Append(cs, more)[i], Append(hs, h)[i])
                                  /\ Append(hs, h)[i] \in Hearing
        BY <1>2, <3>5, <4>3, <4>4, <4>5
      <4>7. QED
        BY <1>1, <4>2, <4>3, <4>6
    <3>12. QED
      BY <3>10, <3>11
  <2>3. QED
    BY <2>1, <2>2
<1>4. Spoken(Given(a, ms))
  BY <1>2, <1>3 DEF Spoken, Matches
<1>5. QED
  BY <1>3, <1>4

-----------------------------------------------------------------------------
(* What a request tells.                                                   *)

LEMMA RequestTyped ==
  ASSUME system \in BOOLEAN, NEW ms \in Seq(Message), Spoken(ms), Len(ms) > 0
  PROVE  /\ Instructions \in Seq(Entry)
         /\ buildCodeWhispererRequest(ms).history = Instructions \o FlattenSeq(Rounds(ms))
         /\ buildCodeWhispererRequest(ms).current = getMessageContent(ms[Len(ms)].content)
         /\ buildCodeWhispererRequest(ms) \in [history : Seq(Entry), current : Text]
<1>1. Instructions \in Seq(Entry)
  <2>1. <<"proxy", 0, 3>> \in Piece /\ <<"proxy", 0, 4>> \in Piece
    BY DEF Piece
  <2>2. << <<"proxy", 0, 3>> >> \in Text /\ << <<"proxy", 0, 4>> >> \in Text
    BY <2>1 DEF Text
  <2> DEFINE x == Said("user", << <<"proxy", 0, 3>> >>)
             y == Said("assistant", << <<"proxy", 0, 4>> >>)
  <2>3. x \in Entry /\ y \in Entry
    BY <2>2 DEF Said, Entry
  <2>4. Instructions \in {<<x, y>>, <<>>}
    BY DEF Instructions
  <2> HIDE DEF x, y
  <2>5. <<x, y>> \in Seq(Entry) /\ <<>> \in Seq(Entry)
    BY <2>3
  <2>6. QED
    BY <2>4, <2>5
<1>2. /\ buildCodeWhispererRequest(ms) =
           [history |-> Instructions \o FlattenSeq(Rounds(ms)),
            current |-> getMessageContent(ms[Len(ms)].content)]
  BY DEF buildCodeWhispererRequest, Rounds, Last
<1>3. FlattenSeq(Rounds(ms)) \in Seq(Entry)
  BY HistoryTells
<1>4. getMessageContent(ms[Len(ms)].content) \in Text
  <2>1. ms[Len(ms)] \in Message
    OBVIOUS
  <2>2. QED
    BY <2>1, Messages, Contents
<1>5. Instructions \o FlattenSeq(Rounds(ms)) \in Seq(Entry)
  BY <1>1, <1>3, ConcatProperties
<1>6. QED
  BY <1>1, <1>2, <1>4, <1>5

DialogueTypes ==
  /\ api \in {"anthropic", "anthropic stream", "openai"}
  /\ system \in BOOLEAN
  /\ messages \in Seq(Message)
  /\ at \in {"client", "kiro"}
  /\ request \in [history : Seq(Entry), current : Text]
  /\ answered \in BOOLEAN
  /\ heard \in Seq(Hearing)
  /\ cost \in 0..MaxCost

\* Kiro was sent what the client's messages say, and these say what was heard.
Understood ==
  /\ HeardBy(api, messages, heard)
  /\ at = "kiro" =>
       messages # <<>> /\ request = buildCodeWhispererRequest(Given(api, messages))

Dialogue == DialogueTypes /\ Understood

\* The request that was sent tells the dialogue.
LEMMA RequestTells ==
  ASSUME Dialogue PROVE ContextIsTold
<1> SUFFICES ASSUME at = "kiro" PROVE ContextIsTold
  BY DEF ContextIsTold
<1> DEFINE ms == Given(api, messages)
           n == Len(ms)
           cur == Asked(api, heard)
           k == Len(Instructions)
           h == FlattenSeq(Rounds(ms))
<1>1. /\ messages \in Seq(Message) /\ heard \in Seq(Hearing) /\ system \in BOOLEAN
      /\ HeardBy(api, messages, heard) /\ messages # <<>>
      /\ request = buildCodeWhispererRequest(ms)
  BY DEF Dialogue, DialogueTypes, Understood
<1>2. /\ ms \in Seq(Message) /\ n \in Nat \ {0} /\ Len(cur) = n /\ Spoken(ms)
      /\ \A i \in 1..n : Matches(ms[i], cur[i])
  BY <1>1, GivenMatches
<1>3. DOMAIN cur = 1..n /\ Current = cur
  <2>1. Current = cur
    BY DEF Current, Asked
  <2>2. heard \in Seq(Hearing) /\ HeardUser(Continue) \in Hearing
    <3>1. <<"proxy", 0, 2>> \in Piece
      BY DEF Piece
    <3>2. Continue \in Text
      BY <3>1 DEF Continue, Text
    <3>3. QED
      BY <1>1, <3>2 DEF HeardUser, Hearing
  <2>3. cur \in Seq(Hearing)
    BY <2>2 DEF Asked
  <2> HIDE DEF cur
  <2>4. QED
    BY <1>2, <2>1, <2>3
<1> HIDE DEF ms, cur, h
<1>4. Told = Kept(ms) /\ \A i : {j \in Told : j <= i} = UpTo(ms, i)
  <2>1. \A i \in 1..n : cur[i].role = ms[i].role
    BY <1>2 DEF Matches
  <2>2. Told = {i \in 1..n : \/ i = n
                             \/ cur[i].role = "user"
                             \/ i > 1 /\ cur[i - 1].role = "user"}
    BY <1>2, <1>3 DEF Told
  <2>3. \A i \in 1..n : i > 1 => i - 1 \in 1..n
    BY <1>2
  <2>4. Told = Kept(ms)
    BY <2>1, <2>2, <2>3 DEF Kept
  <2>5. QED
    BY <2>4 DEF UpTo
<1>5. /\ Instructions \in Seq(Entry) /\ k \in Nat
      /\ request.history = Instructions \o h
      /\ request.current = getMessageContent(ms[n].content)
  <2>1. n > 0
    BY <1>2
  <2>2. QED
    BY <1>1, <1>2, <2>1, RequestTyped, LenProperties DEF h
<1>6. /\ h \in Seq(Entry) /\ Len(h) \in Nat
      /\ Len(h) = Cardinality(Kept(ms)) - 1
      /\ \A i \in Kept(ms) \ {n} :
           /\ Cardinality(UpTo(ms, i)) \in 1..Len(h)
           /\ h[Cardinality(UpTo(ms, i))] = Telling(ms, i)
  <2>1. n > 0
    BY <1>2
  <2>2. QED
    BY <1>2, <2>1, HistoryTells, LenProperties DEF h
<1>7. /\ Len(request.history) = k + Len(h)
      /\ \A i \in 1..Len(h) : request.history[k + i] = h[i]
  <2>1. /\ Len(Instructions \o h) = k + Len(h)
        /\ \A i \in 1..(k + Len(h)) :
             (Instructions \o h)[i] = IF i <= k THEN Instructions[i] ELSE h[i - k]
    BY <1>5, <1>6, ConcatProperties
  <2>2. \A i \in 1..Len(h) : k + i \in 1..(k + Len(h)) /\ ~(k + i <= k) /\ (k + i) - k = i
    BY <1>5, <1>6
  <2>3. QED
    BY <1>5, <2>1, <2>2
<1>8. SubSeq(request.history, 1, k) = Instructions
  BY <1>5, <1>6
<1>9. Len(request.history) = k + Cardinality(Told) - 1
  <2>1. Kept(ms) \in SUBSET (1..n) /\ n \in Nat
    BY <1>2 DEF Kept
  <2>2. Cardinality(Kept(ms)) \in Nat
    BY <2>1, Countable
  <2>3. QED
    BY <1>4, <1>5, <1>6, <1>7, <2>2
<1>10. ASSUME NEW i \in Told \ {n}
       PROVE  /\ request.history[k + Place(i)].role = cur[i].role
              /\ Faithful(request.history[k + Place(i)].text, cur[i])
  <2>1. Place(i) = Cardinality(UpTo(ms, i))
    BY <1>4 DEF Place
  <2>2. request.history[k + Place(i)] = Telling(ms, i)
    BY <1>4, <1>6, <1>7, <2>1
  <2>3. i \in 1..n
    BY <1>4 DEF Kept
  <2>4. Matches(ms[i], cur[i])
    BY <1>2, <2>3
  <2>5. QED
    BY <2>2, <2>4 DEF Matches, Telling, Said
<1>11. Faithful(request.current, cur[n])
  <2>1. n \in 1..n
    BY <1>2
  <2>2. QED
    BY <1>2, <1>5, <2>1 DEF Matches
<1>12. QED
  BY <1>2, <1>3, <1>8, <1>9, <1>10, <1>11 DEF ContextIsTold

-----------------------------------------------------------------------------
(* The steps of the client, and the end of a response.                     *)

LEMMA Sending ==
  ASSUME Dialogue, NEW ms \in Seq(Message), ms # <<>>, NEW hs \in Seq(Hearing),
         HeardBy(api, ms, hs), Send(ms), heard' = hs
  PROVE  Dialogue'
<1> DEFINE r == buildCodeWhispererRequest(Given(api, ms))
<1>1. /\ api' = api /\ system' = system /\ messages' = ms /\ at' = "kiro" /\ answered' = answered
      /\ request' = r /\ cost' = cost + RequestCost /\ cost + RequestCost <= MaxCost
  BY DEF Send, responseVars, Given
<1>2. /\ api \in {"anthropic", "anthropic stream", "openai"} /\ system \in BOOLEAN
      /\ answered \in BOOLEAN /\ cost \in 0..MaxCost
  BY DEF Dialogue, DialogueTypes
<1>3. r \in [history : Seq(Entry), current : Text]
  <2>1. /\ Given(api, ms) \in Seq(Message) /\ Spoken(Given(api, ms))
        /\ Len(Given(api, ms)) \in Nat \ {0}
    BY GivenMatches
  <2>2. Len(Given(api, ms)) > 0
    BY <2>1
  <2>3. QED
    BY <1>2, <2>1, <2>2, RequestTyped
<1>4. request' = buildCodeWhispererRequest(Given(api, messages))'
  BY <1>1 DEF buildCodeWhispererRequest, Instructions, Given
<1> HIDE DEF r
<1>5. DialogueTypes'
  <2>1. cost' \in 0..MaxCost
    <3>1. cost \in 0..MaxCost /\ cost' = cost + RequestCost /\ cost + RequestCost <= MaxCost
      BY <1>1, <1>2
    <3>2. RequestCost \in Nat /\ MaxCost \in Nat
      BY DialogueAssumption DEF DialogueAssumption
    <3>3. cost + RequestCost \in 0..MaxCost
      BY <3>1, <3>2
    <3>4. QED
      BY <3>1, <3>3
  <2>2. QED
    BY <1>1, <1>2, <1>3, <2>1 DEF DialogueTypes
<1>6. Understood'
  BY <1>1, <1>4 DEF Understood
<1>7. QED
  BY <1>5, <1>6 DEF Dialogue

LEMMA Asking ==
  ASSUME Dialogue, turns \in Nat, Ask
  PROVE  Dialogue'
<1> DEFINE text == << <<"user", turns, 1>> >>
<1>1. PICK content \in {StringOf(text), ListOf(<<text>>), StringOf(<<>>)} :
        /\ Send(Append(messages, MessageOf("user", content)))
        /\ heard' = Append(heard, HeardUser(content.texts[1]))
  BY DEF Ask
<1> DEFINE t == content.texts[1]
           m == MessageOf("user", content)
<1>2. text \in Text /\ text # <<>> /\ <<>> \in Text /\ <<text>> \in Seq(Text)
  <2>1. <<"user", turns, 1>> \in Piece
    BY DEF Piece
  <2>2. text \in Text /\ text # <<>> /\ <<>> \in Text
    BY <2>1 DEF Text
  <2> HIDE DEF text
  <2>3. <<text>> \in Seq(Text)
    BY <2>2
  <2>4. QED
    BY <2>2, <2>3
<1> HIDE DEF text
<1>3. /\ StringOf(text).texts[1] = text /\ ListOf(<<text>>).texts[1] = text
      /\ StringOf(<<>>).texts[1] = <<>>
  BY DEF StringOf, ListOf
<1>4. /\ t \in Text /\ content \in Content
      /\ openAIContentText(content) = t
      /\ getMessageContent(content) = IF t = <<>> THEN Default ELSE t
  BY <1>2, <1>3, ContentsOf, TextsAreSaid
<1> HIDE DEF t
<1>5. m \in Message /\ HeardUser(t) \in Hearing
  BY <1>4 DEF MessageOf, Message, HeardUser, Hearing
<1>6. Matches(Shown(api, m), HeardUser(t))
  <2>1. HeardUser(t).role = "user" /\ HeardUser(t).text = t /\ HeardUser(t).vague = (t = <<>>)
    BY DEF HeardUser
  <2>2. m.role = "user" /\ m.content = content /\ m.calls = 0
    BY DEF MessageOf
  <2>3. OpenAIMessage(m) = MessageOf("user", StringOf(t))
    BY <1>4, <2>2 DEF OpenAIMessage
  <2>4. getMessageContent(StringOf(t)) = IF t = <<>> THEN Default ELSE t
    BY <1>4, TextsAreSaid
  <2>5. /\ Shown(api, m).role = "user"
        /\ getMessageContent(Shown(api, m).content) = IF t = <<>> THEN Default ELSE t
    BY <1>4, <2>2, <2>3, <2>4 DEF Shown, MessageOf
  <2>6. QED
    BY <2>1, <2>5 DEF Matches, Faithful
<1> HIDE DEF m
<1>7. /\ messages \in Seq(Message) /\ heard \in Seq(Hearing) /\ HeardBy(api, messages, heard)
  BY DEF Dialogue, DialogueTypes, Understood
<1>8. Send(Append(messages, m)) /\ heard' = Append(heard, HeardUser(t))
  BY <1>1 DEF m, t
<1>9. QED
  BY <1>5, <1>6, <1>7, <1>8, HeardOneMore, Sending

\* The last message of a client that has calls to answer.
LEMMA LastMessage ==
  ASSUME Dialogue, messages # <<>>
  PROVE  Last(messages) \in Message /\ Last(messages).calls \in Nat
<1>0. messages \in Seq(Message)
  BY DEF Dialogue, DialogueTypes
<1>1. Len(messages) \in 1..Len(messages)
  BY <1>0
<1>2. Last(messages) \in Message
  BY <1>0, <1>1 DEF Last
<1>3. QED
  BY <1>2, Messages

LEMMA ReturningBlocks ==
  ASSUME Dialogue, turns \in Nat, ReturnBlocks
  PROVE  Dialogue'
<1> DEFINE result == <<"result", turns, 1>>
           c == Last(messages).calls
<1>1. PICK results \in {<<>>, [i \in 1..c |-> <<result>>]} :
        /\ Send(Append(messages, MessageOf("user", ListOf(results))))
        /\ heard' = Append(heard, [role |-> "user", text |-> FlattenSeq(results),
                                   vague |-> results = <<>>])
  BY DEF ReturnBlocks
<1>2. api # "openai" /\ messages # <<>>
  BY DEF ReturnBlocks, HasCalls
<1> DEFINE m == MessageOf("user", ListOf(results))
           h == [role |-> "user", text |-> FlattenSeq(results), vague |-> results = <<>>]
<1>3. results \in Seq(Text)
  <2>1. result \in Piece
    BY DEF Piece
  <2> HIDE DEF result
  <2>2. <<result>> \in Text
    BY <2>1 DEF Text
  <2>3. c \in Nat
    BY <1>2, LastMessage
  <2> HIDE DEF c
  <2>4. [i \in 1..c |-> <<result>>] \in Seq(Text) /\ <<>> \in Seq(Text)
    BY <2>2, <2>3
  <2>5. QED
    BY <2>4
<1>4. FlattenSeq(results) \in Text /\ ListOf(results) \in Content
  BY <1>3, FlattenTyped, ContentsOf DEF Text
<1>5. m \in Message /\ h \in Hearing
  BY <1>4 DEF MessageOf, Message, Hearing
<1>6. Matches(Shown(api, m), h)
  <2>1. getMessageContent(ListOf(results)) =
          IF results = <<>> THEN Default ELSE FlattenSeq(results)
    BY DEF getMessageContent, ListOf, StringOf
  <2>2. Shown(api, m).role = "user" /\ Shown(api, m).content = ListOf(results)
    BY <1>2 DEF Shown, MessageOf
  <2>3. QED
    BY <2>1, <2>2 DEF Matches, Faithful
<1>7. /\ messages \in Seq(Message) /\ heard \in Seq(Hearing) /\ HeardBy(api, messages, heard)
  BY DEF Dialogue, DialogueTypes, Understood
<1>8. Send(Append(messages, m)) /\ heard' = Append(heard, h)
  BY <1>1
<1> HIDE DEF m, h
<1>9. QED
  BY <1>5, <1>6, <1>7, <1>8, HeardOneMore, Sending

LEMMA ReturningMessages ==
  ASSUME Dialogue, turns \in Nat, ReturnMessages
  PROVE  Dialogue'
<1> DEFINE result == << <<"result", turns, 1>> >>
           c == Last(messages).calls
           m == MessageOf("tool", StringOf(result))
           h == [role |-> "user", text |-> result, vague |-> TRUE]
           ns == [i \in 1..c |-> m]
           gs == [i \in 1..c |-> h]
<1>1. /\ Send(messages \o ns) /\ heard' = heard \o gs
      /\ api = "openai" /\ messages # <<>>
  BY DEF ReturnMessages, HasCalls
<1>2. result \in Text
  <2>1. <<"result", turns, 1>> \in Piece
    BY DEF Piece
  <2>2. QED
    BY <2>1 DEF Text
<1>3. c \in Nat
  BY <1>1, LastMessage
<1> HIDE DEF result, c
<1>4. m \in Message /\ h \in Hearing
  <2>1. StringOf(result) \in Content
    BY <1>2, ContentsOf
  <2>2. QED
    BY <1>2, <2>1 DEF MessageOf, Message, Hearing
<1>5. Matches(Shown(api, m), h)
  <2>1. OpenAIMessage(m) = MessageOf("user", MapsOf(<<openAIContentText(m.content)>>))
    BY DEF OpenAIMessage, MessageOf
  <2>2. getMessageContent(MapsOf(<<openAIContentText(m.content)>>)) = Default
    BY DEF getMessageContent, MapsOf
  <2>3. /\ Shown(api, m).role = "user"
        /\ getMessageContent(Shown(api, m).content) = Default
    BY <1>1, <2>1, <2>2 DEF Shown, MessageOf
  <2>4. QED
    BY <2>3 DEF Matches, Faithful
<1> HIDE DEF m, h
<1>6. /\ ns \in Seq(Message) /\ gs \in Seq(Hearing) /\ Len(ns) = c /\ Len(gs) = c
      /\ \A i \in 1..c : ns[i] = m /\ gs[i] = h
  BY <1>3, <1>4
<1> HIDE DEF ns, gs
<1>7. HeardBy(api, ns, gs)
  BY <1>5, <1>6 DEF HeardBy
<1>8. /\ messages \in Seq(Message) /\ heard \in Seq(Hearing) /\ HeardBy(api, messages, heard)
  BY DEF Dialogue, DialogueTypes, Understood
<1>9. HeardBy(api, messages \o ns, heard \o gs)
  BY <1>6, <1>7, <1>8, HeardTogether
<1>10. /\ messages \o ns \in Seq(Message) /\ heard \o gs \in Seq(Hearing)
       /\ messages \o ns # <<>>
  BY <1>1, <1>6, <1>8, ConcatProperties, ConcatEqualIffEmpty
<1>11. QED
  BY <1>1, <1>9, <1>10, Sending

LEMMA Continuing ==
  ASSUME Dialogue, ContinueAnswer
  PROVE  Dialogue'
<1>1. Send(messages) /\ messages # <<>> /\ heard' = heard
  BY DEF ContinueAnswer
<1>2. /\ messages \in Seq(Message) /\ heard \in Seq(Hearing) /\ HeardBy(api, messages, heard)
  BY DEF Dialogue, DialogueTypes, Understood
<1>3. QED
  BY <1>1, <1>2, Sending

LEMMA AnswersWithCalls ==
  ASSUME NEW x \in Content, NEW k \in Nat, NEW m,
         m = [role |-> "assistant", content |-> x, calls |-> k]
  PROVE  m \in Message /\ m.role = "assistant" /\ m.content = x /\ m.calls = k
BY DEF Message

\* What becomes a message is what Kiro said, or is vague.
LEMMA AnswerIsHeard ==
  ASSUME DialogueTypes, Response, StreamTellsAnswer
  PROVE  /\ AssistantMessage \in Message /\ HeardAnswer \in Hearing
         /\ Matches(Shown(api, AssistantMessage), HeardAnswer)
<1>0. stream.text = said /\ api \in {"anthropic", "anthropic stream", "openai"}
  BY DEF StreamTellsAnswer, DialogueTypes
<1>1. said \in Text /\ Len(loop.contexts) \in Nat /\ Len(stream.calls) \in Nat
  <2>1. said \in Text /\ loop.contexts \in Seq(ToolUse) /\ stream.calls \in Seq(ToolUse)
    BY DEF Response, ResponseTypes
  <2>2. QED
    BY <2>1, LenProperties
<1>2. /\ CollectedText = IF calls = <<>> THEN said ELSE <<>>
      /\ Len(loop.contexts) > 0 => calls # <<>>
      /\ CollectedText \in Text
  <2>1. CollectedTellsAnswer /\ calls \in Seq(Call)
    BY DEF Response, ResponseTypes
  <2>2. CollectedText = IF calls = <<>> THEN said ELSE <<>>
    BY <2>1 DEF CollectedTellsAnswer
  <2>3. Len(loop.contexts) = Len(calls) - (IF Calling THEN 1 ELSE 0)
    BY <2>1 DEF CollectedTellsAnswer
  <2>4. Len(loop.contexts) > 0 => calls # <<>>
    BY <2>1, <2>3
  <2>5. <<>> \in Text
    BY DEF Text
  <2>6. QED
    BY <1>1, <2>2, <2>4, <2>5
<1>3. /\ HeardAnswer.role = "assistant" /\ HeardAnswer.text = said
      /\ HeardAnswer.vague <=> said = <<>> \/ (api # "anthropic stream" /\ calls # <<>>)
      /\ HeardAnswer \in Hearing
  BY <1>1 DEF HeardAnswer, Hearing
<1> DEFINE t == CollectedText
<1>5. CASE api = "openai"
  <2> DEFINE k == Len(loop.contexts)
             m == AssistantMessage
  <2>1. m = [role |-> "assistant", content |-> StringOf(t), calls |-> k]
    BY <1>5 DEF AssistantMessage, MessageOf
  <2>2. StringOf(t) \in Content /\ openAIContentText(StringOf(t)) = t
    BY <1>2, ContentsOf, TextsAreSaid
  <2>3. m \in Message /\ m.role = "assistant" /\ m.content = StringOf(t) /\ m.calls = k
    BY <1>1, <2>1, <2>2, AnswersWithCalls
  <2> HIDE DEF m
  <2>4. CASE k > 0
    <3>1. OpenAIMessage(m) = MessageOf("assistant", MapsOf(<<>>))
      BY <2>3, <2>4 DEF OpenAIMessage
    <3>2. /\ getMessageContent(OpenAIMessage(m).content) = Default
          /\ OpenAIMessage(m).role = "assistant"
      BY <3>1 DEF getMessageContent, MapsOf, MessageOf
    <3>3. QED
      BY <1>2, <1>3, <1>5, <2>3, <2>4, <3>2 DEF m, Shown, Matches, Faithful
  <2>5. CASE ~(k > 0)
    <3>1. OpenAIMessage(m) = MessageOf("assistant", StringOf(t))
      BY <2>2, <2>3, <2>5 DEF OpenAIMessage
    <3>2. /\ getMessageContent(OpenAIMessage(m).content) = IF t = <<>> THEN Default ELSE t
          /\ OpenAIMessage(m).role = "assistant"
      <4>1. getMessageContent(StringOf(t)) = IF t = <<>> THEN Default ELSE t
        BY <1>2, TextsAreSaid
      <4>2. QED
        BY <3>1, <4>1 DEF MessageOf
    <3>3. QED
      BY <1>2, <1>3, <1>5, <2>3, <3>2 DEF m, Shown, Matches, Faithful
  <2>6. QED
    BY <2>4, <2>5
<1>6. CASE api = "anthropic stream"
  <2> DEFINE x == ListOf(<<said>>)
  <2>1. x \in Content /\ getMessageContent(x) = said
    <3>1. said \in Text => <<said>> \in Seq(Text)
      OBVIOUS
    <3>2. QED
      BY <1>1, <3>1, ContentsOf, TextsAreSaid
  <2>2. AssistantMessage =
          [role |-> "assistant", content |-> x, calls |-> Len(stream.calls)]
    BY <1>0, <1>6 DEF AssistantMessage, MessageOf
  <2> HIDE DEF x
  <2>3. /\ AssistantMessage \in Message /\ AssistantMessage.role = "assistant"
        /\ AssistantMessage.content = x
    BY <1>1, <2>1, <2>2, AnswersWithCalls
  <2>4. QED
    BY <1>3, <1>6, <2>1, <2>3 DEF Shown, Matches, Faithful
<1>7. CASE api = "anthropic"
  <2> DEFINE s == IF t = <<>> THEN <<>> ELSE <<t>>
             x == ListOf(s)
  <2>1. x \in Content /\ getMessageContent(x) = IF t = <<>> THEN Default ELSE t
    <3>1. s \in Seq(Text)
      BY <1>2
    <3>2. QED
      BY <1>2, <3>1, ContentsOf, TextsAreSaid
  <2>2. AssistantMessage =
          [role |-> "assistant", content |-> x, calls |-> Len(loop.contexts)]
    BY <1>7 DEF AssistantMessage, MessageOf
  <2> HIDE DEF x
  <2>3. /\ AssistantMessage \in Message /\ AssistantMessage.role = "assistant"
        /\ AssistantMessage.content = x
    BY <1>1, <2>1, <2>2, AnswersWithCalls
  <2>4. QED
    BY <1>2, <1>3, <1>7, <2>1, <2>3 DEF Shown, Matches, Faithful
<1>8. QED
  BY <1>0, <1>5, <1>6, <1>7

LEMMA EndingResponse ==
  ASSUME Dialogue, Response, StreamTellsAnswer, EndResponse
  PROVE  Dialogue'
<1>1. /\ api' = api /\ system' = system /\ request' = request /\ cost' = cost
      /\ at' = "client" /\ answered' = FALSE
      /\ messages' = Append(messages, AssistantMessage) /\ heard' = Append(heard, HeardAnswer)
  BY DEF EndResponse, EndTurn
<1>2. /\ DialogueTypes /\ HeardBy(api, messages, heard)
      /\ messages \in Seq(Message) /\ heard \in Seq(Hearing)
  BY DEF Dialogue, DialogueTypes, Understood
<1>3. /\ AssistantMessage \in Message /\ HeardAnswer \in Hearing
      /\ Matches(Shown(api, AssistantMessage), HeardAnswer)
  BY <1>2, AnswerIsHeard
<1>4. /\ HeardBy(api, messages', heard')
      /\ messages' \in Seq(Message) /\ heard' \in Seq(Hearing)
  BY <1>1, <1>2, <1>3, HeardOneMore
<1>5. DialogueTypes'
  BY <1>1, <1>2, <1>4 DEF DialogueTypes
<1>6. Understood'
  BY <1>1, <1>4 DEF Understood
<1>7. QED
  BY <1>5, <1>6 DEF Dialogue

\* Frames are no messages, and a refused request leaves none.
LEMMA NothingHeard ==
  ASSUME Dialogue, UNCHANGED <<api, system, messages, heard, request>>,
         at' = at \/ at' = "client", answered' \in BOOLEAN, cost' \in 0..MaxCost
  PROVE  Dialogue'
<1>1. DialogueTypes'
  BY DEF Dialogue, DialogueTypes
<1>2. Understood'
  BY DEF Dialogue, Understood, buildCodeWhispererRequest, Instructions
<1>3. QED
  BY <1>1, <1>2 DEF Dialogue

LEMMA DialogueKeeps ==
  ASSUME Dialogue, Response, StreamTellsAnswer, [DialogueNext]_dialogueVars
  PROVE  Dialogue'
<1>1. turns \in Nat /\ answered \in BOOLEAN /\ cost \in 0..MaxCost
  BY DEF Dialogue, DialogueTypes, Response, ResponseTypes
<1>2. CASE ClientStep
  BY <1>1, <1>2, Asking, ReturningBlocks, ReturningMessages, Continuing DEF ClientStep
<1>3. CASE EndResponse
  BY <1>3, EndingResponse
<1>4. CASE Refuse
  <2>1. /\ UNCHANGED <<api, system, messages, heard, request>>
        /\ at' = "client" /\ answered' = FALSE /\ cost' = cost
    BY <1>4 DEF Refuse, EndTurn
  <2>2. QED
    BY <1>1, <2>1, NothingHeard
<1>5. CASE KiroSpeaks \/ KiroCalls \/ KiroGivesInput \/ KiroEndsCall \/ KiroNotes
  <2>1. PICK f : Frame(f)
    BY <1>5 DEF KiroSpeaks, KiroCalls, KiroGivesInput, KiroEndsCall, KiroNotes
  <2>2. /\ UNCHANGED <<api, system, messages, heard, request>>
        /\ at' = at /\ answered' = TRUE /\ cost' = cost + 1 /\ cost < MaxCost
    BY <2>1 DEF Frame
  <2>4. cost' \in 0..MaxCost
    BY <1>1, <2>2
  <2>3. QED
    BY <2>2, <2>4, NothingHeard
<1>6. CASE UNCHANGED dialogueVars
  BY <1>1, <1>6, NothingHeard DEF dialogueVars, responseVars
<1>7. QED
  BY <1>2, <1>3, <1>4, <1>5, <1>6 DEF DialogueNext, KiroStep

LEMMA DialogueAtFirst == DialogueInit => Dialogue
<1> SUFFICES ASSUME DialogueInit PROVE Dialogue
  OBVIOUS
<1>1. /\ api \in {"anthropic", "anthropic stream", "openai"} /\ system \in BOOLEAN
      /\ at = "client" /\ request = [history |-> <<>>, current |-> <<>>]
      /\ answered = FALSE /\ cost = 0
  BY Zenon DEF DialogueInit
<1>2. request \in [history : Seq(Entry), current : Text]
  <2>1. <<>> \in Seq(Entry) /\ <<>> \in Text
    BY DEF Text
  <2>2. QED
    BY <1>1, <2>1
<1>3. /\ messages \in Seq(Message) /\ heard \in Seq(Hearing) /\ HeardBy(api, messages, heard)
  <2> DEFINE t == << <<"kiro", 0, 0>> >>
             m == MessageOf("assistant", StringOf(t))
             h == [role |-> "assistant", text |-> t, vague |-> FALSE]
  <2>1. \/ messages = <<>> /\ heard = <<>>
        \/ messages = <<m>> /\ heard = <<h>>
    BY DEF DialogueInit
  <2>2. t \in Text /\ t # <<>>
    <3>1. <<"kiro", 0, 0>> \in Piece
      BY DEF Piece
    <3>2. QED
      BY <3>1 DEF Text
  <2> HIDE DEF t
  <2>3. m \in Message /\ h \in Hearing
    <3>1. StringOf(t) \in Content
      BY <2>2, ContentsOf
    <3>2. QED
      BY <2>2, <3>1 DEF MessageOf, Message, Hearing
  <2>4. Matches(Shown(api, m), h)
    <3>1. getMessageContent(StringOf(t)) = t /\ openAIContentText(StringOf(t)) = t
      BY <2>2, TextsAreSaid
    <3>2. OpenAIMessage(m) = MessageOf("assistant", StringOf(t))
      BY <3>1 DEF OpenAIMessage, MessageOf
    <3>3. Shown(api, m) = MessageOf("assistant", StringOf(t))
      BY <3>2 DEF Shown
    <3>4. QED
      BY <3>1, <3>3 DEF Matches, Faithful, MessageOf
  <2> HIDE DEF m, h
  <2>5. <<m>> \in Seq(Message) /\ <<h>> \in Seq(Hearing) /\ HeardBy(api, <<m>>, <<h>>)
    <3>1. /\ <<m>> \in Seq(Message) /\ <<h>> \in Seq(Hearing)
          /\ Len(<<m>>) = 1 /\ Len(<<h>>) = 1 /\ <<m>>[1] = m /\ <<h>>[1] = h
      BY <2>3
    <3>2. \A i \in 1..1 : i = 1
      OBVIOUS
    <3>3. QED
      BY <2>4, <3>1, <3>2 DEF HeardBy
  <2>6. <<>> \in Seq(Message) /\ <<>> \in Seq(Hearing) /\ HeardBy(api, <<>>, <<>>)
    BY DEF HeardBy
  <2>7. QED
    BY <2>1, <2>5, <2>6
<1>4. 0 \in 0..MaxCost
  OBVIOUS
<1>5. QED
  BY <1>1, <1>2, <1>3, <1>4 DEF Dialogue, DialogueTypes, Understood

\* The answers are right, and so is what is made of them.
LEMMA AnswersAreRight == DialogueSpec => [](Response /\ StreamTellsAnswer)
BY FreshAtFirst, FreshIsRight, DialogueStep, PTL DEF DialogueSpec

LEMMA DialogueIsRight == DialogueSpec => []Dialogue
<1>1. Dialogue /\ (Response /\ StreamTellsAnswer) /\ [DialogueNext]_dialogueVars => Dialogue'
  BY DialogueKeeps
<1>2. QED
  BY <1>1, AnswersAreRight, DialogueAtFirst, PTL DEF DialogueSpec

\* The variables of a dialogue have their types, whatever is said and called in it.
THEOREM DialogueTypeCorrect == DialogueSpec => []DialogueTypeOK
<1>1. Dialogue /\ (Response /\ StreamTellsAnswer) => DialogueTypeOK
  BY DEF Dialogue, DialogueTypes, Response, ResponseTypes, Hearing, DialogueTypeOK
<1>2. QED
  BY <1>1, AnswersAreRight, DialogueIsRight, PTL

\* What buildCodeWhispererRequest makes of the messages of a client tells Kiro the
\* dialogue as it was, over any number of turns of any length.
THEOREM DialogueIsTold == DialogueSpec => []ContextIsTold
<1>1. Dialogue => ContextIsTold
  BY RequestTells
<1>2. QED
  BY <1>1, DialogueIsRight, PTL
=============================================================================
