----------------------------- MODULE ChatService ----------------------------
(***************************************************************************)
(* A conversation in the web client: ChatProvider and its event stream     *)
(* (services/chat.tsx), the input field (components/inputs/chat-input.tsx) *)
(* and the buttons of a message (chat-messages.tsx). The server answers a  *)
(* request with a body of lines, one per token, that reaches the client in *)
(* chunks cut anywhere. A callback with the reactions it settles is one    *)
(* action, as in HttpStream.                                               *)
(***************************************************************************)
EXTENDS ChatHelper

CONSTANTS
    Format,       \* formats of the models' texts: "qwen", "gpt", "other"
    Outputs,      \* per format: texts a model may generate
    MaxRequests,  \* bound: requests
    MaxChanges    \* bound: changes of the cluster's status

\* What a line may carry; "blank" stands for a line without content.
Token == STRING \ {"blank"}

ASSUME ChatAssumption ==
    /\ Format \subseteq {"qwen", "gpt", "other"}
    /\ \A f \in Format : Outputs[f] \subseteq Seq(Token)
    /\ MaxRequests \in Nat /\ MaxChanges \in Nat

VARIABLES
    status,     \* closed, opened, generating or error
    messages,   \* of [role, req, st, raw, thinking, content]; req is the request of a message
    input,      \* the text in the field: blank or text
    requests,   \* every request so far: [phase, left, buffer, out, asked, how]; phase is
                \* fetching, reading or over, how is none, ended, stopped or failed
    reader,     \* the request whose reader the variable holds, or 0
    format,     \* of the model the cluster hosts
    avail,      \* clusterStatus = 'available'
    changes     \* changes of avail so far

vars == <<status, messages, input, requests, reader, format, avail, changes>>

\* A text as it is sent: a line per token between lines without content (the
\* role, the finish reason), each in two pieces of which the second ends it.
Lines(out) == <<"blank">> \o out \o <<"blank">>
Body(out) ==
    [i \in 1..(2 * Len(Lines(out))) |->
        [tok |-> Lines(out)[(i + 1) \div 2], last |-> i % 2 = 0]]

Init ==
    /\ status = "closed" /\ messages = << >>
    /\ input = "blank"
    /\ requests = << >> /\ reader = 0
    /\ format \in Format /\ avail = FALSE /\ changes = 0

Live(r) == requests[r].phase # "over"

\* The part of onMessage that extracts thinking and content.
Parse(raw) ==
    CASE format = "gpt"  -> parseGenerationGpt(raw)
      [] format = "qwen" -> parseGenerationQwen(raw)
      [] OTHER           -> [think |-> << >>, content |-> raw]

-----------------------------------------------------------------------------
(* The callbacks of the stream.                                            *)

\* setMessages in onClose and in onError.
CloseLast(list) == [list EXCEPT ![Len(list)].st = "done"]

Message(role, r) ==
    [role |-> role, req |-> r, st |-> "done", raw |-> << >>, thinking |-> << >>, content |-> << >>]

Parsed(message, raw, map) ==
    [message EXCEPT !.raw = raw, !.thinking = map.think, !.content = map.content,
                    !.st = IF map.content # << >> THEN "generating" ELSE "thinking"]

WithRaw(message, raw) ==
    CHOOSE m \in UNION {{Parsed(message, text, map) : map \in {Parse(text)}} : text \in {raw}} : TRUE

\* setMessages in onMessage: deltas extend the last message when that is the
\* assistant's, and start one otherwise.
AddDeltas(list, r, deltas) ==
    IF list[Len(list)].role = "assistant"
    THEN [list EXCEPT ![Len(list)] = WithRaw(@, @.raw \o deltas)]
    ELSE Append(list, WithRaw(Message("assistant", r), deltas))

\* onMessage for the lines of a chunk, in their order. Lines without content
\* change nothing.
OnMessages(r, deltas) ==
    IF deltas = << >> THEN UNCHANGED <<status, messages>>
    ELSE status' = "generating" /\ messages' = AddDeltas(messages, r, deltas)

\* Mutant: what follows the last line end of a chunk is dropped.
NothingLeft(buffer) == << >>

\* The buffer after its lines have been taken: what follows the last line end.
Rest(buffer) == IF buffer[Len(buffer)].last THEN << >> ELSE <<buffer[Len(buffer)]>>

\* Whether all of the line that ends with piece i is in the buffer.
IsWhole(buffer, i) ==
    i > 1 /\ buffer[i].last /\ ~buffer[i - 1].last /\ buffer[i - 1].tok = buffer[i].tok

\* processLines, for piece i. A line is understood when all of it is there.
TakeLine(buffer, deltas, i) ==
    IF IsWhole(buffer, i) /\ buffer[i].tok # "blank" THEN Append(deltas, buffer[i].tok)
    ELSE deltas

\* processLines: the deltas in the lines of the buffer.
Deltas(buffer) ==
    FoldLeft(LAMBDA deltas, i : TakeLine(buffer, deltas, i), << >>, [i \in DOMAIN buffer |-> i])

Over(r, how) ==
    requests' = [requests EXCEPT ![r] = [@ EXCEPT !.phase = "over", !.left = << >>,
                                                  !.buffer = << >>, !.how = how]]

OnClose == status' = "closed" /\ messages' = CloseLast(messages)
OnError == status' = "error" /\ messages' = CloseLast(messages)

-----------------------------------------------------------------------------
(* What the user does.                                                     *)

World == <<format, avail, changes>>

Ids(list) == [i \in DOMAIN list |-> <<list[i].role, list[i].req>>]

\* sse.connect
Connect(list) ==
    /\ Len(requests) < MaxRequests
    /\ requests' = Append(requests, [phase |-> "fetching", left |-> << >>, buffer |-> << >>,
                                     out |-> << >>, asked |-> Ids(list), how |-> "none"])
    /\ messages' = list
    /\ status' = "opened"
    /\ UNCHANGED reader

\* The main button of the input is disabled while the chat is opened or the
\* cluster is not available; the clear button while a request runs.
MainEnabled  == avail /\ status # "opened"
ClearEnabled == status \notin {"opened", "generating"}

\* The guards of generate; a cluster that is available hosts a model.
CanGenerate == avail /\ status \notin {"opened", "generating"}

\* generate() for the input.
Generate ==
    /\ CanGenerate /\ input = "text"
    /\ input' = "blank"
    /\ Connect(Append(messages, Message("user", Len(requests) + 1)))

Type ==
    /\ \E text \in {"blank", "text"} \ {input} : input' = text
    /\ UNCHANGED <<status, messages, requests, reader, World>>

\* onKeyDown with Enter (a composition only withholds it), or onClickMainButton
\* while nothing is generated.
Send == Generate /\ UNCHANGED World

\* The messages that a regeneration of an assistant's message keeps.
Before(i) == SubSeq(messages, 1, i - 1)

\* The button is there for a finished message of the assistant.
ShowRegenerate(message) == message.role = "assistant" /\ message.st = "done"

\* generate(message)
Regenerate ==
    /\ CanGenerate
    /\ \E i \in DOMAIN messages : ShowRegenerate(messages[i]) /\ Connect(Before(i))
    /\ UNCHANGED <<input, World>>

\* Mutant: disconnect leaves the stream.
CloseOnly == OnClose /\ UNCHANGED <<requests, reader>>

\* disconnect: the cancelled read ends the loop, which closes once more.
Disconnect ==
    /\ Over(reader, "stopped")
    /\ reader' = 0
    /\ OnClose

\* onClickMainButton while text is generated.
Stop ==
    /\ MainEnabled /\ status = "generating"
    /\ Disconnect
    /\ UNCHANGED <<input, World>>

Clear ==
    /\ ClearEnabled /\ messages # << >>
    /\ messages' = << >>
    /\ UNCHANGED <<status, input, requests, reader, World>>

-----------------------------------------------------------------------------
(* What the server and the network do.                                     *)

Client == <<input, World>>

\* The answer is a stream.
Responds(r) ==
    /\ requests[r].phase = "fetching"
    /\ \E out \in Outputs[format] :
         requests' = [requests EXCEPT ![r] = [@ EXCEPT !.phase = "reading", !.out = out,
                                                       !.left = Body(out)]]
    /\ reader' = r
    /\ UNCHANGED <<status, messages, Client>>

\* The answer is no stream or not OK, or the fetch fails.
Refused(r) ==
    /\ requests[r].phase = "fetching"
    /\ Over(r, "failed")
    /\ OnError
    /\ UNCHANGED <<reader, Client>>

\* The loop reads a chunk.
Chunk(r) ==
    /\ requests[r].phase = "reading"
    /\ \E n \in 1..Len(requests[r].left) :
       \E buffer \in {requests[r].buffer \o SubSeq(requests[r].left, 1, n)} :
         /\ \E deltas \in {Deltas(buffer)} : OnMessages(r, deltas)
         /\ requests' = [requests EXCEPT ![r] =
              [@ EXCEPT !.buffer = Rest(buffer),
                        !.left = SubSeq(requests[r].left, n + 1, Len(requests[r].left))]]
    /\ UNCHANGED <<reader, Client>>

\* Mutant: an answer without text is not closed.
DoneWithText(r) ==
    /\ requests[r].phase = "reading" /\ requests[r].left = << >>
    /\ messages[Len(messages)].role = "assistant"
    /\ Over(r, "ended")
    /\ OnClose
    /\ UNCHANGED <<reader, Client>>

\* The body has ended.
Done(r) ==
    /\ requests[r].phase = "reading" /\ requests[r].left = << >>
    /\ Over(r, "ended")
    /\ OnClose
    /\ UNCHANGED <<reader, Client>>

\* The connection breaks; the read rejects.
Breaks(r) ==
    /\ requests[r].phase = "reading"
    /\ Over(r, "failed")
    /\ OnError
    /\ UNCHANGED <<reader, Client>>

\* The cluster becomes available, or stops to be; no stream notices.
ClusterChanges ==
    /\ changes < MaxChanges /\ changes' = changes + 1
    /\ avail' = ~avail
    /\ UNCHANGED <<status, messages, input, requests, reader, format>>

Answers == \E r \in DOMAIN requests : Responds(r) \/ Refused(r)
Reads   == \E r \in DOMAIN requests : Chunk(r) \/ Done(r)
Fails   == \E r \in DOMAIN requests : Breaks(r)

Next ==
    \/ Type \/ Send \/ Regenerate \/ Stop \/ Clear
    \/ Answers \/ Reads \/ Fails \/ ClusterChanges

\* The server answers a request, and a body that is open goes on and ends.
\* The client has no timeout of its own.
Fairness == WF_vars(Answers) /\ WF_vars(Reads)

Spec == Init /\ [][Next]_vars /\ Fairness

-----------------------------------------------------------------------------
(* The status says whether a request runs: opened and generating exactly   *)
(* while one does, and never two; a message is unfinished only while it is *)
(* being generated, as the last one. The guards of generate and clear and  *)
(* the buttons all rely on it, across stop, errors and regenerations.      *)
StatusMatchesStream ==
    /\ status \in {"opened", "generating"} <=> \E r \in DOMAIN requests : Live(r)
    /\ \A r, s \in DOMAIN requests : Live(r) /\ Live(s) => r = s
    /\ \A i \in DOMAIN messages : messages[i].st # "done" =>
         /\ status = "generating" /\ i = Len(messages)
         /\ messages[i].role = "assistant" /\ Live(messages[i].req)

(* Every answer stands right after the messages its request was made with, *)
(* and holds the text generated for that request: in order, without a gap  *)
(* and to the end unless it was stopped or failed. Chunks cut a line in    *)
(* two, and a stop, an error, a regeneration and a new request may follow  *)
(* each other closely (onMessage extends whatever message is the last).    *)
AnswersItsQuestion ==
    \A i \in DOMAIN messages : messages[i].role = "assistant" =>
        LET r == requests[messages[i].req]
        IN  /\ r.asked = Ids(SubSeq(messages, 1, i - 1))
            /\ IsPrefix(messages[i].raw, r.out)
            /\ r.how = "ended" => messages[i].raw = r.out

(* At every moment of a stream, what is shown as thought and what is shown *)
(* as answer are what a reader of the format takes from the text so far:   *)
(* an unfinished thought is never shown as answer (chat-helper.tsx).       *)
ThoughtsHidden ==
    \A i \in DOMAIN messages : messages[i].role = "assistant" =>
        [think |-> messages[i].thinking, content |-> messages[i].content] =
            Reading(messages[i].raw, IF format = "gpt" THEN "none" ELSE "final")

(* A chat that has been opened is closed again, or shows an error: every   *)
(* way a request ends reaches the status.                                  *)
AnswerEnds ==
    status \in {"opened", "generating"} ~> status \in {"closed", "error"}
=============================================================================
