----------------------------- MODULE ChatHelper -----------------------------
(***************************************************************************)
(* How the web client splits the text of a model into thoughts and answer  *)
(* (services/chat-helper.tsx). A text is a sequence of tokens: the tags of *)
(* the two formats, the names of channels and plain words. White space,    *)
(* which the code trims, is left out.                                      *)
(***************************************************************************)
EXTENDS Naturals, Sequences, SequencesExt, FiniteSetsExt

\* <think> </think>, and <|channel|> <|message|> <|end|>
Tag == {"open", "close", "channel", "message", "end"}

\* indexOf, with 0 for -1
IndexOf(text, tok) ==
    IF tok \in ToSet(text) THEN Min({i \in DOMAIN text : text[i] = tok}) ELSE 0

\* FoldLeft with every intermediate result bound to a value, which TLC then
\* evaluates once.
FoldValues(op(_, _), base, seq) ==
    FoldLeft(LAMBDA acc, x : CHOOSE v \in {op(a, x) : a \in {acc}} : TRUE, base, seq)

-----------------------------------------------------------------------------
(* parseGenerationQwen                                                     *)

\* Mutant: only a closed block is a thought.
RemoveClosedThink(b) ==
    LET start == IndexOf(b.buffer, "open")
        close == IndexOf(b.buffer, "close")
    IN  IF start = 0 \/ close < start THEN b
        ELSE [buffer |-> SubSeq(b.buffer, 1, start - 1) \o SubSeq(b.buffer, close + 1, Len(b.buffer)),
              think  |-> b.think \o SubSeq(b.buffer, start + 1, close - 1)]

\* One turn of the loop: the first block leaves the buffer. A block that is
\* not closed after it was opened reaches to the end.
RemoveThink(b) ==
    LET start == IndexOf(b.buffer, "open")
        close == IndexOf(b.buffer, "close")
        stop  == IF close > start THEN close ELSE Len(b.buffer) + 1
    IN  IF start = 0 THEN b
        ELSE [buffer |-> SubSeq(b.buffer, 1, start - 1) \o SubSeq(b.buffer, stop + 1, Len(b.buffer)),
              think  |-> b.think \o SubSeq(b.buffer, start + 1, stop - 1)]

\* The loop ends when no block is left; every turn removes an opening tag.
parseGenerationQwen(raw) ==
    LET last == FoldValues(LAMBDA b, tag : RemoveThink(b), [buffer |-> raw, think |-> << >>],
                           SelectSeq(raw, LAMBDA tok : tok = "open"))
    IN  [think |-> last.think, content |-> last.buffer]

-----------------------------------------------------------------------------
(* parseGenerationGpt: the matches of the regular expression               *)
(*     <|channel|>([^<]+)<|message|>(.*?)(<|end|>|$)                       *)

\* The place of <|message|> of a header that starts at i, or 0.
HeaderEnd(raw, i) ==
    LET tags == {j \in (i + 1)..Len(raw) : raw[j] \in Tag}
    IN  IF raw[i] = "channel" /\ tags # {} /\ Min(tags) > i + 1 /\ raw[Min(tags)] = "message"
        THEN Min(tags) ELSE 0

\* Where the message that starts after j ends.
BodyEnd(raw, j) == Min({k \in (j + 1)..Len(raw) : raw[k] = "end"} \cup {Len(raw) + 1}) - 1

\* The matches: headers that are not inside the text of an earlier match.
Matches(raw) ==
    LET headers == {i \in DOMAIN raw : HeaderEnd(raw, i) # 0}
    IN  {i \in headers : \A h \in headers : h < i => BodyEnd(raw, HeaderEnd(raw, h)) < i}

\* map[name]: the text of the last match of that name.
Channel(raw, name) ==
    LET named == {i \in Matches(raw) : SubSeq(raw, i + 1, HeaderEnd(raw, i) - 1) = <<name>>}
    IN  IF named = {} THEN << >>
        ELSE SubSeq(raw, HeaderEnd(raw, Max(named)) + 1, BodyEnd(raw, HeaderEnd(raw, Max(named))))

parseGenerationGpt(raw) ==
    [think |-> Channel(raw, "analysis"), content |-> Channel(raw, "final")]

-----------------------------------------------------------------------------
(* The reference: what a reader takes from a text that follows its format, *)
(* token by token. A tag says what the words after it are.                 *)

ReadToken(r, tok) ==
    CASE tok = "open"                  -> [r EXCEPT !.mode = "analysis"]
      [] tok = "close"                 -> [r EXCEPT !.mode = "final"]
      [] tok = "channel"               -> [r EXCEPT !.mode = "name"]
      [] tok = "end"                   -> [r EXCEPT !.mode = "none"]
      [] tok = "message"               -> [r EXCEPT !.mode = r.name]
      [] tok \notin Tag /\ r.mode = "name"     -> [r EXCEPT !.name = tok]
      [] tok \notin Tag /\ r.mode = "analysis" -> [r EXCEPT !.think = Append(@, tok)]
      [] tok \notin Tag /\ r.mode = "final"    -> [r EXCEPT !.content = Append(@, tok)]
      [] OTHER                         -> r

\* Outside any tag the words of a Qwen text are answer, those of a GPT text nothing.
Reading(raw, start) ==
    LET r == FoldValues(ReadToken, [mode |-> start, name |-> "none", think |-> << >>, content |-> << >>], raw)
    IN  [think |-> r.think, content |-> r.content]
=============================================================================
