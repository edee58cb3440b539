------------------------------- MODULE MCChat -------------------------------
(* An instance of ChatService for TLC. *)
EXTENDS ChatService

\* Per format: an answer after a thought, and a text that its limit of tokens
\* cuts off inside a thought; for Qwen also two thoughts, for GPT also a
\* header that is cut off.
MCOutputs == [
    qwen  |-> {<<"open", "a", "close", "b">>, <<"open", "a">>,
               <<"b", "open", "close", "b", "open", "a", "close">>},
    gpt   |-> {<<"channel", "analysis", "message", "a", "end", "channel", "final", "message", "b">>,
               <<"channel", "analysis", "message", "a", "end", "channel">>},
    other |-> {<< >>, <<"b", "a">>}]
=============================================================================
