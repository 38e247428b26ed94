----------------------------- MODULE MCSupport ------------------------------
(***************************************************************************)
(* A small instance of Support: accounts one of which is listed again and  *)
(* one is disabled; conversations each of which begins the next, of one    *)
(* chunk, a chunk and a half, and two; texts of which the first is one     *)
(* short chunk, and the second has two sections, the first of them longer  *)
(* than a chunk, with a newline and a character of two bytes to end at;    *)
(* each provider as the first and as the fallback; and programs that run a *)
(* tool in each of two messages, that mix the blocks of two tools and say  *)
(* something that belongs to none, and that say what cannot be read.       *)
(***************************************************************************)
EXTENDS Support

MCEntry ==
  <<[id |-> "a", enabled |-> TRUE], [id |-> "b", enabled |-> FALSE],
    [id |-> "c", enabled |-> TRUE], [id |-> "b", enabled |-> TRUE]>>

Says(role, kind, text) == [role |-> role, parts |-> <<[kind |-> kind, text |-> text]>>]
MCConversation ==
  LET first == <<Says("u", "text", <<"a">>)>>
      second == Append(first, Says("s", "tool", <<"b">>))
  IN {first, second, Append(second, Says("u", "text", <<>>))}

MCProviders ==
  {[cheap |-> "openai", fallback |-> "gemini"], [cheap |-> "ollama", fallback |-> "openai"],
   [cheap |-> "gemini", fallback |-> "ollama"]}

MCText ==
  <<[len |-> 3, newlines |-> {}, inside |-> {}, heads |-> {}],
    [len |-> 14, newlines |-> {4}, inside |-> {9}, heads |-> {8}]>>

Line(is, b, text) == [is |-> is, block |-> b, text |-> text]
MCScript ==
  {<<Line("start", 1, ""), Line("args", 1, "a"), Line("stop", 1, ""), Line("start", 1, ""),
     Line("args", 1, "b"), Line("result", 0, "")>>,
   <<Line("start", 0, ""), Line("start", 1, ""), Line("args", 1, "a"), Line("args", 0, "b"),
     Line("stop", 0, ""), Line("args", 0, "c")>>,
   <<Line("text", 0, "a"), Line("error", 0, "b"), Line("text", 0, "c"), Line("result", 0, ""), Line("text", 0, "d")>>,
   <<Line("text", 0, "a"), Line("huge", 0, ""), Line("text", 0, "c")>>}

=============================================================================
