----------------------------- MODULE MCQwenChat -----------------------------
(***************************************************************************)
(* Two chats, one of them without a system prompt, on a runner that grows  *)
(* from four tokens to nine or was given seven.  A turn of "a" takes four  *)
(* tokens and its answer, one of "b" three: two turns of "b" fit, two of   *)
(* "a" do not.                                                             *)
(***************************************************************************)
EXTENDS QwenChat

MCToken == {"s", "p", "q", "g", "eot", "nl", "x"}
MCChat == {"a", "b"}
MCSystem == [a |-> <<"s">>, b |-> <<>>]
MCPrompt == [a |-> {<<"p", "p">>}, b |-> {<<"q">>}]
MCLoads == {[size |-> 4, auto |-> TRUE], [size |-> 7, auto |-> FALSE]}
MCNewline == <<"nl">>
MCForeign == <<"x">>
MCBudget == {-1, 2}
=============================================================================
