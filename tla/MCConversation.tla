--------------------------- MODULE MCConversation ----------------------------
(* Two agents: ann gets up to two tool calls in one answer; bob only talks, and *)
(* his user adds questions.                                                     *)
EXTENDS Conversation

TwoAgents == {"ann", "bob"}
MCPrompt == [a \in Agents |-> a]
MCCalls == [a \in Agents |-> IF a = "ann" THEN 2 ELSE 0]
MCAsked == [a \in Agents |-> IF a = "bob" THEN 3 ELSE 0]
=============================================================================
