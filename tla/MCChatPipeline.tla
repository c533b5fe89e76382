--------------------------- MODULE MCChatPipeline ---------------------------
(* ChatPipeline for a few prompts that tell its paths apart: a sensitive   *)
(* system message, a blocked text after a plain one, an assistant turn of  *)
(* the client's history, a name only the sidecar finds, a stream.          *)
EXTENDS ChatPipeline, TLC

CONSTANT r1

Pol(action, deep, rag) == [action |-> action, deep |-> deep, rag |-> rag]
MCPolicySets ==
  {Pol("redact", TRUE, TRUE), Pol("block", FALSE, TRUE), Pol("flag", FALSE, FALSE)}

From(role, kind) == Message(role, "client", Text(kind, FALSE))
MCPrompts ==
  {[msgs |-> <<From("system", "pii"), From("user", "plain")>>, stream |-> FALSE],
   [msgs |-> <<From("user", "plain"), From("user", "pii")>>, stream |-> TRUE],
   [msgs |-> <<From("assistant", "pii"), From("user", "name")>>, stream |-> FALSE]}
MCReplies == {Text("plain", FALSE), Text("pii", FALSE)}
MCRequests == {r1}
=============================================================================
