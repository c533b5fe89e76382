---------------------------- MODULE MaskedStream ----------------------------
(***************************************************************************)
(* What the gateway promises the client of a streamed response, with none  *)
(* of how it keeps the promise: the client's view is a prefix of the reply *)
(* that only grows, each character as it is or masked; what the policies   *)
(* want masked is never in it as it is; a reply that is finished is there  *)
(* to its end, and a stream that ends well holds nothing back.             *)
(*                                                                         *)
(* The one way to lose text is an upstream that fails. StreamDlp           *)
(* implements this module with a tail that it holds back.                  *)
(***************************************************************************)
EXTENDS Naturals, Sequences

CONSTANTS
  Replies,      \* replies, each with the policies it is under
  Size(_),      \* the characters of a reply
  Secret(_, _)  \* reply, n -> what must be masked of its first n characters

VARIABLES
  reply,
  received,     \* the characters that came from upstream
  view,         \* the prefix the client has, each character "plain" or "masked"
  phase

vars == <<reply, received, view, phase>>

Phases == {"open", "finished", "done", "failed"}

Init ==
  /\ reply \in Replies
  /\ received = 0
  /\ view = <<>>
  /\ phase = "open"

\* More is received and more of it given, and what was given stays as it was. A
\* character given earlier must not become part of a secret.
Give ==
  /\ received' \in received .. Size(reply)
  /\ Len(view) <= Len(view') /\ Len(view') <= received'
  /\ \A i \in 1 .. Len(view) : view'[i] = view[i]
  /\ \A i \in 1 .. Len(view') : i - 1 \in Secret(reply, received') => view'[i] = "masked"
  /\ UNCHANGED reply

Relay ==
  /\ phase = "open"
  /\ Give
  /\ phase' = "open"

\* The client is told that the reply is complete.
Finish ==
  /\ phase = "open"
  /\ Give
  /\ Len(view') = Size(reply)
  /\ phase' = "finished"

\* The stream ends well, in one step with the last of the text or after it.
Close ==
  /\ phase \in {"open", "finished"}
  /\ Give
  /\ Len(view') = received'
  /\ phase' = "done"

Fail ==
  /\ phase \in {"open", "finished"}
  /\ phase' = "failed"
  /\ UNCHANGED <<reply, received, view>>

Next == Relay \/ Finish \/ Close \/ Fail

Spec == Init /\ [][Next]_vars
=============================================================================
