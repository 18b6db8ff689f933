------------------------------- MODULE GrowLink -------------------------------
(***************************************************************************)
(* What transfer_ promises its callers (abstract).  Commands are numbered;  *)
(* the answer to command n is n, whatever it says.  unread holds, oldest    *)
(* first, the answers the reader has given (or is about to give) that the   *)
(* parser has not returned.  Answers are returned in the order of their     *)
(* commands, each at most once; any of them may be missed; nothing is made  *)
(* up but the silence 0 of a reader that did not answer in time.            *)
(***************************************************************************)
EXTENDS GrowReply

VARIABLES
  sent,      \* number of the last command
  waiting,   \* transfer_ is under way
  unread,
  response   \* what the last transfer_ returned

vars == <<sent, waiting, unread, response>>

Init ==
  /\ sent = 0
  /\ waiting = FALSE
  /\ unread = <<>>
  /\ response = 0

\* Whatever has arrived is discarded; the reader answers or does not.
Command ==
  /\ ~waiting
  /\ waiting' = TRUE
  /\ sent' = sent + 1
  /\ \E kept \in Suffixes(unread) : unread' \in {kept, Append(kept, sent + 1)}
  /\ UNCHANGED response

\* An answer is not recognised, or is lost on the line.
Miss ==
  /\ \E i \in DOMAIN unread : unread' = RemoveAt(unread, i)
  /\ UNCHANGED <<sent, waiting, response>>

\* The parser may take the bytes of later answers for the end of this one.
Return ==
  /\ waiting /\ waiting' = FALSE
  /\ unread # <<>>
  /\ response' = Head(unread)
  /\ unread' \in Suffixes(Tail(unread))
  /\ UNCHANGED sent

GiveUp ==
  /\ waiting
  /\ waiting' = FALSE
  /\ response' = 0
  /\ unread' \in Suffixes(unread)
  /\ UNCHANGED sent

Next == Command \/ Miss \/ Return \/ GiveUp

Spec == Init /\ [][Next]_vars
==============================================================================
