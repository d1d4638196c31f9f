----------------------------- MODULE RequestReply ------------------------------
(***************************************************************************)
(* What the background script relies on when it posts a request to the     *)
(* native stub: the request is carried out once, and its one reply comes   *)
(* back under the id it was posted with, in whatever order.  No id is used *)
(* twice.                                                                  *)
(***************************************************************************)

VARIABLES
  used,       \* ids handed out so far
  asked,      \* requests posted and not yet finished
  answered    \* requests finished, their replies on the way back

vars == <<used, asked, answered>>

Init == used = {} /\ asked = {} /\ answered = {}

\* Post requests under fresh ids; a close posts several at once.
Ask ==
  /\ used \subseteq used' /\ used' # used
  /\ asked' = asked \cup (used' \ used)
  /\ UNCHANGED answered

\* Finish one of them, with success or with an error.
Finish ==
  \E id \in asked :
    /\ asked' = asked \ {id}
    /\ answered' = answered \cup {id}
    /\ UNCHANGED used

\* Hand one reply to whoever asked.
Deliver ==
  \E id \in answered :
    /\ answered' = answered \ {id}
    /\ UNCHANGED <<used, asked>>

Next == Ask \/ Finish \/ Deliver

Spec == Init /\ [][Next]_vars

================================================================================
