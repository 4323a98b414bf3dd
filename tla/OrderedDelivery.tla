-------------------------- MODULE OrderedDelivery --------------------------
(***************************************************************************)
(* What IServer promises its callers.  Requests are numbered as they are   *)
(* issued; each is answered at most once, the answers come in the order of *)
(* the requests, only a request that was issued is answered, and nothing   *)
(* is issued or answered once the server is closed.                        *)
(***************************************************************************)
EXTENDS Naturals, Sequences

VARIABLES
  issued,     \* number of requests issued
  delivered,  \* numbers of the requests answered, in the order of the answers
  open        \* the server accepts requests and answers them

vars == <<issued, delivered, open>>

Init == issued = 0 /\ delivered = <<>> /\ open = TRUE

\* Callers, or the server itself, issue requests.
Issue ==
  /\ open
  /\ issued' \in Nat /\ issued' >= issued
  /\ UNCHANGED <<delivered, open>>

\* One request is answered; answering it may issue others.
Answer ==
  /\ open
  /\ \E id \in 1 .. issued :
       /\ \A i \in 1 .. Len(delivered) : delivered[i] < id
       /\ delivered' = Append(delivered, id)
  /\ issued' \in Nat /\ issued' >= issued
  /\ UNCHANGED open

Close ==
  /\ open
  /\ open' = FALSE
  /\ UNCHANGED <<issued, delivered>>

Next == Issue \/ Answer \/ Close

Spec == Init /\ [][Next]_vars
=============================================================================
