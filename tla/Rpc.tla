-------------------------------- MODULE Rpc --------------------------------
(***************************************************************************)
(* What a service promises to those who query it.  A call of Query is      *)
(* either refused at once, and then its callback is never called, or it is *)
(* accepted, and then its callback is called once: with the answer to this *)
(* very request, or with an error.                                         *)
(***************************************************************************)
EXTENDS Sequences

CONSTANTS Reqs, Failed

VARIABLES
  st,      \* how far a request is
  calls    \* what its callback has been called with

vars == <<st, calls>>

Init == /\ st = [r \in Reqs |-> "new"]
        /\ calls = [r \in Reqs |-> <<>>]

Accept(r) == /\ st[r] = "new"
             /\ st' = [st EXCEPT ![r] = "pending"]
             /\ UNCHANGED calls

Refuse(r) == /\ st[r] = "new"
             /\ st' = [st EXCEPT ![r] = "refused"]
             /\ UNCHANGED calls

Callback(r) == /\ st[r] = "pending"
               /\ st' = [st EXCEPT ![r] = "done"]
               /\ \E v \in {r, Failed} : calls' = [calls EXCEPT ![r] = <<v>>]

Next == \E r \in Reqs : Accept(r) \/ Refuse(r) \/ Callback(r)

Spec == Init /\ [][Next]_vars

\* An accepted request does not stay without its callback.
FairSpec == Spec /\ \A r \in Reqs : WF_vars(Callback(r))
=============================================================================
