------------------------------ MODULE Stream ------------------------------
(* What RUDP promises to the two ends of a channel: each reads whole the     *)
(* messages the other wrote, each once, in the order they were written.      *)
EXTENDS Naturals, Sequences

CONSTANTS Ends,      \* the two ends of a channel
          Messages   \* what an end may write

Other(e) == CHOOSE o \in Ends : o # e

VARIABLES sent,   \* sent[e]: the messages e has written
          got     \* got[e]: the messages e has read

vars == <<sent, got>>

Init == /\ sent = [e \in Ends |-> <<>>]
        /\ got = [e \in Ends |-> <<>>]

Put(e) == /\ \E m \in Messages : sent' = [sent EXCEPT ![e] = Append(@, m)]
          /\ UNCHANGED got

Get(e) == /\ Len(got[e]) < Len(sent[Other(e)])
          /\ got' = [got EXCEPT ![e] = Append(@, sent[Other(e)][Len(@) + 1])]
          /\ UNCHANGED sent

Next == \E e \in Ends : Put(e) \/ Get(e)

Spec == Init /\ [][Next]_vars

(* Nothing obliges an end to write; what was written is read in the end.     *)
FairSpec == Spec /\ \A e \in Ends : WF_vars(Get(e))
===========================================================================
