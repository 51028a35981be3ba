------------------------------- MODULE Mailbox -------------------------------
(***************************************************************************)
(* What an event loop promises to the threads that post work to it         *)
(* (execute_context_t::run, start and start_with): the contexts it is      *)
(* handed are resumed one at a time, in posting order, once per post; a    *)
(* destroyed context is never resumed, and one is skipped only if it, or   *)
(* another that had its address before it, was destroyed. EventLoop is     *)
(* shown to implement this specification.                                  *)
(*                                                                         *)
(* An entry is one life of one execution context: the pair of its address  *)
(* and of how often the address was reused before it.                      *)
(***************************************************************************)
EXTENDS Sequences

CONSTANTS Entry,  \* the lives of execution contexts
          Idle    \* "no coroutine is running", not an Entry

VARIABLES pending,  \* posted and not resumed yet, oldest first
          active,   \* the context whose coroutine runs, or Idle
          gone      \* the destroyed contexts

mvars == <<pending, active, gone>>

Address(e) == e[1]

Init == pending = <<>> /\ active = Idle /\ gone = {}

Post(e) == /\ e \notin gone
           /\ pending' = Append(pending, e)
           /\ UNCHANGED <<active, gone>>

Resume == /\ active = Idle
          /\ pending # <<>>
          /\ Head(pending) \notin gone
          /\ active' = Head(pending)
          /\ pending' = Tail(pending)
          /\ UNCHANGED gone

Yield == active # Idle /\ active' = Idle /\ UNCHANGED <<pending, gone>>

Skip == /\ active = Idle
        /\ pending # <<>>
        /\ \E e \in gone : Address(e) = Address(Head(pending))
        /\ pending' = Tail(pending)
        /\ UNCHANGED <<active, gone>>

Destroy(e) == gone' = gone \cup {e} /\ UNCHANGED <<pending, active>>

Next == \/ Resume \/ Yield \/ Skip
        \/ \E e \in Entry : Post(e) \/ Destroy(e)

Spec == Init /\ [][Next]_mvars
==============================================================================
