-------------------------------- MODULE RwLock --------------------------------
(***************************************************************************)
(* net::lock::rw_lock_t: a readers-writer spin lock in one atomic word.    *)
(* Every load, store and compare-exchange of the word is a step. The word  *)
(* is kept as its two fields: bit 63 (writer) and the low bits (readers).  *)
(* The steps are sequentially consistent: the acquire and release orders   *)
(* of the code are not distinguished.                                      *)
(***************************************************************************)
EXTENDS ThreadSet, Naturals

VARIABLES
  flag,   \* the atomic word
  pc,     \* where each thread is
  old     \* each thread's local variable of that name

vars == <<flag, pc, old>>

Word == [writer : BOOLEAN, readers : Nat]
Free == [writer |-> FALSE, readers |-> 0]
Held == [writer |-> TRUE,  readers |-> 0]

(* flag & ((1 << 63) - 1): what a reader loads loses the writer's bit.     *)
Masked == [flag EXCEPT !.writer = FALSE]
PC     == {"idle", "rtest", "rload", "rcas", "reading", "ucas", "wtest", "wcas", "writing"}

Init == /\ flag = Free
        /\ pc = [t \in Threads |-> "idle"]
        /\ old = [t \in Threads |-> 0]

Step(t, from, to) == pc[t] = from /\ pc' = [pc EXCEPT ![t] = to]

(* compare_exchange_strong                                                 *)
Cas(expected, desired) == flag = expected /\ flag' = desired

Readers(n) == [writer |-> FALSE, readers |-> n]
------------------------------------------------------------------------------
(* rlock                                                                   *)
RLock(t) == Step(t, "idle", "rtest") /\ UNCHANGED <<flag, old>>

RTest(t) == /\ ~flag.writer
            /\ Step(t, "rtest", "rload")
            /\ UNCHANGED <<flag, old>>

RLoad(t) == /\ Step(t, "rload", "rcas")
            /\ old' = [old EXCEPT ![t] = Masked.readers]
            /\ UNCHANGED flag

RCas(t) == /\ \/ Cas(Readers(old[t]), Readers(old[t] + 1)) /\ Step(t, "rcas", "reading")
              \/ flag # Readers(old[t]) /\ Step(t, "rcas", "rtest") /\ UNCHANGED flag
           /\ UNCHANGED old

(* runlock: it loads again when the exchange fails, which leaves the thread*)
(* where it was, a holder about to load.                                   *)
RUnlock(t) == /\ Step(t, "reading", "ucas")
              /\ old' = [old EXCEPT ![t] = Masked.readers]
              /\ UNCHANGED flag

(* Mutant: the unlock does not retry when the exchange fails.              *)
UCasOnce(t) == /\ \/ Cas(Readers(old[t]), Readers(old[t] - 1))
                  \/ flag # Readers(old[t]) /\ UNCHANGED flag
               /\ Step(t, "ucas", "idle")
               /\ UNCHANGED old

UCas(t) == /\ \/ Cas(Readers(old[t]), Readers(old[t] - 1)) /\ Step(t, "ucas", "idle")
              \/ flag # Readers(old[t]) /\ Step(t, "ucas", "reading") /\ UNCHANGED flag
           /\ UNCHANGED old

(* lock and unlock                                                         *)
WLock(t) == Step(t, "idle", "wtest") /\ UNCHANGED <<flag, old>>

WTest(t) == /\ flag = Free
            /\ Step(t, "wtest", "wcas")
            /\ UNCHANGED <<flag, old>>

(* Mutant: the exchange expects what was read, so only the bit is tested.  *)
WCasIgnoresReaders(t) == /\ ~flag.writer
                         /\ flag' = [flag EXCEPT !.writer = TRUE]
                         /\ Step(t, "wcas", "writing")
                         /\ UNCHANGED old

WCas(t) == /\ \/ Cas(Free, Held) /\ Step(t, "wcas", "writing")
              \/ flag # Free /\ Step(t, "wcas", "wtest") /\ UNCHANGED flag
           /\ UNCHANGED old

WUnlock(t) == /\ Step(t, "writing", "idle")
              /\ flag' = Free
              /\ UNCHANGED old
------------------------------------------------------------------------------
Request(t) == RLock(t) \/ WLock(t)
Advance(t) == \/ RTest(t) \/ RLoad(t) \/ RCas(t) \/ RUnlock(t) \/ UCas(t)
              \/ WTest(t) \/ WCas(t) \/ WUnlock(t)

Next == \E t \in Threads : Request(t) \/ Advance(t)

Spec == Init /\ [][Next]_vars

(* A thread keeps running until it has the lock and then releases it; it   *)
(* need never ask for the lock.                                            *)
FairSpec == Spec /\ \A t \in Threads : WF_vars(Advance(t))
------------------------------------------------------------------------------
ReadHolders  == {t \in Threads : pc[t] \in {"reading", "ucas"}}
WriteHolders == {t \in Threads : pc[t] = "writing"}
Waiting      == {t \in Threads : pc[t] \in {"rtest", "rload", "rcas", "wtest", "wcas"}}

TypeOK == /\ flag \in Word
          /\ pc \in [Threads -> PC]
          /\ old \in [Threads -> Nat]

(* The word says who holds the lock: the writer's bit is set exactly while *)
(* one thread writes and none reads, and the low bits count the readers,   *)
(* whatever a reader that lost an exchange read before.                    *)
WordCountsHolders ==
  /\ flag.readers = Cardinality(ReadHolders)
  /\ flag.writer <=> WriteHolders # {}
  /\ flag.writer => flag.readers = 0
  /\ \A s, t \in WriteHolders : s = t

(* rw_lock_t implements SharedLock: no reader next to a writer, no second  *)
(* writer.                                                                 *)
Abstract == INSTANCE SharedLock WITH readers <- ReadHolders, writers <- WriteHolders
ImplementsSharedLock == Abstract!Spec

(* The lock is not stuck: whenever threads spin for it, one of them or     *)
(* another gets it (a writer can starve behind readers, rlock does not     *)
(* wait for it).                                                           *)
SomeoneEnters == Waiting # {} ~> ReadHolders \cup WriteHolders # {}
===============================================================================
