---------------------------- MODULE Threads_proofs ----------------------------
(***************************************************************************)
(* Proofs about what the threads of a process share, for any finite set of *)
(* threads.                                                                *)
(*                                                                         *)
(* The lock (RwLock): TypeOK /\ WordCountsHolders is inductive, as a       *)
(* successful exchange knows the whole word, so who holds the lock.        *)
(*                                                                         *)
(* The event context (EventContext), whenever threads join                 *)
(* and whenever exit_all is called: nobody returns from run() while the    *)
(* loop of another runs. The inductive invariant counts: loop_counter is   *)
(* the number of registered loops that have not ended, and it grows no more*)
(* once one has, since a loop ends only after exit was set.                *)
(***************************************************************************)
EXTENDS RwLock, EventContext, FiniteSetTheorems, TLAPS

------------------------------------------------------------------------------
(* The readers-writer lock.                                                *)

(* Counting holders: adding one thread or removing one changes the count   *)
(* of a set of threads by one.                                             *)
LEMMA CountChanges ==
  ASSUME NEW S \in SUBSET Threads, NEW t \in Threads
  PROVE  /\ IsFiniteSet(S) /\ Cardinality(S) \in Nat
         /\ t \notin S => Cardinality(S \cup {t}) = Cardinality(S) + 1
         /\ t \in S => Cardinality(S) # 0 /\ Cardinality(S \ {t}) = Cardinality(S) - 1
         /\ Cardinality(S) = 0 <=> S = {}
<1>1. IsFiniteSet(S)
  BY ThreadsAssumption, FS_Subset
<1>2. Cardinality(S) \in Nat /\ (Cardinality(S) = 0 <=> S = {})
  BY <1>1, FS_CardinalityType, FS_EmptySet
<1>3. t \notin S => Cardinality(S \cup {t}) = Cardinality(S) + 1
  BY <1>1, FS_AddElement
<1>4. t \in S => Cardinality(S) # 0 /\ Cardinality(S \ {t}) = Cardinality(S) - 1
  <2>1. t \in S => S # {}
    OBVIOUS
  <2>2. t \in S => Cardinality(S \ {t}) = Cardinality(S) - 1
    BY <1>1, FS_RemoveElement
  <2>3. QED
    BY <2>1, <2>2, <1>2
<1>5. QED
  BY <1>1, <1>2, <1>3, <1>4

(* The values the code writes are words.                                   *)
LEMMA Words == Held \in Word /\ Free \in Word /\ \A n \in Nat : Readers(n) \in Word
BY DEF Held, Free, Readers, Word

(* Every step keeps the word and the holders in agreement.                 *)
LEMMA WordStep ==
  ASSUME TypeOK, WordCountsHolders, [Next]_vars
  PROVE  TypeOK' /\ WordCountsHolders'
<1> USE DEF Step
<1>1. CASE UNCHANGED vars
  BY <1>1 DEF vars, TypeOK, WordCountsHolders, ReadHolders, WriteHolders
<1>2. ASSUME NEW t \in Threads, Request(t) \/ Advance(t)
      PROVE  TypeOK' /\ WordCountsHolders'
  <2> USE DEF Word, Free, Held, Readers, Masked, PC, Cas
  <2>c. /\ Cardinality(ReadHolders) \in Nat
        /\ t \notin ReadHolders => Cardinality(ReadHolders \cup {t}) = Cardinality(ReadHolders) + 1
        /\ t \in ReadHolders => /\ Cardinality(ReadHolders) # 0
                                /\ Cardinality(ReadHolders \ {t}) = Cardinality(ReadHolders) - 1
        /\ Cardinality(ReadHolders) = 0 <=> ReadHolders = {}
    BY CountChanges DEF ReadHolders
  <2>w. flag.writer \in BOOLEAN /\ flag.readers \in Nat
    BY DEF TypeOK
  <2>1. CASE RLock(t) \/ WLock(t) \/ RTest(t) \/ RLoad(t) \/ WTest(t)
    <3>1. TypeOK'
      BY <2>1 DEF TypeOK, RLock, WLock, RTest, RLoad, WTest
    <3>2. flag' = flag /\ ReadHolders' = ReadHolders /\ WriteHolders' = WriteHolders
      BY <2>1 DEF TypeOK, RLock, WLock, RTest, RLoad, WTest, ReadHolders, WriteHolders
    <3>3. QED
      BY <3>1, <3>2 DEF WordCountsHolders
  <2>2. CASE RUnlock(t)
    <3>1. TypeOK'
      BY <2>2 DEF TypeOK, RUnlock
    <3>2. flag' = flag /\ ReadHolders' = ReadHolders /\ WriteHolders' = WriteHolders
      BY <2>2 DEF TypeOK, RUnlock, ReadHolders, WriteHolders
    <3>3. QED
      BY <3>1, <3>2 DEF WordCountsHolders
  <2>3. CASE RCas(t)
    <3>1. TypeOK'
      <4>1. flag' \in Word
        <5>1. old[t] + 1 \in Nat
          BY DEF TypeOK
        <5>2. flag' = flag \/ flag' = Readers(old[t] + 1)
          BY <2>3 DEF RCas
        <5>3. Readers(old[t] + 1) \in Word
          BY <5>1, Words
        <5>4. flag \in Word
          BY DEF TypeOK
        <5>5. QED
          BY ONLY <5>2, <5>3, <5>4
      <4>2. pc' \in [Threads -> PC] /\ old' = old
        BY <2>3 DEF TypeOK, RCas
      <4>3. QED
        BY <4>1, <4>2 DEF TypeOK
    <3>2. CASE flag # Readers(old[t])
      <4>1. flag' = flag /\ ReadHolders' = ReadHolders /\ WriteHolders' = WriteHolders
        BY <2>3, <3>2 DEF TypeOK, RCas, ReadHolders, WriteHolders
      <4>2. QED
        BY <3>1, <4>1 DEF WordCountsHolders
    <3>3. CASE flag = Readers(old[t])
      <4>1. /\ flag' = Readers(old[t] + 1) /\ old[t] \in Nat
            /\ pc[t] = "rcas" /\ pc' = [pc EXCEPT ![t] = "reading"]
        BY <2>3, <3>3 DEF RCas, TypeOK
      <4>2. t \notin ReadHolders /\ ReadHolders' = ReadHolders \cup {t}
        BY <4>1 DEF ReadHolders, TypeOK
      <4>3. WriteHolders' = WriteHolders
        BY <4>1 DEF WriteHolders, TypeOK
      <4>4. QED
        BY <2>c, <3>1, <3>3, <4>1, <4>2, <4>3 DEF WordCountsHolders
    <3>4. QED
      BY <3>2, <3>3
  <2>4. CASE UCas(t)
    <3>1. pc[t] = "ucas" /\ t \in ReadHolders
      BY <2>4 DEF UCas, ReadHolders
    <3>2. CASE flag # Readers(old[t])
      <4>1. flag' = flag /\ ReadHolders' = ReadHolders /\ WriteHolders' = WriteHolders
        BY <2>4, <3>2 DEF TypeOK, UCas, ReadHolders, WriteHolders
      <4>2. TypeOK'
        BY <2>4, <3>2 DEF TypeOK, UCas
      <4>3. QED
        BY <4>1, <4>2 DEF WordCountsHolders
    <3>3. CASE flag = Readers(old[t])
      <4>1. /\ flag' = Readers(old[t] - 1) /\ old' = old
            /\ pc' = [pc EXCEPT ![t] = "idle"]
        BY <2>4, <3>3 DEF UCas
      <4>2. old[t] \in Nat /\ old[t] # 0
        BY <2>c, <3>1, <3>3 DEF WordCountsHolders, TypeOK
      <4>3. TypeOK'
        BY <4>1, <4>2 DEF TypeOK
      <4>4. ReadHolders' = ReadHolders \ {t} /\ WriteHolders' = WriteHolders
        BY <3>1, <4>1 DEF ReadHolders, WriteHolders, TypeOK
      <4>5. QED
        BY <2>c, <3>1, <3>3, <4>1, <4>3, <4>4 DEF WordCountsHolders
    <3>4. QED
      BY <3>2, <3>3
  <2>5. CASE WCas(t)
    <3>1. TypeOK'
      <4>1. flag' = flag \/ flag' = Held
        BY <2>5 DEF WCas
      <4>2. flag' \in Word
        <5>1. flag \in Word /\ Held \in Word
          BY Words DEF TypeOK
        <5>2. QED
          BY ONLY <4>1, <5>1
      <4>3. pc' \in [Threads -> PC] /\ old' = old
        BY <2>5 DEF TypeOK, WCas
      <4>4. QED
        BY <4>2, <4>3 DEF TypeOK
    <3>2. CASE flag # Free
      <4>1. flag' = flag /\ ReadHolders' = ReadHolders /\ WriteHolders' = WriteHolders
        BY <2>5, <3>2 DEF TypeOK, WCas, ReadHolders, WriteHolders
      <4>2. QED
        BY <3>1, <4>1 DEF WordCountsHolders
    <3>3. CASE flag = Free
      <4>1. flag' = Held /\ pc[t] = "wcas" /\ pc' = [pc EXCEPT ![t] = "writing"]
        BY <2>5, <3>3 DEF WCas
      <4>2. ReadHolders' = ReadHolders /\ WriteHolders' = WriteHolders \cup {t}
        BY <4>1 DEF ReadHolders, WriteHolders, TypeOK
      <4>3. ReadHolders = {} /\ WriteHolders = {}
        BY <2>c, <3>3 DEF WordCountsHolders
      <4>4. QED
        BY <2>c, <3>1, <3>3, <4>1, <4>2, <4>3 DEF WordCountsHolders
    <3>4. QED
      BY <3>2, <3>3
  <2>6. CASE WUnlock(t)
    <3>1. TypeOK'
      BY <2>6 DEF TypeOK, WUnlock
    <3>2. flag' = Free /\ pc[t] = "writing" /\ pc' = [pc EXCEPT ![t] = "idle"]
      BY <2>6 DEF WUnlock
    <3>3. t \in WriteHolders
      BY <3>2 DEF WriteHolders
    <3>4. ReadHolders' = ReadHolders /\ WriteHolders' = WriteHolders \ {t}
      BY <3>2 DEF ReadHolders, WriteHolders, TypeOK
    <3>5. ReadHolders = {} /\ WriteHolders = {t}
      BY <2>c, <3>3 DEF WordCountsHolders
    <3>6. QED
      BY <2>c, <3>1, <3>2, <3>4, <3>5 DEF WordCountsHolders
  <2>7. QED
    BY <1>2, <2>1, <2>2, <2>3, <2>4, <2>5, <2>6 DEF Request, Advance
<1>3. QED
  BY <1>1, <1>2 DEF Next

LEMMA WordInit == Init => TypeOK /\ WordCountsHolders
<1> SUFFICES ASSUME Init PROVE TypeOK /\ WordCountsHolders
  OBVIOUS
<1>1. TypeOK
  BY DEF Init, TypeOK, Word, Free, PC
<1>2. ReadHolders = {} /\ WriteHolders = {}
  BY DEF Init, ReadHolders, WriteHolders
<1>3. Cardinality(ReadHolders) = 0
  BY <1>2, FS_EmptySet
<1>4. QED
  BY <1>1, <1>2, <1>3 DEF Init, Free, WordCountsHolders

(* The word of rw_lock_t counts the threads that hold the lock, at every   *)
(* moment and for any number of threads.                                   *)
THEOREM WordCorrect == Spec => [](TypeOK /\ WordCountsHolders)
BY WordInit, WordStep, PTL DEF Spec

(* In particular the count of readers never goes below zero: an unlock     *)
(* subtracts only from a word that it knows to count its thread.           *)
THEOREM TypeCorrect == Spec => []TypeOK
BY WordCorrect, PTL

(* One step of RwLock is a step of SharedLock or changes no holder.        *)
LEMMA HoldersStep ==
  ASSUME TypeOK, WordCountsHolders, [Next]_vars
  PROVE  [Abstract!Next]_(Abstract!lvars)
<1> USE DEF Step, Abstract!lvars
<1>1. CASE UNCHANGED vars
  BY <1>1 DEF vars, ReadHolders, WriteHolders
<1>2. ASSUME NEW t \in Threads, Request(t) \/ Advance(t)
      PROVE  [Abstract!Next]_(Abstract!lvars)
  <2>1. CASE RLock(t) \/ WLock(t) \/ RTest(t) \/ RLoad(t) \/ WTest(t) \/ RUnlock(t)
    BY <2>1 DEF TypeOK, RLock, WLock, RTest, RLoad, WTest, RUnlock, ReadHolders, WriteHolders
  <2>2. CASE RCas(t)
    <3>1. CASE flag # Readers(old[t])
      BY <2>2, <3>1 DEF TypeOK, RCas, Cas, ReadHolders, WriteHolders
    <3>2. CASE flag = Readers(old[t])
      <4>1. pc[t] = "rcas" /\ pc' = [pc EXCEPT ![t] = "reading"]
        BY <2>2, <3>2 DEF RCas, Cas
      <4>2. ReadHolders' = ReadHolders \cup {t} /\ WriteHolders' = WriteHolders
        BY <4>1 DEF ReadHolders, WriteHolders, TypeOK
      <4>3. WriteHolders = {}
        BY <3>2 DEF Readers, WordCountsHolders
      <4>4. \E s \in Threads : Abstract!AcquireRead(s)
        BY <4>2, <4>3 DEF Abstract!AcquireRead
      <4>5. QED
        BY <4>4 DEF Abstract!Next
    <3>3. QED
      BY <3>1, <3>2
  <2>3. CASE UCas(t)
    <3>1. CASE flag # Readers(old[t])
      BY <2>3, <3>1 DEF TypeOK, UCas, Cas, ReadHolders, WriteHolders
    <3>2. CASE flag = Readers(old[t])
      <4>1. pc[t] = "ucas" /\ pc' = [pc EXCEPT ![t] = "idle"]
        BY <2>3, <3>2 DEF UCas, Cas
      <4>2. t \in ReadHolders /\ ReadHolders' = ReadHolders \ {t} /\ WriteHolders' = WriteHolders
        BY <4>1 DEF ReadHolders, WriteHolders, TypeOK
      <4>3. \E s \in Threads : Abstract!ReleaseRead(s)
        BY <4>2 DEF Abstract!ReleaseRead
      <4>4. QED
        BY <4>3 DEF Abstract!Next
    <3>3. QED
      BY <3>1, <3>2
  <2>4. CASE WCas(t)
    <3>1. CASE flag # Free
      BY <2>4, <3>1 DEF TypeOK, WCas, Cas, ReadHolders, WriteHolders
    <3>2. CASE flag = Free
      <4>1. pc[t] = "wcas" /\ pc' = [pc EXCEPT ![t] = "writing"]
        BY <2>4, <3>2 DEF WCas, Cas
      <4>2. ReadHolders' = ReadHolders /\ WriteHolders' = WriteHolders \cup {t}
        BY <4>1 DEF ReadHolders, WriteHolders, TypeOK
      <4>3. ReadHolders = {} /\ WriteHolders = {}
        <5>1. Cardinality(ReadHolders) = 0 /\ WriteHolders = {}
          BY <3>2 DEF Free, WordCountsHolders
        <5>2. ReadHolders \in SUBSET Threads
          BY DEF ReadHolders
        <5>3. QED
          BY <5>1, <5>2, CountChanges
      <4>4. \E s \in Threads : Abstract!AcquireWrite(s)
        BY <4>2, <4>3 DEF Abstract!AcquireWrite
      <4>5. QED
        BY <4>4 DEF Abstract!Next
    <3>3. QED
      BY <3>1, <3>2
  <2>5. CASE WUnlock(t)
    <3>1. pc[t] = "writing" /\ pc' = [pc EXCEPT ![t] = "idle"]
      BY <2>5 DEF WUnlock
    <3>2. t \in WriteHolders
      BY <3>1 DEF WriteHolders
    <3>3. WriteHolders = {t}
      BY <3>2 DEF WordCountsHolders
    <3>4. ReadHolders' = ReadHolders /\ WriteHolders' = {}
      BY <3>1, <3>3 DEF ReadHolders, WriteHolders, TypeOK
    <3>5. \E s \in Threads : Abstract!ReleaseWrite(s)
      BY <3>3, <3>4 DEF Abstract!ReleaseWrite
    <3>6. QED
      BY <3>5 DEF Abstract!Next
  <2>6. QED
    BY <1>2, <2>1, <2>2, <2>3, <2>4, <2>5 DEF Request, Advance
<1>3. QED
  BY <1>1, <1>2 DEF Next

(* rw_lock_t gives readers shared and writers exclusive ownership, for any *)
(* number of threads: it implements SharedLock.                            *)
THEOREM RwLockImplementsSharedLock == Spec => ImplementsSharedLock
<1>1. Init => Abstract!Init
  BY DEF Init, Abstract!Init, ReadHolders, WriteHolders
<1>2. QED
  BY <1>1, WordCorrect, HoldersStep, PTL DEF Spec, ImplementsSharedLock, Abstract!Spec
------------------------------------------------------------------------------
(* The event context.                                                      *)

ContextType == /\ exit \in BOOLEAN /\ counter \in Int
               /\ loops \subseteq Threads
               /\ mine \in [Threads -> {"none", "orphan", "loop"}]
               /\ isExit \in [Threads -> BOOLEAN]
               /\ at \in [Threads -> ContextPC]
               /\ xpc \in {"idle", "loops", "done"}

(* The registered loops that have not been counted out.                    *)
Before == {"new", "create", "register", "enter", "running", "ended"}
Active == {t \in loops : at[t] \in Before}

CounterIsActive == IsFiniteSet(Active) /\ counter = Cardinality(Active)

(* thread_in_loop is a registered loop exactly if it is in loops, and the  *)
(* thread has it from its registration on.                                 *)
LoopsAreMine ==
  /\ \A t \in Threads : mine[t] = "loop" <=> t \in loops
  /\ \A t \in Threads : at[t] = "create" => mine[t] = "none"
  /\ \A t \in Threads : at[t] = "register" => mine[t] = "orphan"
  /\ \A t \in Threads : at[t] \in {"ended", "lock", "asleep", "relock"} => t \in loops

(* A loop ends only after exit was set.                                    *)
ExitFirst ==
  /\ xpc # "idle" => exit
  /\ \A t \in Threads : isExit[t] => exit
  /\ \A t \in loops : at[t] \in {"ended", "lock", "asleep", "relock", "returned"} => exit

(* Who has left saw that no loop was left.                                 *)
LastOneOut == \A t \in loops : at[t] = "returned" => counter = 0

ContextInv == ContextType /\ CounterIsActive /\ LoopsAreMine /\ ExitFirst /\ LastOneOut
------------------------------------------------------------------------------
(* Counting one loop in and one out.                                       *)
LEMMA ActiveChanges ==
  ASSUME NEW S, IsFiniteSet(S), NEW t
  PROVE  /\ IsFiniteSet(S \cup {t}) /\ IsFiniteSet(S \ {t}) /\ Cardinality(S) \in Nat
         /\ t \notin S => Cardinality(S \cup {t}) = Cardinality(S) + 1
         /\ t \in S => Cardinality(S \ {t}) = Cardinality(S) - 1
         /\ Cardinality(S) = 0 <=> S = {}
<1>1. IsFiniteSet(S \cup {t}) /\ (t \notin S => Cardinality(S \cup {t}) = Cardinality(S) + 1)
  BY FS_AddElement
<1>2. IsFiniteSet(S \ {t}) /\ (t \in S => Cardinality(S \ {t}) = Cardinality(S) - 1)
  BY FS_RemoveElement
<1>3. Cardinality(S) \in Nat /\ (Cardinality(S) = 0 <=> S = {})
  BY FS_CardinalityType, FS_EmptySet
<1> QED BY <1>1, <1>2, <1>3

(* The steps of one thread that neither register its loop nor count it out.*)
Quiet(t, to) ==
  /\ to \in ContextPC /\ at' = [at EXCEPT ![t] = to]
  /\ UNCHANGED <<exit, loops, counter, isExit, xpc>>
  /\ t \in loops => (at[t] \in Before <=> to \in Before)
  /\ mine' = mine \/ (at[t] = "create" /\ mine' = [mine EXCEPT ![t] = "orphan"])
  /\ to = "create" => mine'[t] = "none"
  /\ to = "register" => mine'[t] = "orphan"
  /\ to \in {"ended", "lock", "asleep", "relock"} => t \in loops
  /\ t \in loops /\ to \in {"ended", "lock", "asleep", "relock", "returned"} => exit
  /\ t \in loops /\ to = "returned" => counter = 0

LEMMA QuietStep ==
  ASSUME ContextInv, NEW t \in Threads, NEW to, Quiet(t, to)
  PROVE  ContextInv'
<1> USE DEF Quiet
<1>1. /\ at \in [Threads -> ContextPC] /\ mine \in [Threads -> {"none", "orphan", "loop"}]
      /\ loops \subseteq Threads
  BY DEF ContextInv, ContextType
<1>2. Active' = Active
  BY <1>1 DEF Active
<1>3. ContextType'
  BY <1>1 DEF ContextInv, ContextType
<1>4. LoopsAreMine'
  BY <1>1 DEF ContextInv, LoopsAreMine
<1>5. ExitFirst'
  BY <1>1 DEF ContextInv, ExitFirst
<1>6. LastOneOut'
  BY <1>1 DEF ContextInv, LastOneOut
<1> QED BY <1>2, <1>3, <1>4, <1>5, <1>6 DEF ContextInv, CounterIsActive

LEMMA RegisterKeeps ==
  ASSUME ContextInv, NEW t \in Threads, Register(t)
  PROVE  ContextInv'
<1> USE DEF Goto
<1>1. /\ at \in [Threads -> ContextPC] /\ at[t] = "register" /\ at' = [at EXCEPT ![t] = "enter"]
      /\ loops \subseteq Threads /\ mine[t] = "orphan" /\ t \notin loops
      /\ UNCHANGED <<exit, isExit, xpc>>
  BY DEF Register, ContextInv, ContextType, LoopsAreMine
<1>2. CASE exit
  <2>1. mine' = mine /\ counter' = counter /\ loops' = loops
    BY <1>2 DEF Register
  <2>2. Quiet(t, "enter")
    BY <1>1, <1>2, <2>1 DEF Quiet, Before, ContextPC
  <2> QED BY <2>2, QuietStep
<1>3. CASE ~exit
  <2>1. /\ loops' = loops \cup {t} /\ counter' = counter + 1
        /\ mine' = [mine EXCEPT ![t] = "loop"]
    BY <1>3 DEF Register
  <2>2. t \notin Active /\ Active' = Active \cup {t}
    BY <1>1, <2>1 DEF Active, Before
  <2>3. CounterIsActive'
    BY <2>1, <2>2, ActiveChanges DEF ContextInv, CounterIsActive
  <2>4. ContextType'
    BY <1>1, <2>1 DEF ContextInv, ContextType, ContextPC
  <2>5. LoopsAreMine'
    BY <1>1, <2>1 DEF ContextInv, ContextType, LoopsAreMine
  <2>6. ExitFirst'
    BY <1>1, <1>3, <2>1 DEF ContextInv, ContextType, ExitFirst
  <2>7. LastOneOut'
    BY <1>1, <1>3, <2>1 DEF ContextInv, ContextType, ExitFirst, LastOneOut
  <2> QED BY <2>3, <2>4, <2>5, <2>6, <2>7 DEF ContextInv
<1> QED BY <1>2, <1>3

LEMMA DecrementKeeps ==
  ASSUME ContextInv, NEW t \in Threads, Decrement(t)
  PROVE  ContextInv'
<1> USE DEF Goto
<1>1. /\ at \in [Threads -> ContextPC] /\ at[t] = "ended" /\ at' = [at EXCEPT ![t] = "lock"]
      /\ counter' = counter - 1 /\ loops \subseteq Threads /\ counter \in Int
      /\ UNCHANGED <<exit, loops, mine, isExit, xpc>>
  BY DEF Decrement, ContextInv, ContextType
<1>2. t \in loops
  BY <1>1 DEF ContextInv, LoopsAreMine
<1>3. t \in Active /\ Active' = Active \ {t}
  BY <1>1, <1>2 DEF Active, Before
<1>4. CounterIsActive'
  BY <1>1, <1>3, ActiveChanges DEF ContextInv, CounterIsActive
<1>5. ContextType' /\ LoopsAreMine' /\ ExitFirst'
  BY <1>1 DEF ContextInv, ContextType, LoopsAreMine, ExitFirst, ContextPC
<1>6. LastOneOut'
  <2>1. counter # 0
    BY <1>3, ActiveChanges DEF ContextInv, CounterIsActive
  <2> QED BY <1>1, <2>1 DEF ContextInv, LastOneOut
<1> QED BY <1>4, <1>5, <1>6 DEF ContextInv

(* notify_all: threads that slept are to test the counter again.           *)
LEMMA LockAndWaitKeeps ==
  ASSUME ContextInv, NEW t \in Threads, LockAndWait(t)
  PROVE  ContextInv'
<1>1. /\ at \in [Threads -> ContextPC] /\ at[t] = "lock" /\ loops \subseteq Threads
      /\ at' = [s \in Threads |-> IF s = t THEN IF counter = 0 THEN "returned" ELSE "asleep"
                                  ELSE IF at[s] = "asleep" THEN "relock" ELSE at[s]]
      /\ UNCHANGED <<exit, loops, counter, mine, isExit, xpc>>
  BY DEF LockAndWait, ContextInv, ContextType
<1>2. Active' = Active
  BY <1>1 DEF Active, Before
<1>3. ContextType'
  BY <1>1 DEF ContextInv, ContextType, ContextPC
<1>4. LoopsAreMine'
  BY <1>1 DEF ContextInv, LoopsAreMine
<1>5. ExitFirst'
  BY <1>1 DEF ContextInv, ExitFirst, LoopsAreMine
<1>6. LastOneOut'
  BY <1>1 DEF ContextInv, LastOneOut
<1> QED BY <1>1, <1>2, <1>3, <1>4, <1>5, <1>6 DEF ContextInv, CounterIsActive

LEMMA ThreadKeeps ==
  ASSUME ContextInv, NEW t \in Threads,
         CallRun(t) \/ Run(t) \/ SpuriousWakeUp(t)
  PROVE  ContextInv'
<1> USE DEF Goto, Before
<1>1. at \in [Threads -> ContextPC] /\ LoopsAreMine /\ ExitFirst
  BY DEF ContextInv, ContextType
<1>2. CASE CallRun(t)
  <2>1. Quiet(t, "create") \/ Quiet(t, "enter")
    BY <1>1, <1>2 DEF CallRun, Quiet, ContextPC
  <2> QED BY <2>1, QuietStep
<1>3. CASE Create(t)
  <2>1. mine'[t] = "orphan"
    BY <1>3 DEF Create, ContextInv, ContextType
  <2>2. Quiet(t, "register")
    BY <1>1, <1>3, <2>1 DEF Create, Quiet, ContextPC
  <2> QED BY <2>2, QuietStep
<1>4. CASE Enter(t)
  <2>1. Quiet(t, "returned") \/ Quiet(t, "running")
    BY <1>1, <1>4 DEF Enter, Quiet, ContextPC, LoopsAreMine
  <2> QED BY <2>1, QuietStep
<1>5. CASE LoopEnds(t)
  <2>1. Quiet(t, "ended")
    BY <1>1, <1>5 DEF LoopEnds, Quiet, ContextPC, LoopsAreMine, ExitFirst
  <2> QED BY <2>1, QuietStep
<1>6. CASE Relock(t)
  <2>1. Quiet(t, "returned") \/ Quiet(t, "asleep")
    BY <1>1, <1>6 DEF Relock, Quiet, ContextPC, LoopsAreMine, ExitFirst
  <2> QED BY <2>1, QuietStep
<1>7. CASE SpuriousWakeUp(t)
  <2>1. Quiet(t, "relock")
    BY <1>1, <1>7 DEF SpuriousWakeUp, Quiet, ContextPC, LoopsAreMine, ExitFirst
  <2> QED BY <2>1, QuietStep
<1>8. CASE Register(t) \/ Decrement(t) \/ LockAndWait(t)
  BY <1>8, RegisterKeeps, DecrementKeeps, LockAndWaitKeeps
<1> QED BY <1>2, <1>3, <1>4, <1>5, <1>6, <1>7, <1>8 DEF Run

LEMMA ExitKeeps ==
  ASSUME ContextInv, Destroy \/ ExitFlag \/ ExitLoops
  PROVE  ContextInv'
<1>1. UNCHANGED <<loops, counter, mine, at>> /\ Active' = Active
  BY DEF Destroy, ExitFlag, ExitLoops, Active
<1>2. ContextType' /\ ExitFirst'
  BY <1>1 DEF Destroy, ExitFlag, ExitLoops, ContextInv, ContextType,
              ExitFirst
<1> QED BY <1>1, <1>2 DEF ContextInv, CounterIsActive, LoopsAreMine, LastOneOut

LEMMA ContextStart ==
  ASSUME ContextInit
  PROVE  ContextInv
<1>1. Active = {Main}
  BY MainAssumption DEF ContextInit, Active, Before
<1>2. CounterIsActive
  BY <1>1, FS_Singleton DEF ContextInit, CounterIsActive
<1>3. ContextType
  <2>1. mine \in [Threads -> {"none", "orphan", "loop"}]
    BY DEF ContextInit
  <2>2. at \in [Threads -> ContextPC] /\ isExit \in [Threads -> BOOLEAN]
    BY DEF ContextInit, ContextPC
  <2>3. exit \in BOOLEAN /\ xpc \in {"idle", "loops", "done"}
    BY Zenon DEF ContextInit
  <2>4. counter \in Int /\ loops \subseteq Threads
    BY MainAssumption, SMT DEF ContextInit
  <2> QED BY <2>1, <2>2, <2>3, <2>4 DEF ContextType
<1>4. LoopsAreMine
  BY MainAssumption DEF ContextInit, LoopsAreMine
<1>5. ExitFirst /\ LastOneOut
  BY MainAssumption DEF ContextInit, ExitFirst, LastOneOut
<1> QED BY <1>2, <1>3, <1>4, <1>5 DEF ContextInv

LEMMA ContextInductive == ContextInv /\ [ContextNext]_contextVars => ContextInv'
<1> SUFFICES ASSUME ContextInv, [ContextNext]_contextVars PROVE ContextInv'
  OBVIOUS
<1>1. CASE ContextNext
  BY <1>1, ThreadKeeps, ExitKeeps DEF ContextNext
<1>2. CASE UNCHANGED contextVars
  BY <1>2 DEF contextVars, ContextInv, ContextType, CounterIsActive, Active, LoopsAreMine,
              ExitFirst, LastOneOut
<1> QED BY <1>1, <1>2

(* run() returns on no thread whose loop is registered while the loop of   *)
(* another still runs, for any number of threads, whenever they join and   *)
(* whenever exit_all is called.                                            *)
THEOREM NobodyLeavesAlone == ContextSpec => []ReturnTogether
<1>1. ContextInv => ReturnTogether
  <2> SUFFICES ASSUME ContextInv, NEW s \in Threads, NEW t \in Threads,
                      mine[s] = "loop", at[s] = "returned", t \in loops,
                      at[t] \in {"enter", "running", "ended"}
               PROVE  FALSE
    BY DEF ReturnTogether
  <2>1. counter = 0
    BY DEF ContextInv, LoopsAreMine, LastOneOut
  <2>2. t \in Active
    BY DEF Active, Before
  <2> QED BY <2>1, <2>2, ActiveChanges DEF ContextInv, CounterIsActive
<1>2. ContextInit => ContextInv
  BY ContextStart
<1> QED BY <1>1, <1>2, ContextInductive, PTL DEF ContextSpec
================================================================================
