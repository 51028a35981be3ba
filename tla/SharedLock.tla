------------------------------ MODULE SharedLock ------------------------------
(***************************************************************************)
(* What a readers-writer lock promises: any number of threads hold it for  *)
(* reading, or one holds it for writing. RwLock is shown to implement it.  *)
(***************************************************************************)
CONSTANT Threads

VARIABLES readers, writers   \* the threads that hold the lock

lvars == <<readers, writers>>

Init == readers = {} /\ writers = {}

AcquireRead(t) == /\ writers = {}
                  /\ readers' = readers \cup {t}
                  /\ UNCHANGED writers

ReleaseRead(t) == t \in readers /\ readers' = readers \ {t} /\ UNCHANGED writers

AcquireWrite(t) == /\ readers = {} /\ writers = {}
                   /\ writers' = {t}
                   /\ UNCHANGED readers

ReleaseWrite(t) == writers = {t} /\ writers' = {} /\ UNCHANGED readers

Next == \E t \in Threads : \/ AcquireRead(t)  \/ ReleaseRead(t)
                           \/ AcquireWrite(t) \/ ReleaseWrite(t)

Spec == Init /\ [][Next]_lvars
===============================================================================
