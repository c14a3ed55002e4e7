---------------------------- MODULE ReadWriteLock ----------------------------
(***************************************************************************)
(* The lock of the Uprcl media server (rwlock.py): many readers or one     *)
(* writer, built on one condition variable.  A reader holds the mutex of   *)
(* the condition only while it changes the count; a writer keeps it until  *)
(* it is done, which is what stops the readers.                            *)
(***************************************************************************)
EXTENDS Naturals, FiniteSets

CONSTANTS Threads, NoThread

ASSUME NoThreadAssumption == NoThread \notin Threads

VARIABLES
    readers,  \* ReadWriteLock._readers
    holder,   \* the writer which holds the mutex of _read_ready, or NoThread
    asleep    \* the writers in _read_ready.wait()

lockVars == <<readers, holder, asleep>>

LockTypeOK ==
    /\ readers \in 0..Cardinality(Threads)
    /\ holder \in Threads \cup {NoThread}
    /\ asleep \subseteq Threads

LockInit == readers = 0 /\ holder = NoThread /\ asleep = {}

\* No thread may enter the short critical sections while a writer is inside.
MutexFree == holder = NoThread

acquire_read(t) ==
    /\ MutexFree
    /\ readers' = readers + 1
    /\ UNCHANGED <<holder, asleep>>

\* Mutant: nobody is woken.
release_readSilent(t) ==
    /\ MutexFree
    /\ readers' = readers - 1
    /\ UNCHANGED <<holder, asleep>>

\* The last reader to leave wakes all the writers.
release_read(t) ==
    /\ MutexFree
    /\ readers' = readers - 1
    /\ asleep' = IF readers' = 0 THEN {} ELSE asleep
    /\ UNCHANGED holder

\* A writer enters: a first attempt and one after a wakeup are alike, the count
\* is tested in a loop.
acquire_write(t) ==
    /\ MutexFree
    /\ t \notin asleep
    /\ readers = 0
    /\ holder' = t
    /\ UNCHANGED <<readers, asleep>>

\* It finds readers: wait() gives the mutex back.
wait_for_readers(t) ==
    /\ MutexFree
    /\ t \notin asleep
    /\ readers > 0
    /\ asleep' = asleep \cup {t}
    /\ UNCHANGED <<readers, holder>>

release_write(t) ==
    /\ holder = t
    /\ holder' = NoThread
    /\ UNCHANGED <<readers, asleep>>
=============================================================================
