---------------------------- MODULE SessionLock ----------------------------
(***************************************************************************)
(* What the run guard of protocol.Server promises its clients, said without *)
(* a map, a mutex or a goroutine: each session has at most one holder, a    *)
(* holder may be told to stop, and only the holder itself gives the session *)
(* up.  A request takes a session at most once and is never told to stop    *)
(* before it has it.                                                        *)
(***************************************************************************)
EXTENDS Naturals

CONSTANTS Session,      \* session identifiers
          Run,          \* the requests that run an agent
          None          \* no holder; not in Run

VARIABLES holder,       \* holder[s]: the run that has session s, or None
          stopped,      \* the runs that have been told to stop
          finished      \* the runs that have given their session up

lockVars == <<holder, stopped, finished>>

Init == /\ holder = [s \in Session |-> None]
        /\ stopped = {}
        /\ finished = {}

\* Mutant: nobody asks who holds the session.
AcquireHeld(s, r) == /\ r \notin finished
                     /\ \A t \in Session : holder[t] # r
                     /\ holder' = [holder EXCEPT ![s] = r]
                     /\ stopped' \in {stopped, stopped \cup {r}}
                     /\ UNCHANGED finished

Acquire(s, r) == /\ holder[s] = None
                 /\ r \notin finished
                 /\ \A t \in Session : holder[t] # r
                 /\ holder' = [holder EXCEPT ![s] = r]
                 /\ stopped' \in {stopped, stopped \cup {r}}
                 /\ UNCHANGED finished

\* Any set of current holders may be told to stop at once.
Stop == /\ \E R \in SUBSET {r \in Run : \E s \in Session : holder[s] = r} :
              stopped' = stopped \cup R
        /\ UNCHANGED <<holder, finished>>

\* A run gives its session up only after it was told to stop: the guard
\* cancels the context of a run before it frees the slot.
Release(s, r) == /\ holder[s] = r
                 /\ r \in stopped
                 /\ holder' = [holder EXCEPT ![s] = None]
                 /\ finished' = finished \cup {r}
                 /\ UNCHANGED stopped

Next == \/ \E s \in Session, r \in Run : Acquire(s, r) \/ Release(s, r)
        \/ Stop

Spec == Init /\ [][Next]_lockVars
=============================================================================
