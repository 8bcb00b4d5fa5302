---------------------------- MODULE LockService ----------------------------
(***************************************************************************)
(* What the lock client promises the threads that call it: acquire(lid)    *)
(* returns once the caller is the only holder of the lock, release(lid)    *)
(* frees it.  Caching, revocation and the server are not visible.          *)
(***************************************************************************)
CONSTANTS Thread, Lock, NoThread, NoLock

VARIABLES owner,    \* the thread that holds a lock
          waiting   \* the lock a thread is acquiring

vars == <<owner, waiting>>

Init ==
  /\ owner = [l \in Lock |-> NoThread]
  /\ waiting = [t \in Thread |-> NoLock]

Request(t, l) ==
  /\ waiting[t] = NoLock /\ owner[l] # t
  /\ waiting' = [waiting EXCEPT ![t] = l]
  /\ UNCHANGED owner

Grant(t, l) ==
  /\ waiting[t] = l /\ owner[l] = NoThread
  /\ owner' = [owner EXCEPT ![l] = t]
  /\ waiting' = [waiting EXCEPT ![t] = NoLock]

Release(t, l) ==
  /\ owner[l] = t /\ waiting[t] = NoLock
  /\ owner' = [owner EXCEPT ![l] = NoThread]
  /\ UNCHANGED waiting

Next == \E t \in Thread, l \in Lock : Request(t, l) \/ Grant(t, l) \/ Release(t, l)

Spec == Init /\ [][Next]_vars
=============================================================================
