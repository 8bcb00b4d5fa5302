----------------------------- MODULE LockCache -----------------------------
(***************************************************************************)
(* The caching lock service: lock_server_cache.cc (the RPC handlers, the   *)
(* enforcer and the revoker threads) and lock_client_cache.cc (the threads *)
(* that acquire and release, and the handlers of revoke and retry).        *)
(*                                                                         *)
(* A lock the server has no record of is one that is FREE with nobody      *)
(* waiting.  Every section under sync_root is one step.  An RPC is a       *)
(* message in msgs until its handler, and the RPC that handler makes in    *)
(* turn, are done.                                                         *)
(***************************************************************************)
EXTENDS Naturals, Sequences, FiniteSets

CONSTANTS
  Client, Thread, Lock,
  ClientOf,    \* the client whose process runs a thread
  Nested,      \* pairs <<k, l>>: a thread that holds k may acquire l
  FREE,        \* no client, no thread, no lock
  MaxFaults    \* bound: failed binds and failed calls

ASSUME LockAssumption ==
  /\ IsFiniteSet(Thread)
  /\ ClientOf \in [Thread -> Client]
  /\ FREE \notin Client \cup Thread \cup Lock
  /\ Nested \subseteq Lock \X Lock
  /\ \A l \in Lock : <<l, l>> \notin Nested
  /\ MaxFaults \in Nat

VARIABLES
  holder, queue, revoked,     \* the server's cached_lock_info
  revoke_queue, revoker,      \* revoke_lock is taken unless revoker = "asleep"
  lock_list, owned, acquiring, c_revoked, awaiting_lock, c_holder,  \* lock_info
  pc, lid, ret, held,         \* the threads of the clients
  msgs, faults

serverVars == <<holder, queue, revoked, revoke_queue, revoker>>
infoVars   == <<lock_list, owned, acquiring, c_revoked, awaiting_lock, c_holder>>
threadVars == <<pc, lid, ret, held>>
vars == <<serverVars, infoVars, threadVars, msgs, faults>>

AcquireMsg(t, l)     == [type |-> "acquire", t |-> t, lid |-> l]
ReleaseMsg(c, l, by) == [type |-> "release", c |-> c, lid |-> l, by |-> by]
RetryMsg(c, l, by)   == [type |-> "retry", c |-> c, lid |-> l, by |-> by]
RevokeMsg(c, l)      == [type |-> "revoke", c |-> c, lid |-> l]

Message ==
  [type : {"acquire"}, t : Thread, lid : Lock]
    \cup [type : {"release", "retry"}, c : Client, lid : Lock, by : Thread \cup {FREE}]
    \cup [type : {"revoke"}, c : Client, lid : Lock]

\* What a call by thread t, or by the revoke handler if t is FREE, still
\* waits for: the release and the retry that its handler makes.
Outstanding(t) == {m \in msgs : m.type \in {"release", "retry"} /\ m.by = t}

Init ==
  /\ holder = [l \in Lock |-> FREE]
  /\ queue = [l \in Lock |-> <<>>]
  /\ revoked = [l \in Lock |-> FALSE]
  /\ revoke_queue = {}
  /\ revoker = "asleep"
  /\ lock_list = [c \in Client |-> {}]
  /\ owned = [c \in Client |-> [l \in Lock |-> FALSE]]
  /\ acquiring = [c \in Client |-> [l \in Lock |-> FALSE]]
  /\ c_revoked = [c \in Client |-> [l \in Lock |-> FALSE]]
  /\ awaiting_lock = [c \in Client |-> [l \in Lock |-> 0]]
  /\ c_holder = [c \in Client |-> [l \in Lock |-> FREE]]
  /\ pc = [t \in Thread |-> "idle"]
  /\ lid = [t \in Thread |-> FREE]
  /\ ret = [t \in Thread |-> "none"]
  /\ held = [t \in Thread |-> {}]
  /\ msgs = {}
  /\ faults = 0

-----------------------------------------------------------------------------
(* lock_server_cache: the handlers of acquire and release *)

Enqueued_front(q, id) == <<id>> \o q
Enqueued(q, id) == Append(q, id)

\* A free lock is granted by the answer, otherwise the client is queued and
\* told to wait for a retry.
server_acquire(m) ==
  /\ m.type = "acquire"
  /\ msgs' = msgs \ {m}
  /\ LET l == m.lid
         id == ClientOf[m.t]
     IN  \/ /\ holder[l] = FREE
            /\ holder' = [holder EXCEPT ![l] = id]
            /\ ret' = [ret EXCEPT ![m.t] = IF pc[m.t] = "acquire" THEN "OK" ELSE @]
            /\ UNCHANGED queue
         \/ /\ holder[l] # FREE
            /\ queue' = [queue EXCEPT ![l] = Enqueued(@, id)]
            /\ ret' = [ret EXCEPT ![m.t] = IF pc[m.t] = "acquire" THEN "RETRY" ELSE @]
            /\ UNCHANGED holder
  /\ UNCHANGED <<revoked, revoke_queue, revoker, infoVars, pc, lid, held, faults>>

\* release clears the mark that the holder has been asked for the lock.
Unrevoked_missing(l) == revoked
Unrevoked(l) == [revoked EXCEPT ![l] = FALSE]

\* The lock goes to the first client in the queue, which a retry tells so;
\* the handler returns when that call does.
server_release(m) ==
  /\ m.type = "release"
  /\ LET l == m.lid IN
     /\ revoked' = Unrevoked(l)
     /\ \/ /\ queue[l] = <<>>
           /\ holder' = [holder EXCEPT ![l] = FREE]
           /\ msgs' = msgs \ {m}
           /\ UNCHANGED <<queue, faults>>
        \/ /\ queue[l] # <<>>
           /\ holder' = [holder EXCEPT ![l] = Head(queue[l])]
           /\ queue' = [queue EXCEPT ![l] = Tail(@)]
           /\ \/ /\ msgs' = (msgs \ {m}) \cup {RetryMsg(Head(queue[l]), l, m.by)}
                 /\ UNCHANGED faults
              \/ /\ faults < MaxFaults        \* safebind fails
                 /\ faults' = faults + 1
                 /\ msgs' = msgs \ {m}
  /\ UNCHANGED <<revoke_queue, revoker, infoVars, threadVars>>

-----------------------------------------------------------------------------
(* lock_server_cache: the enforcer and the revoker *)

\* The locks that others wait for and whose holder is not being asked for.
Wanted_again == {l \in Lock : queue[l] # <<>>}
Wanted == {l \in Lock : queue[l] # <<>> /\ ~ revoked[l]}

\* One pass over lock_list, under revoke_lock and sync_root.  revoke_queue
\* is a set: the order of requests for different locks is left open.
enforcer ==
  /\ revoker = "asleep"
  /\ Wanted # {}
  /\ revoke_queue' = revoke_queue \cup {[holder |-> holder[l], lid |-> l] : l \in Wanted}
  /\ revoked' = [l \in Lock |-> revoked[l] \/ l \in Wanted]
  /\ UNCHANGED <<holder, queue, revoker, infoVars, threadVars, msgs, faults>>

\* The revoker takes revoke_lock and keeps it until revoke_queue is empty.
AfterCall(q) == IF q = {} THEN "asleep" ELSE "loop"

revoker_call(r) ==
  /\ revoker # "call"
  /\ revoke_queue' = revoke_queue \ {r}
  /\ \/ /\ msgs' = msgs \cup {RevokeMsg(r.holder, r.lid)}
        /\ revoker' = "call"
        /\ UNCHANGED faults
     \/ /\ faults < MaxFaults                 \* safebind fails
        /\ faults' = faults + 1
        /\ revoker' = AfterCall(revoke_queue')
        /\ UNCHANGED msgs
  /\ UNCHANGED <<holder, queue, revoked, infoVars, threadVars>>

revoker_return ==
  /\ revoker = "call"
  /\ Outstanding(FREE) = {} /\ \A m \in msgs : m.type # "revoke"
  /\ revoker' = AfterCall(revoke_queue)
  /\ UNCHANGED <<holder, queue, revoked, revoke_queue, infoVars, threadVars, msgs, faults>>

-----------------------------------------------------------------------------
(* lock_client_cache::acquire *)

\* acquire has returned to t, and t has not called release.
Holds(t, l) == l \in held[t]

\* The record of the lock is made, if there is none.
acquire(t, l) ==
  /\ pc[t] = "idle"
  /\ \A k \in held[t] : <<k, l>> \in Nested
  /\ lid' = [lid EXCEPT ![t] = l]
  /\ pc' = [pc EXCEPT ![t] = "start"]
  /\ lock_list' = [lock_list EXCEPT ![ClientOf[t]] = @ \cup {l}]
  /\ UNCHANGED <<serverVars, owned, acquiring, c_revoked, awaiting_lock, c_holder,
                 ret, held, msgs, faults>>

\* The end of acquire, with n threads of the client counted as waiting: take
\* the lock, or wait until the client owns it, and then until it is free.
TakeOrWait(t, n) ==
  LET c == ClientOf[t]
      l == lid[t]
  IN  \/ /\ ~ owned[c][l]
         /\ pc' = [pc EXCEPT ![t] = "wait_owned"]
         /\ awaiting_lock' = [awaiting_lock EXCEPT ![c][l] = n]
         /\ UNCHANGED <<c_holder, lid, held>>
      \/ /\ owned[c][l] /\ c_holder[c][l] # FREE
         /\ pc' = [pc EXCEPT ![t] = "wait_holder"]
         /\ awaiting_lock' = [awaiting_lock EXCEPT ![c][l] = n]
         /\ UNCHANGED <<c_holder, lid, held>>
      \/ /\ owned[c][l] /\ c_holder[c][l] = FREE
         /\ pc' = [pc EXCEPT ![t] = "idle"]
         /\ awaiting_lock' = [awaiting_lock EXCEPT ![c][l] = n - 1]
         /\ c_holder' = [c_holder EXCEPT ![c][l] = t]
         /\ lid' = [lid EXCEPT ![t] = FREE]
         /\ held' = [held EXCEPT ![t] = @ \cup {l}]

\* awaiting_lock with the thread that just came.
Announced_late(t) == awaiting_lock[ClientOf[t]][lid[t]]
Announced(t) == awaiting_lock[ClientOf[t]][lid[t]] + 1

\* The thread is counted, and sees whether its client has the lock.
acquire_wait(t) ==
  LET c == ClientOf[t]
      l == lid[t]
  IN
  /\ pc[t] = "start"
  /\ \/ /\ ~ owned[c][l] /\ ~ acquiring[c][l]
        /\ pc' = [pc EXCEPT ![t] = "get"]
        /\ awaiting_lock' = [awaiting_lock EXCEPT ![c][l] = Announced(t)]
        /\ UNCHANGED <<c_holder, lid, held>>
     \/ /\ owned[c][l] \/ acquiring[c][l]
        /\ TakeOrWait(t, Announced(t))
  /\ UNCHANGED <<serverVars, lock_list, owned, acquiring, c_revoked, ret, msgs, faults>>

\* The condition that ends the second wait.
HolderLeft_once(t) == TRUE
HolderLeft(t) == c_holder[ClientOf[t]][lid[t]] = FREE

\* Back in acquire after acquire_lock, or after a wait on the flag, which
\* ends by itself after 50 ms.  The second loop does not look at owned again.
acquire_take(t) ==
  LET c == ClientOf[t]
      l == lid[t]
  IN
  /\ \/ /\ pc[t] = "got"
        /\ TakeOrWait(t, awaiting_lock[c][l])
     \/ /\ pc[t] = "wait_owned" /\ owned[c][l]
        /\ TakeOrWait(t, awaiting_lock[c][l])
     \/ /\ pc[t] = "wait_holder" /\ HolderLeft(t)
        /\ pc' = [pc EXCEPT ![t] = "idle"]
        /\ awaiting_lock' = [awaiting_lock EXCEPT ![c][l] = @ - 1]
        /\ c_holder' = [c_holder EXCEPT ![c][l] = t]
        /\ lid' = [lid EXCEPT ![t] = FREE]
        /\ held' = [held EXCEPT ![t] = @ \cup {l}]
  /\ UNCHANGED <<serverVars, lock_list, owned, acquiring, c_revoked, ret, msgs, faults>>

-----------------------------------------------------------------------------
(* lock_client_cache::acquire_lock *)

\* Asks the server, unless another thread of the client already does.
acquire_lock(t) ==
  LET c == ClientOf[t]
      l == lid[t]
  IN
  /\ pc[t] = "get"
  /\ \/ /\ ~ acquiring[c][l] /\ ~ owned[c][l]
        /\ acquiring' = [acquiring EXCEPT ![c][l] = TRUE]
        /\ msgs' = msgs \cup {AcquireMsg(t, l)}
        /\ pc' = [pc EXCEPT ![t] = "acquire"]
     \/ /\ acquiring[c][l] \/ owned[c][l]
        /\ pc' = [pc EXCEPT ![t] = "got"]
        /\ UNCHANGED <<acquiring, msgs>>
  /\ UNCHANGED <<serverVars, lock_list, owned, c_revoked, awaiting_lock, c_holder,
                 lid, ret, held, faults>>

\* A retry came before the answer to the call.
RetryBeatAcquire(t) == owned[ClientOf[t]][lid[t]]

\* The call returns OK, RETRY or an error.
acquire_lock_return(t) ==
  LET c == ClientOf[t]
      l == lid[t]
  IN
  /\ pc[t] = "acquire"
  /\ \E r \in {"OK", "RETRY", "RPCERR"} :
       /\ \/ r = ret[t] /\ UNCHANGED faults
          \/ r = "RPCERR" /\ faults < MaxFaults /\ faults' = faults + 1
       /\ \/ /\ RetryBeatAcquire(t)
             /\ UNCHANGED <<owned, acquiring>>
          \/ /\ ~ RetryBeatAcquire(t) /\ r = "OK"
             /\ owned' = [owned EXCEPT ![c][l] = TRUE]
             /\ acquiring' = [acquiring EXCEPT ![c][l] = FALSE]
          \/ /\ ~ RetryBeatAcquire(t) /\ r # "OK"
             /\ owned' = [owned EXCEPT ![c][l] = FALSE]
             /\ acquiring' = [acquiring EXCEPT ![c][l] = TRUE]
  /\ ret' = [ret EXCEPT ![t] = "none"]
  /\ pc' = [pc EXCEPT ![t] = "got"]
  /\ UNCHANGED <<serverVars, lock_list, c_revoked, awaiting_lock, c_holder, lid, held, msgs>>

-----------------------------------------------------------------------------
(* lock_client_cache::release, revoke_handler, retry_handler *)

\* No one on the client wants the lock and the server wants it back.
GiveBack(c, l) == awaiting_lock[c][l] = 0 /\ c_revoked[c][l]

\* The lock stays with the client unless it is to be given back.
release(t, l) ==
  LET c == ClientOf[t] IN
  /\ pc[t] = "idle" /\ Holds(t, l)
  /\ held' = [held EXCEPT ![t] = @ \ {l}]
  /\ c_holder' = [c_holder EXCEPT ![c][l] = FREE]
  /\ \/ /\ GiveBack(c, l)
        /\ lid' = [lid EXCEPT ![t] = l]
        /\ owned' = [owned EXCEPT ![c][l] = FALSE]
        /\ c_revoked' = [c_revoked EXCEPT ![c][l] = FALSE]
        /\ acquiring' = [acquiring EXCEPT ![c][l] = FALSE]
        /\ pc' = [pc EXCEPT ![t] = "flush"]
     \/ /\ ~ GiveBack(c, l)
        /\ UNCHANGED <<owned, c_revoked, acquiring, pc, lid>>
  /\ UNCHANGED <<serverVars, lock_list, awaiting_lock, ret, msgs, faults>>

\* dorelease has flushed the extent of the lock; the server gets it back.
release_call(t) ==
  /\ pc[t] = "flush"
  /\ msgs' = msgs \cup {ReleaseMsg(ClientOf[t], lid[t], t)}
  /\ pc' = [pc EXCEPT ![t] = "release"]
  /\ UNCHANGED <<serverVars, infoVars, lid, ret, held, faults>>

release_return(t) ==
  /\ pc[t] = "release" /\ Outstanding(t) = {}
  /\ pc' = [pc EXCEPT ![t] = "idle"]
  /\ lid' = [lid EXCEPT ![t] = FREE]
  /\ UNCHANGED <<serverVars, infoVars, ret, held, msgs, faults>>

\* No thread of the client uses, awaits or acquires the lock.
Idle_held(c, l) == awaiting_lock[c][l] = 0 /\ ~ acquiring[c][l]
Idle_never(c, l) == FALSE
Idle(c, l) == c_holder[c][l] = FREE /\ awaiting_lock[c][l] = 0 /\ ~ acquiring[c][l]

\* An idle lock is flushed, under sync_root, and given back at once; otherwise
\* the thread that releases it last will.  A lock without a record is marked
\* as owned and revoked.
revoke_handler(m) ==
  LET c == m.c
      l == m.lid
      fresh == l \notin lock_list[c]
      idle == ~ fresh /\ Idle(c, l)
  IN
  /\ m.type = "revoke"
  /\ lock_list' = [lock_list EXCEPT ![c] = @ \cup {l}]
  /\ owned' = [owned EXCEPT ![c][l] = fresh \/ (@ /\ ~ idle)]
  /\ c_revoked' = [c_revoked EXCEPT ![c][l] = ~ idle]
  /\ msgs' = (msgs \ {m}) \cup (IF idle THEN {ReleaseMsg(c, l, FREE)} ELSE {})
  /\ UNCHANGED <<serverVars, acquiring, awaiting_lock, c_holder, threadVars, faults>>

retry_handler(m) ==
  /\ m.type = "retry"
  /\ acquiring' = [acquiring EXCEPT ![m.c][m.lid] = FALSE]
  /\ owned' = [owned EXCEPT ![m.c][m.lid] = TRUE]
  /\ msgs' = msgs \ {m}
  /\ UNCHANGED <<serverVars, lock_list, c_revoked, awaiting_lock, c_holder, threadVars, faults>>

-----------------------------------------------------------------------------
ThreadStep(t) ==
  \/ acquire_wait(t) \/ acquire_take(t)
  \/ acquire_lock(t) \/ acquire_lock_return(t)
  \/ release_call(t) \/ release_return(t)

Handler(m) ==
  \/ server_acquire(m) \/ server_release(m)
  \/ revoke_handler(m) \/ retry_handler(m)

Next ==
  \/ \E t \in Thread : ThreadStep(t) \/ \E l \in Lock : acquire(t, l) \/ release(t, l)
  \/ \E m \in msgs : Handler(m)
  \/ enforcer \/ revoker_return
  \/ \E r \in revoke_queue : revoker_call(r)

Spec == Init /\ [][Next]_vars

\* Threads run, a lock that is held is released, an RPC that was sent is
\* handled, and the enforcer and the revoker wake up every 5 ms.
Fairness ==
  /\ \A t \in Thread : WF_vars(ThreadStep(t)) /\ \A l \in Lock : SF_vars(release(t, l))
  /\ \A m \in Message : WF_vars(m \in msgs /\ Handler(m))
  /\ WF_vars(enforcer) /\ WF_vars(revoker_return)
  /\ WF_vars(\E r \in revoke_queue : revoker_call(r))

FairSpec == Spec /\ Fairness

-----------------------------------------------------------------------------
(* Properties *)

TypeOK ==
  /\ holder \in [Lock -> Client \cup {FREE}]
  /\ queue \in [Lock -> Seq(Client)]
  /\ revoked \in [Lock -> BOOLEAN]
  /\ revoke_queue \subseteq [holder : Client, lid : Lock]
  /\ revoker \in {"asleep", "loop", "call"}
  /\ lock_list \in [Client -> SUBSET Lock]
  /\ owned \in [Client -> [Lock -> BOOLEAN]]
  /\ acquiring \in [Client -> [Lock -> BOOLEAN]]
  /\ c_revoked \in [Client -> [Lock -> BOOLEAN]]
  /\ awaiting_lock \in [Client -> [Lock -> Nat]]
  /\ c_holder \in [Client -> [Lock -> Thread \cup {FREE}]]
  /\ pc \in [Thread -> {"idle", "start", "get", "acquire", "got", "wait_owned",
                        "wait_holder", "flush", "release"}]
  /\ lid \in [Thread -> Lock \cup {FREE}]
  /\ ret \in [Thread -> {"none", "OK", "RETRY"}]
  /\ held \in [Thread -> SUBSET Lock]
  /\ msgs \subseteq Message
  /\ faults \in Nat

\* The threads in acquire that awaiting_lock counts.
Waiting(t) == pc[t] \in {"get", "acquire", "got", "wait_owned", "wait_holder"}

\* A lock is held by one thread at a time, of all the threads of all clients.
MutualExclusion ==
  \A t, u \in Thread, l \in Lock : Holds(t, l) /\ Holds(u, l) => t = u

\* c is giving l back: it flushes its extent or has called release.
Returning(c, l) ==
  \/ \E t \in Thread : ClientOf[t] = c /\ lid[t] = l /\ pc[t] = "flush"
  \/ \E m \in msgs : m.type = "release" /\ m.c = c /\ m.lid = l

\* Only the client that the server has on record as the holder gives a lock
\* back, once, and while it does so nobody can use the lock: the flush of the
\* extent is over before another client reads it.
OnlyHolderReturns ==
  \A c \in Client, l \in Lock : Returning(c, l) =>
    /\ holder[l] = c
    /\ \A d \in Client : ~ owned[d][l]
    /\ \A t \in Thread : ~ Holds(t, l)
    /\ Cardinality({m \in msgs : m.type = "release" /\ m.lid = l})
         + Cardinality({t \in Thread : pc[t] = "flush" /\ lid[t] = l}) = 1

\* A revoke is on its way to c: it is queued or sent.
Asked(c, l) == [holder |-> c, lid |-> l] \in revoke_queue \/ RevokeMsg(c, l) \in msgs

\* A revoke reaches the client that still holds the lock, which knows the
\* lock and has not been asked for it before: the handler never returns a
\* lock the client does not have, and never makes one up.
RevokeReachesHolder ==
  \A c \in Client, l \in Lock : Asked(c, l) =>
    /\ holder[l] = c /\ l \in lock_list[c]
    /\ ~ c_revoked[c][l] /\ ~ Returning(c, l)
    /\ \/ owned[c][l] \/ acquiring[c][l]

\* Where clients queue for a lock, its holder is asked for it, keeps the
\* revoke in mind, or is giving it back, unless a call failed.  While a client
\* keeps a revoke in mind one of its threads uses or awaits the lock, so that
\* a release is still to come.
QueueIsServed ==
  /\ \A l \in Lock : queue[l] # <<>> =>
       /\ holder[l] # FREE
       /\ revoked[l] /\ faults = 0 =>
            Asked(holder[l], l) \/ c_revoked[holder[l]][l] \/ Returning(holder[l], l)
  /\ \A c \in Client, l \in Lock : c_revoked[c][l] =>
       \/ c_holder[c][l] # FREE
       \/ \E t \in Thread : ClientOf[t] = c /\ lid[t] = l /\ Waiting(t)

\* The thread that holds l, of whatever client.
Owner(l) == IF \E t \in Thread : Holds(t, l) THEN CHOOSE t \in Thread : Holds(t, l) ELSE FREE

\* The lock that t has called acquire for.
Wants(t) == IF pc[t] = "start" \/ Waiting(t) THEN lid[t] ELSE FREE

Service == INSTANCE LockService WITH
  NoThread <- FREE, NoLock <- FREE,
  owner    <- [l \in Lock |-> Owner(l)],
  waiting  <- [t \in Thread |-> Wants(t)]

\* The clients and the server together behave as one lock service: no step
\* grants a lock that is held, moves it between threads or frees it unasked.
ImplementsLockService == Service!Spec

\* Every thread that calls acquire gets the lock.
AcquireReturns ==
  \A t \in Thread, l \in Lock : pc[t] = "start" /\ lid[t] = l ~> Holds(t, l)

\* The client that holds a lock others wait for is told so, or gives the
\* lock back.
HolderIsInformed ==
  \A c \in Client, l \in Lock :
    holder[l] = c /\ queue[l] # <<>> /\ owned[c][l] ~> c_revoked[c][l] \/ Returning(c, l)
=============================================================================
