---------------------------- MODULE LockCacheInv ----------------------------
(***************************************************************************)
(* Mutual exclusion, and the discipline of grants, revokes and returns it  *)
(* rests on, for any clients, threads and locks.                           *)
(*                                                                         *)
(* A lock is in one place: free at the server; on its way to its holder    *)
(* (Granted); with its holder (owned); or on its way back (Returning).  A  *)
(* revoke is in one place too.  IndInv says so, together with what the     *)
(* counters and flags of the clients know about their threads.             *)
(***************************************************************************)
EXTENDS LockCache, FiniteSetTheorems, TLAPS

Queued(c, l) == \E i \in 1 .. Len(queue[l]) : queue[l][i] = c

Retried(c, l) == \E m \in msgs : m.type = "retry" /\ m.c = c /\ m.lid = l

Answered(c, l) == \E t \in Thread : ret[t] = "OK" /\ ClientOf[t] = c /\ lid[t] = l

Released(c, l) == \E m \in msgs : m.type = "release" /\ m.c = c /\ m.lid = l

Flushing(c, l) == \E t \in Thread : ClientOf[t] = c /\ lid[t] = l /\ pc[t] = "flush"

Waiters(c, l) == {t \in Thread : ClientOf[t] = c /\ lid[t] = l /\ Waiting(t)}

\* What a thread is doing, and what the record of its lock then says.
ThreadInv(t) ==
  /\ pc[t] = "idle" <=> lid[t] = FREE
  /\ ret[t] # "none" => pc[t] = "acquire"

WorkInv(t, l) ==
  /\ lid[t] = l =>
       /\ l \in lock_list[ClientOf[t]]
       /\ pc[t] = "acquire" => acquiring[ClientOf[t]][l] \/ owned[ClientOf[t]][l]
       /\ pc[t] = "wait_holder" => owned[ClientOf[t]][l]
  /\ l \in held[t] => c_holder[ClientOf[t]][l] = t

RecordInv(c, l) ==
  /\ c_holder[c][l] # FREE => /\ owned[c][l]
                              /\ ClientOf[c_holder[c][l]] = c
                              /\ l \in held[c_holder[c][l]]
  /\ owned[c][l] => holder[l] = c /\ ~ acquiring[c][l]
  /\ c_revoked[c][l] => holder[l] = c /\ revoked[l]
  /\ awaiting_lock[c][l] = Cardinality(Waiters(c, l))
  /\ holder[l] = c => /\ l \in lock_list[c]
                      /\ owned[c][l] \/ acquiring[c][l] \/ Released(c, l) \/ Flushing(c, l)

\* A request of a client for a lock is in one place: on its way, queued, or
\* on its way back as a grant.
RequestInv(t, l) ==
  AcquireMsg(t, l) \in msgs =>
    /\ lid[t] = l /\ ret[t] = "none" /\ Waiting(t)
    /\ acquiring[ClientOf[t]][l]
    /\ ~ Queued(ClientOf[t], l) /\ ~ Retried(ClientOf[t], l) /\ ~ Answered(ClientOf[t], l)
    /\ \A u \in Thread : AcquireMsg(u, l) \in msgs /\ ClientOf[u] = ClientOf[t] => u = t

AnswerInv(t, u, l) ==
  pc[t] = "acquire" /\ pc[u] = "acquire" /\ lid[t] = l /\ lid[u] = l /\ ClientOf[t] = ClientOf[u]
    => t = u

QueueInv(l) ==
  /\ queue[l] # <<>> => holder[l] # FREE
  /\ \A i \in 1 .. Len(queue[l]) :
       /\ acquiring[queue[l][i]][l] /\ l \in lock_list[queue[l][i]]
       /\ ~ Retried(queue[l][i], l) /\ ~ Answered(queue[l][i], l)
  /\ \A i, j \in 1 .. Len(queue[l]) : queue[l][i] = queue[l][j] => i = j

\* Grants, returns and revokes go to and come from the holder, one at a time.
GrantInv(c, l) ==
  Retried(c, l) \/ Answered(c, l) =>
    /\ holder[l] = c /\ acquiring[c][l]
    /\ ~ Released(c, l) /\ ~ Flushing(c, l)
    /\ ~ (Retried(c, l) /\ Answered(c, l))
    /\ \A m, k \in msgs : m.type = "retry" /\ k.type = "retry" /\ m.lid = l /\ k.lid = l => m = k

ReturnInv(c, l) ==
  Released(c, l) \/ Flushing(c, l) =>
    /\ holder[l] = c /\ revoked[l] /\ ~ owned[c][l] /\ ~ c_revoked[c][l]
    /\ ~ (Released(c, l) /\ Flushing(c, l))
    /\ \A m, k \in msgs :
         m.type = "release" /\ k.type = "release" /\ m.lid = l /\ k.lid = l => m = k
    /\ \A t, u \in Thread :
         pc[t] = "flush" /\ pc[u] = "flush" /\ lid[t] = l /\ lid[u] = l => t = u

RevokeInv(c, l) ==
  Asked(c, l) =>
    /\ holder[l] = c /\ revoked[l] /\ ~ c_revoked[c][l]
    /\ ~ Released(c, l) /\ ~ Flushing(c, l)
    /\ ~ ([holder |-> c, lid |-> l] \in revoke_queue /\ RevokeMsg(c, l) \in msgs)

LockInv(l) ==
  /\ \A t \in Thread : WorkInv(t, l) /\ RequestInv(t, l)
  /\ \A t, u \in Thread : AnswerInv(t, u, l)
  /\ QueueInv(l)
  /\ \A c \in Client : RecordInv(c, l) /\ GrantInv(c, l) /\ ReturnInv(c, l) /\ RevokeInv(c, l)

IndInv ==
  /\ TypeOK
  /\ \A t \in Thread : ThreadInv(t)
  /\ \A l \in Lock : LockInv(l)

\* A thread of c waits in acquire() for l.
Awaited(c, l) == \E t \in Thread : ClientOf[t] = c /\ lid[t] = l /\ Waiting(t)

\* A client that asks for a lock, or keeps a revoke of it in mind, has a
\* thread that will see to it.
WaitInv(c, l) ==
  /\ acquiring[c][l] => Awaited(c, l)
  /\ c_revoked[c][l] => c_holder[c][l] # FREE \/ Awaited(c, l)

\* A lock that is marked as revoked is being asked for or on its way back.
AskInv(l) ==
  revoked[l] /\ faults = 0 =>
    \E c \in Client : Asked(c, l) \/ c_revoked[c][l] \/ Returning(c, l)

ServeInv == \A l \in Lock : AskInv(l) /\ \A c \in Client : WaitInv(c, l)

-----------------------------------------------------------------------------
(* Messages *)

\* The fields of each kind of message.
LEMMA MessageTypes ==
  ASSUME NEW m \in Message
  PROVE  /\ m.type \in {"acquire", "release", "retry", "revoke"} /\ m.lid \in Lock
         /\ m.type = "acquire" => m.t \in Thread /\ m = AcquireMsg(m.t, m.lid)
         /\ m.type = "release" => /\ m.c \in Client /\ m.by \in Thread \cup {FREE}
                                  /\ m = ReleaseMsg(m.c, m.lid, m.by)
         /\ m.type = "retry" => /\ m.c \in Client /\ m.by \in Thread \cup {FREE}
                                /\ m = RetryMsg(m.c, m.lid, m.by)
         /\ m.type = "revoke" => m.c \in Client /\ m = RevokeMsg(m.c, m.lid)
<1>1. CASE m \in [type : {"acquire"}, t : Thread, lid : Lock]
  BY <1>1, Zenon DEF AcquireMsg
<1>2. CASE m \in [type : {"release", "retry"}, c : Client, lid : Lock, by : Thread \cup {FREE}]
  BY <1>2, Zenon DEF ReleaseMsg, RetryMsg
<1>3. CASE m \in [type : {"revoke"}, c : Client, lid : Lock]
  BY <1>3, Zenon DEF RevokeMsg
<1> QED BY <1>1, <1>2, <1>3, Zenon DEF Message

\* What the constructors of the messages put into them.
LEMMA MessageFields ==
  /\ \A t, l : AcquireMsg(t, l).type = "acquire" /\ AcquireMsg(t, l).lid = l
               /\ AcquireMsg(t, l).t = t
  /\ \A c, l, by : /\ ReleaseMsg(c, l, by).type = "release" /\ ReleaseMsg(c, l, by).lid = l
                   /\ ReleaseMsg(c, l, by).c = c /\ ReleaseMsg(c, l, by).by = by
                   /\ RetryMsg(c, l, by).type = "retry" /\ RetryMsg(c, l, by).lid = l
                   /\ RetryMsg(c, l, by).c = c /\ RetryMsg(c, l, by).by = by
  /\ \A c, l : /\ RevokeMsg(c, l).type = "revoke" /\ RevokeMsg(c, l).lid = l
               /\ RevokeMsg(c, l).c = c
BY Zenon DEF AcquireMsg, ReleaseMsg, RetryMsg, RevokeMsg

\* The messages that the actions send are messages.
LEMMA MessagesAreTyped ==
  /\ \A t \in Thread, l \in Lock : AcquireMsg(t, l) \in Message
  /\ \A c \in Client, l \in Lock, by \in Thread \cup {FREE} :
       ReleaseMsg(c, l, by) \in Message /\ RetryMsg(c, l, by) \in Message
  /\ \A c \in Client, l \in Lock : RevokeMsg(c, l) \in Message
BY Zenon DEF AcquireMsg, ReleaseMsg, RetryMsg, RevokeMsg, Message

-----------------------------------------------------------------------------
(* Types *)

\* An update of one entry keeps the type of a client's table.
LEMMA RecordUpdate ==
  ASSUME NEW S, NEW f \in [Client -> [Lock -> S]], NEW c \in Client, NEW l \in Lock, NEW e \in S
  PROVE  [f EXCEPT ![c][l] = e] \in [Client -> [Lock -> S]]
OBVIOUS

\* Only one entry of a table of records differs.
SameElsewhere(f, g, c, l) ==
  \A d \in Client, k \in Lock : d # c \/ k # l => g[d][k] = f[d][k]

\* An update of one entry of a table of the clients, and what it leaves.
LEMMA RecordValue ==
  ASSUME NEW S, NEW f \in [Client -> [Lock -> S]], NEW c \in Client, NEW l \in Lock, NEW e,
         NEW g, g = [f EXCEPT ![c][l] = e]
  PROVE  g[c][l] = e /\ SameElsewhere(f, g, c, l)
BY Zenon DEF SameElsewhere

\* One flag of one client is set or cleared, or stays.
SetFlag(f, g, c, l) ==
  \/ g = f
  \/ g = [f EXCEPT ![c][l] = TRUE]
  \/ g = [f EXCEPT ![c][l] = FALSE]

\* A flag that is set or cleared stays a flag.
LEMMA FlagUpdate ==
  ASSUME NEW f, NEW g, f \in [Client -> [Lock -> BOOLEAN]], NEW c \in Client, NEW l \in Lock,
         SetFlag(f, g, c, l)
  PROVE  g \in [Client -> [Lock -> BOOLEAN]]
<1>1. CASE g = f
  BY <1>1, Zenon
<1>2. CASE g = [f EXCEPT ![c][l] = TRUE]
  BY <1>2, Zenon
<1>3. CASE g = [f EXCEPT ![c][l] = FALSE]
  BY <1>3, Zenon
<1> QED BY <1>1, <1>2, <1>3, Zenon DEF SetFlag

\* The server and the clients start well typed.
LEMMA TypeInit == Init => TypeOK
BY LockAssumption DEF Init, TypeOK

\* A thread that is counted is one of a finite number.
LEMMA WaitersAreFinite ==
  ASSUME NEW c, NEW l
  PROVE  IsFiniteSet(Waiters(c, l))
<1>1. Waiters(c, l) \subseteq Thread
  BY Zenon DEF Waiters
<1> QED BY <1>1, LockAssumption, FS_Subset, Zenon

\* awaiting_lock is positive while a thread is in acquire().
LEMMA WaiterIsCounted ==
  ASSUME IndInv, NEW t \in Thread, Waiting(t)
  PROVE  /\ ClientOf[t] \in Client /\ lid[t] \in Lock
         /\ awaiting_lock[ClientOf[t]][lid[t]] \in Nat \ {0}
<1>1. ClientOf[t] \in Client /\ lid[t] \in Lock
  BY LockAssumption, Zenon DEF IndInv, ThreadInv, Waiting, TypeOK
<1>2. t \in Waiters(ClientOf[t], lid[t])
  BY Zenon DEF Waiters
<1>3. /\ awaiting_lock[ClientOf[t]][lid[t]] = Cardinality(Waiters(ClientOf[t], lid[t]))
      /\ awaiting_lock[ClientOf[t]][lid[t]] \in Nat
  BY <1>1 DEF IndInv, LockInv, RecordInv, TypeOK
<1>4. Cardinality(Waiters(ClientOf[t], lid[t])) # 0
  BY <1>2, WaitersAreFinite, FS_EmptySet, Zenon
<1> QED BY <1>1, <1>3, <1>4, Zenon

\* When awaiting_lock is 0 no thread of the client is in acquire().
LEMMA NobodyWaits ==
  ASSUME IndInv, NEW c \in Client, NEW l \in Lock, awaiting_lock[c][l] = 0
  PROVE  \A t \in Thread : ClientOf[t] = c /\ lid[t] = l => ~ Waiting(t)
BY WaiterIsCounted, Zenon

\* Every step keeps the types; awaiting_lock stays a number since only a
\* thread that was counted is taken out.
LEMMA TypeNext == IndInv /\ [Next]_vars => TypeOK'
<1> SUFFICES ASSUME IndInv, [Next]_vars PROVE TypeOK'
  OBVIOUS
<1>0. TypeOK /\ \A t \in Thread : ThreadInv(t)
  BY Zenon DEF IndInv
<1> USE LockAssumption, <1>0
<1>1. CASE UNCHANGED vars
  BY <1>1, Zenon DEF TypeOK, vars, serverVars, infoVars, threadVars
<1>2. ASSUME NEW m \in msgs, server_acquire(m) PROVE TypeOK'
  <2>1. m \in Message /\ m.t \in Thread /\ ClientOf[m.t] \in Client /\ m.lid \in Lock
    BY <1>2, MessageTypes, Zenon DEF server_acquire, TypeOK
  <2>2. holder' \in [Lock -> Client \cup {FREE}] /\ ret' \in [Thread -> {"none", "OK", "RETRY"}]
    BY <1>2, <2>1, ZenonT(30) DEF server_acquire, TypeOK
  <2>3. queue' \in [Lock -> Seq(Client)]
    <3>1. Append(queue[m.lid], ClientOf[m.t]) \in Seq(Client)
      BY <2>1 DEF TypeOK
    <3> QED BY <1>2, <2>1, <3>1, ZenonT(30) DEF server_acquire, TypeOK, Enqueued
  <2> QED BY <1>2, <2>2, <2>3, Zenon DEF server_acquire, TypeOK, infoVars
<1>3. ASSUME NEW m \in msgs, server_release(m) PROVE TypeOK'
  <2>1. m \in Message /\ m.by \in Thread \cup {FREE} /\ m.lid \in Lock
    BY <1>3, MessageTypes, Zenon DEF server_release, TypeOK
  <2>2. queue[m.lid] # <<>> => Head(queue[m.lid]) \in Client /\ Tail(queue[m.lid]) \in Seq(Client)
    BY <2>1 DEF TypeOK
  <2>3. holder' \in [Lock -> Client \cup {FREE}]
    BY <1>3, <2>1, <2>2, ZenonT(30) DEF server_release, TypeOK
  <2>4. revoked' \in [Lock -> BOOLEAN]
    BY <1>3, <2>1, Zenon DEF server_release, TypeOK, Unrevoked
  <2>5. queue' \in [Lock -> Seq(Client)]
    BY <1>3, <2>1, <2>2, ZenonT(30) DEF server_release, TypeOK
  <2>6. msgs' \subseteq Message /\ faults' \in Nat
    BY <1>3, <2>1, <2>2, MessagesAreTyped DEF server_release, TypeOK
  <2> QED BY <1>3, <2>3, <2>4, <2>5, <2>6, Zenon DEF server_release, TypeOK, infoVars, threadVars
<1>4. ASSUME NEW m \in msgs, revoke_handler(m) PROVE TypeOK'
  <2>1. m \in Message /\ m.c \in Client /\ m.lid \in Lock
    BY <1>4, MessageTypes, Zenon DEF revoke_handler, TypeOK
  <2>2. lock_list' \in [Client -> SUBSET Lock] /\ msgs' \subseteq Message
    BY <1>4, <2>1, MessagesAreTyped DEF revoke_handler, TypeOK
  <2>3. owned' \in [Client -> [Lock -> BOOLEAN]] /\ c_revoked' \in [Client -> [Lock -> BOOLEAN]]
    BY <1>4, <2>1, Zenon DEF revoke_handler, TypeOK
  <2> QED BY <1>4, <2>2, <2>3, Zenon DEF revoke_handler, TypeOK, serverVars, threadVars
<1>5. ASSUME NEW m \in msgs, retry_handler(m) PROVE TypeOK'
  <2>1. m \in Message /\ m.c \in Client /\ m.lid \in Lock
    BY <1>5, MessageTypes, Zenon DEF retry_handler, TypeOK
  <2> QED BY <1>5, <2>1, Zenon DEF retry_handler, TypeOK, serverVars, threadVars
<1>6. ASSUME NEW t \in Thread, NEW n \in Nat \ {0}, TakeOrWait(t, n), lid[t] \in Lock
      PROVE  /\ pc' \in [Thread -> {"idle", "start", "get", "acquire", "got", "wait_owned",
                                    "wait_holder", "flush", "release"}]
             /\ awaiting_lock' \in [Client -> [Lock -> Nat]]
             /\ c_holder' \in [Client -> [Lock -> Thread \cup {FREE}]]
             /\ lid' \in [Thread -> Lock \cup {FREE}] /\ held' \in [Thread -> SUBSET Lock]
  <2>1. ClientOf[t] \in Client /\ n - 1 \in Nat
    OBVIOUS
  <2>2. CASE /\ awaiting_lock' = [awaiting_lock EXCEPT ![ClientOf[t]][lid[t]] = n]
             /\ UNCHANGED <<c_holder, lid, held>>
    <3>1. awaiting_lock' \in [Client -> [Lock -> Nat]]
      BY <1>6, <2>1, <2>2, RecordUpdate, Zenon DEF TypeOK
    <3> QED BY <1>6, <2>2, <3>1, ZenonT(30) DEF TakeOrWait, TypeOK
  <2>3. CASE /\ awaiting_lock' = [awaiting_lock EXCEPT ![ClientOf[t]][lid[t]] = n - 1]
             /\ c_holder' = [c_holder EXCEPT ![ClientOf[t]][lid[t]] = t]
             /\ lid' = [lid EXCEPT ![t] = FREE]
             /\ held' = [held EXCEPT ![t] = @ \cup {lid[t]}]
    <3>1. awaiting_lock' \in [Client -> [Lock -> Nat]]
      BY <1>6, <2>1, <2>3, RecordUpdate DEF TypeOK
    <3>2. c_holder' \in [Client -> [Lock -> Thread \cup {FREE}]]
      BY <1>6, <2>1, <2>3, RecordUpdate, Zenon DEF TypeOK
    <3>3. held' \in [Thread -> SUBSET Lock]
      BY <1>6, <2>3, Zenon DEF TypeOK
    <3> QED BY <1>6, <2>3, <3>1, <3>2, <3>3, ZenonT(30) DEF TakeOrWait, TypeOK
  <2> QED BY <1>6, <2>2, <2>3, Zenon DEF TakeOrWait
<1>7. ASSUME NEW t \in Thread, acquire_wait(t) PROVE TypeOK'
  <2>1. ClientOf[t] \in Client /\ lid[t] \in Lock
    BY <1>7, Zenon DEF acquire_wait, ThreadInv, TypeOK
  <2>2. Announced(t) \in Nat \ {0}
    BY <2>1 DEF Announced, TypeOK
  <2>3. CASE TakeOrWait(t, Announced(t))
    BY <1>6, <1>7, <2>1, <2>2, <2>3, ZenonT(30) DEF acquire_wait, TypeOK, serverVars
  <2>4. CASE /\ pc' = [pc EXCEPT ![t] = "get"]
             /\ awaiting_lock' = [awaiting_lock EXCEPT ![ClientOf[t]][lid[t]] = Announced(t)]
             /\ UNCHANGED <<c_holder, lid, held>>
    <3>1. awaiting_lock' \in [Client -> [Lock -> Nat]]
      BY <2>1, <2>2, <2>4, Zenon DEF TypeOK
    <3> QED BY <1>7, <2>4, <3>1, Zenon DEF acquire_wait, TypeOK, serverVars
  <2> QED BY <1>7, <2>3, <2>4, Zenon DEF acquire_wait
<1>8. ASSUME NEW t \in Thread, acquire_take(t) PROVE TypeOK'
  <2>1. Waiting(t)
    BY <1>8, Zenon DEF acquire_take, Waiting
  <2>2. /\ ClientOf[t] \in Client /\ lid[t] \in Lock
        /\ awaiting_lock[ClientOf[t]][lid[t]] \in Nat \ {0}
    BY <2>1, WaiterIsCounted, Zenon
  <2>3. CASE TakeOrWait(t, awaiting_lock[ClientOf[t]][lid[t]])
    BY <1>6, <1>8, <2>2, <2>3, Zenon DEF acquire_take, TypeOK, serverVars
  <2>4. CASE /\ pc' = [pc EXCEPT ![t] = "idle"]
             /\ awaiting_lock' = [awaiting_lock EXCEPT ![ClientOf[t]][lid[t]] = @ - 1]
             /\ c_holder' = [c_holder EXCEPT ![ClientOf[t]][lid[t]] = t]
             /\ lid' = [lid EXCEPT ![t] = FREE]
             /\ held' = [held EXCEPT ![t] = @ \cup {lid[t]}]
    <3>1. awaiting_lock[ClientOf[t]][lid[t]] - 1 \in Nat
      BY <2>2
    <3>2. awaiting_lock' \in [Client -> [Lock -> Nat]]
      BY <2>2, <2>4, <3>1, Zenon DEF TypeOK
    <3>3. c_holder' \in [Client -> [Lock -> Thread \cup {FREE}]]
      BY <2>2, <2>4, Zenon DEF TypeOK
    <3> QED BY <1>8, <2>2, <2>4, <3>2, <3>3 DEF acquire_take, TypeOK, serverVars
  <2> QED BY <1>8, <2>3, <2>4, Zenon DEF acquire_take
<1>9. ASSUME NEW t \in Thread, acquire_lock(t) PROVE TypeOK'
  <2>1. ClientOf[t] \in Client /\ lid[t] \in Lock
    BY <1>9, Zenon DEF acquire_lock, ThreadInv, TypeOK
  <2>2. msgs' \subseteq Message
    BY <1>9, <2>1, MessagesAreTyped DEF acquire_lock, TypeOK
  <2>3. acquiring' \in [Client -> [Lock -> BOOLEAN]]
    <3>1. SetFlag(acquiring, acquiring', ClientOf[t], lid[t])
      BY <1>9, Zenon DEF acquire_lock, SetFlag
    <3> QED BY <2>1, <3>1, FlagUpdate, ZenonT(30) DEF TypeOK
  <2> QED BY <1>9, <2>2, <2>3, ZenonT(30) DEF acquire_lock, TypeOK, serverVars
<1>10. ASSUME NEW t \in Thread, acquire_lock_return(t) PROVE TypeOK'
  <2>1. ClientOf[t] \in Client /\ lid[t] \in Lock
    BY <1>10, Zenon DEF acquire_lock_return, ThreadInv, TypeOK
  <2>2. faults' \in Nat
    BY <1>10 DEF acquire_lock_return, TypeOK
  <2>3. owned' \in [Client -> [Lock -> BOOLEAN]] /\ acquiring' \in [Client -> [Lock -> BOOLEAN]]
    <3>1. /\ SetFlag(acquiring, acquiring', ClientOf[t], lid[t])
          /\ SetFlag(owned, owned', ClientOf[t], lid[t])
      BY <1>10, Zenon DEF acquire_lock_return, SetFlag
    <3> QED BY <2>1, <3>1, FlagUpdate, ZenonT(30) DEF TypeOK
  <2> QED BY <1>10, <2>2, <2>3, Zenon DEF acquire_lock_return, TypeOK, serverVars
<1>11. ASSUME NEW t \in Thread, release_call(t) \/ release_return(t) PROVE TypeOK'
  <2>1. pc[t] = "flush" => lid[t] \in Lock /\ ClientOf[t] \in Client
    BY Zenon DEF ThreadInv, TypeOK
  <2>2. msgs' \subseteq Message
    BY <1>11, <2>1, MessagesAreTyped DEF release_call, release_return, TypeOK
  <2> QED BY <1>11, <2>2, ZenonT(30) DEF release_call, release_return, TypeOK, serverVars, infoVars
<1>12. ASSUME NEW t \in Thread, NEW l \in Lock, acquire(t, l) PROVE TypeOK'
  BY <1>12, ZenonT(30) DEF acquire, TypeOK, serverVars
<1>13. ASSUME NEW t \in Thread, NEW l \in Lock, release(t, l) PROVE TypeOK'
  <2>1. c_holder' \in [Client -> [Lock -> Thread \cup {FREE}]] /\ held' \in [Thread -> SUBSET Lock]
    BY <1>13, Zenon DEF release, TypeOK
  <2>2. /\ owned' \in [Client -> [Lock -> BOOLEAN]] /\ acquiring' \in [Client -> [Lock -> BOOLEAN]]
        /\ c_revoked' \in [Client -> [Lock -> BOOLEAN]]
    <3>1. /\ SetFlag(acquiring, acquiring', ClientOf[t], l)
          /\ SetFlag(owned, owned', ClientOf[t], l)
          /\ SetFlag(c_revoked, c_revoked', ClientOf[t], l)
      BY <1>13, Zenon DEF release, SetFlag
    <3> QED BY <3>1, FlagUpdate, ZenonT(30) DEF TypeOK
  <2>3. /\ lid' = lid \/ lid' = [lid EXCEPT ![t] = l]
        /\ pc' = pc \/ pc' = [pc EXCEPT ![t] = "flush"]
    BY <1>13, Zenon DEF release
  <2>4. lid' \in [Thread -> Lock \cup {FREE}]
    BY <2>3, ZenonT(30) DEF TypeOK
  <2>5. pc' \in [Thread -> {"idle", "start", "get", "acquire", "got", "wait_owned",
                            "wait_holder", "flush", "release"}]
    BY <2>3, ZenonT(30) DEF TypeOK
  <2> QED BY <1>13, <2>1, <2>2, <2>4, <2>5, Zenon DEF release, TypeOK, serverVars
<1>14. ASSUME enforcer PROVE TypeOK'
  <2>1. \A l \in Wanted : l \in Lock /\ holder[l] \in Client
    BY DEF Wanted, TypeOK, IndInv, LockInv, QueueInv
  <2>2. revoke_queue' \subseteq [holder : Client, lid : Lock]
    BY <1>14, <2>1 DEF enforcer, TypeOK
  <2> QED BY <1>14, <2>2, Zenon DEF enforcer, TypeOK, infoVars, threadVars
<1>15. ASSUME NEW r \in revoke_queue, revoker_call(r) PROVE TypeOK'
  <2>1. r.holder \in Client /\ r.lid \in Lock
    BY Zenon DEF TypeOK
  <2>2. msgs' \subseteq Message /\ faults' \in Nat /\ revoker' \in {"asleep", "loop", "call"}
    BY <1>15, <2>1, MessagesAreTyped DEF revoker_call, TypeOK, AfterCall
  <2> QED BY <1>15, <2>2, Zenon DEF revoker_call, TypeOK, infoVars, threadVars
<1>16. CASE revoker_return
  BY <1>16, Zenon DEF revoker_return, TypeOK, AfterCall, infoVars, threadVars
<1> QED BY <1>1, <1>2, <1>3, <1>4, <1>5, <1>7, <1>8, <1>9, <1>10, <1>11, <1>12, <1>13,
           <1>14, <1>15, <1>16, Zenon DEF Next, ThreadStep, Handler
-----------------------------------------------------------------------------
(* A step concerns one lock: all that is about another stays. *)

SameLock(l) ==
  /\ holder'[l] = holder[l] /\ queue'[l] = queue[l] /\ revoked'[l] = revoked[l]
  /\ \A c \in Client :
       /\ owned'[c][l] = owned[c][l] /\ acquiring'[c][l] = acquiring[c][l]
       /\ c_revoked'[c][l] = c_revoked[c][l] /\ awaiting_lock'[c][l] = awaiting_lock[c][l]
       /\ c_holder'[c][l] = c_holder[c][l]
       /\ l \in lock_list'[c] <=> l \in lock_list[c]
       /\ [holder |-> c, lid |-> l] \in revoke_queue' <=> [holder |-> c, lid |-> l] \in revoke_queue
  /\ \A t \in Thread :
       /\ lid'[t] = l <=> lid[t] = l
       /\ lid[t] = l => pc'[t] = pc[t] /\ ret'[t] = ret[t]
       /\ l \in held'[t] <=> l \in held[t]
  /\ \A m \in Message : m.lid = l => (m \in msgs' <=> m \in msgs)

\* An element of a sequence over S is in S.
LEMMA ElementOfSeq ==
  ASSUME NEW S, NEW s \in Seq(S), NEW i \in 1 .. Len(s)
  PROVE  s[i] \in S
OBVIOUS

\* A step that does not touch a lock keeps what is said of it.
LEMMA OtherLock ==
  ASSUME TypeOK, TypeOK', NEW l \in Lock, LockInv(l), SameLock(l)
  PROVE  LockInv(l)'
<1>1. \A c \in Client : /\ Retried(c, l)' <=> Retried(c, l)
                        /\ Released(c, l)' <=> Released(c, l)
  BY Zenon DEF SameLock, Retried, Released, TypeOK
<1>2. \A c \in Client : /\ Answered(c, l)' <=> Answered(c, l)
                        /\ Flushing(c, l)' <=> Flushing(c, l)
                        /\ Waiters(c, l)' = Waiters(c, l)
  BY Zenon DEF SameLock, Answered, Flushing, Waiters, Waiting
<1>3. \A c \in Client : Queued(c, l)' <=> Queued(c, l)
  BY Zenon DEF SameLock, Queued
<1>4. /\ \A t \in Thread : AcquireMsg(t, l) \in msgs' <=> AcquireMsg(t, l) \in msgs
      /\ \A c \in Client : RevokeMsg(c, l) \in msgs' <=> RevokeMsg(c, l) \in msgs
  BY MessagesAreTyped, MessageFields DEF SameLock
<1>5. \A c \in Client : Asked(c, l)' <=> Asked(c, l)
  BY <1>4, Zenon DEF SameLock, Asked
<1>6. ASSUME NEW t \in Thread PROVE WorkInv(t, l)' /\ RequestInv(t, l)'
  <2>1. ClientOf[t] \in Client
    BY LockAssumption, Zenon
  <2>2. WorkInv(t, l)'
    <3>1. WorkInv(t, l)
      BY Zenon DEF LockInv
    <3>2. /\ owned'[ClientOf[t]][l] = owned[ClientOf[t]][l]
          /\ acquiring'[ClientOf[t]][l] = acquiring[ClientOf[t]][l]
          /\ c_holder'[ClientOf[t]][l] = c_holder[ClientOf[t]][l]
          /\ l \in lock_list'[ClientOf[t]] <=> l \in lock_list[ClientOf[t]]
          /\ lid'[t] = l <=> lid[t] = l
          /\ lid[t] = l => pc'[t] = pc[t]
          /\ l \in held'[t] <=> l \in held[t]
      BY <2>1, ZenonT(30) DEF SameLock
    <3> QED BY <3>1, <3>2, Zenon DEF WorkInv
  <2>3. lid[t] = l => (Waiting(t)' <=> Waiting(t))
    BY Zenon DEF SameLock, Waiting
  <2>4. RequestInv(t, l)'
    BY <1>1, <1>2, <1>3, <1>4, <2>1, <2>3, ZenonT(30) DEF LockInv, RequestInv, SameLock
  <2> QED BY <2>2, <2>4, Zenon
<1>7. ASSUME NEW t \in Thread, NEW u \in Thread PROVE AnswerInv(t, u, l)'
  BY ZenonT(30) DEF LockInv, AnswerInv, SameLock
<1>8. QueueInv(l)'
  <2>1. QueueInv(l) /\ holder'[l] = holder[l] /\ queue'[l] = queue[l] /\ queue[l] \in Seq(Client)
    BY Zenon DEF LockInv, SameLock, TypeOK
  <2>2. ASSUME NEW i \in 1 .. Len(queue[l])
        PROVE  /\ acquiring'[queue[l][i]][l] /\ l \in lock_list'[queue[l][i]]
               /\ ~ Retried(queue[l][i], l)' /\ ~ Answered(queue[l][i], l)'
    <3>1. queue[l][i] \in Client /\ queue'[l][i] = queue[l][i]
      BY <2>1, ElementOfSeq, Zenon
    <3>2. /\ acquiring[queue[l][i]][l] /\ l \in lock_list[queue[l][i]]
          /\ ~ Retried(queue[l][i], l) /\ ~ Answered(queue[l][i], l)
      BY <2>1, Zenon DEF QueueInv
    <3>3. acquiring'[queue[l][i]][l] /\ l \in lock_list'[queue[l][i]]
      BY <3>1, <3>2, ZenonT(30) DEF SameLock
    <3>4. ~ Retried(queue[l][i], l)'
      BY <1>1, <3>1, <3>2, Zenon
    <3>5. ~ Answered(queue[l][i], l)'
      BY <1>2, <3>1, <3>2, Zenon
    <3> QED BY <3>3, <3>4, <3>5, Zenon
  <2> QED BY <2>1, <2>2, ZenonT(30) DEF QueueInv
<1>9. ASSUME NEW c \in Client
      PROVE RecordInv(c, l)' /\ GrantInv(c, l)' /\ ReturnInv(c, l)' /\ RevokeInv(c, l)'
  <2>1. RecordInv(c, l)'
    <3>1. /\ owned'[c][l] = owned[c][l] /\ acquiring'[c][l] = acquiring[c][l]
          /\ c_revoked'[c][l] = c_revoked[c][l] /\ awaiting_lock'[c][l] = awaiting_lock[c][l]
          /\ c_holder'[c][l] = c_holder[c][l]
          /\ l \in lock_list'[c] <=> l \in lock_list[c]
          /\ holder'[l] = holder[l] /\ revoked'[l] = revoked[l]
      BY ZenonT(30) DEF SameLock
    <3>2. RecordInv(c, l)
      BY Zenon DEF LockInv
    <3>3. c_holder[c][l] # FREE =>
            (l \in held'[c_holder[c][l]] <=> l \in held[c_holder[c][l]])
      BY DEF SameLock, TypeOK
    <3> QED BY <1>1, <1>2, <3>1, <3>2, <3>3, ZenonT(30) DEF RecordInv
  <2>2. GrantInv(c, l)'
    BY <1>1, <1>2, ZenonT(30) DEF LockInv, GrantInv, SameLock, TypeOK
  <2>3. ReturnInv(c, l)'
    <3>1. /\ owned'[c][l] = owned[c][l] /\ c_revoked'[c][l] = c_revoked[c][l]
          /\ holder'[l] = holder[l] /\ revoked'[l] = revoked[l]
          /\ ReturnInv(c, l)
      BY ZenonT(30) DEF SameLock, LockInv
    <3>2. \A m \in msgs' : m.lid = l => m \in msgs
      BY Zenon DEF SameLock, TypeOK
    <3>3. \A t \in Thread : pc'[t] = "flush" /\ lid'[t] = l => pc[t] = "flush" /\ lid[t] = l
      BY ZenonT(30) DEF SameLock
    <3> QED BY <1>1, <1>2, <3>1, <3>2, <3>3, ZenonT(30) DEF ReturnInv
  <2>4. RevokeInv(c, l)'
    BY <1>1, <1>2, <1>4, <1>5, ZenonT(30) DEF LockInv, RevokeInv, SameLock
  <2> QED BY <2>1, <2>2, <2>3, <2>4, Zenon
<1> QED BY <1>6, <1>7, <1>8, <1>9, Zenon DEF LockInv

-----------------------------------------------------------------------------
(* The steps, one by one. *)

\* A release message comes from the holder, a retry goes to it.
LEMMA ReleaseByHolder ==
  ASSUME TypeOK, NEW l \in Lock, LockInv(l), NEW m \in msgs, m.lid = l,
         m.type = "release"
  PROVE  m.c \in Client /\ holder[l] = m.c /\ Released(m.c, l)
<1>1. m.c \in Client
  BY MessageTypes, Zenon DEF TypeOK
<1> QED BY <1>1, Zenon DEF Released, LockInv, ReturnInv

\* A retry on its way goes to the client that the server has made the holder.
LEMMA RetryToHolder ==
  ASSUME TypeOK, NEW l \in Lock, LockInv(l), NEW m \in msgs, m.lid = l,
         m.type = "retry"
  PROVE  m.c \in Client /\ holder[l] = m.c /\ Retried(m.c, l)
<1>1. m.c \in Client
  BY MessageTypes, Zenon DEF TypeOK
<1> QED BY <1>1, Zenon DEF Retried, LockInv, GrantInv

\* Steps of the threads alone: the server and the messages are as before.
SameMail(l) ==
  /\ holder'[l] = holder[l] /\ queue'[l] = queue[l] /\ revoked'[l] = revoked[l]
  /\ revoke_queue' = revoke_queue
  /\ \A m \in Message : m.lid = l => (m \in msgs' <=> m \in msgs)

\* What is on its way for a lock depends only on its messages and threads.
LEMMA MailFrame ==
  ASSUME TypeOK, TypeOK', NEW l \in Lock, SameMail(l)
  PROVE  /\ \A c \in Client : /\ Retried(c, l)' <=> Retried(c, l)
                              /\ Released(c, l)' <=> Released(c, l)
                              /\ Queued(c, l)' <=> Queued(c, l)
                              /\ Asked(c, l)' <=> Asked(c, l)
                              /\ RevokeMsg(c, l) \in msgs' <=> RevokeMsg(c, l) \in msgs
         /\ \A t \in Thread : AcquireMsg(t, l) \in msgs' <=> AcquireMsg(t, l) \in msgs
         /\ \A m \in msgs' : m.lid = l => m \in msgs
<1>1. \A m \in msgs' : m.lid = l => m \in msgs
  BY Zenon DEF SameMail, TypeOK
<1>2. \A m \in msgs : m.lid = l => m \in msgs'
  BY Zenon DEF SameMail, TypeOK
<1>3. /\ \A t \in Thread : AcquireMsg(t, l) \in msgs' <=> AcquireMsg(t, l) \in msgs
      /\ \A c \in Client : RevokeMsg(c, l) \in msgs' <=> RevokeMsg(c, l) \in msgs
  BY MessagesAreTyped, MessageFields DEF SameMail
<1>4. \A c \in Client : /\ Retried(c, l)' <=> Retried(c, l)
                        /\ Released(c, l)' <=> Released(c, l)
  BY <1>1, <1>2, Zenon DEF Retried, Released
<1>5. \A c \in Client : Queued(c, l)' <=> Queued(c, l)
  BY Zenon DEF SameMail, Queued
<1>6. \A c \in Client : Asked(c, l)' <=> Asked(c, l)
  BY <1>3, Zenon DEF SameMail, Asked
<1> QED BY <1>1, <1>3, <1>4, <1>5, <1>6, Zenon

\* The queue of a lock stays in order while it and the requests in it stay.
LEMMA QueueFrame ==
  ASSUME TypeOK, NEW l \in Lock, LockInv(l), queue'[l] = queue[l], holder'[l] = holder[l],
         \A d \in Client : /\ acquiring[d][l] => acquiring'[d][l]
                           /\ l \in lock_list[d] => l \in lock_list'[d]
                           /\ Retried(d, l)' => Retried(d, l)
                           /\ Answered(d, l)' => Answered(d, l)
  PROVE  QueueInv(l)'
<1>1. queue[l] \in Seq(Client) /\ QueueInv(l)
  BY Zenon DEF TypeOK, LockInv
<1>2. \A i \in 1 .. Len(queue[l]) : queue[l][i] \in Client
  BY <1>1, ElementOfSeq, ZenonT(30)
<1>3. ASSUME NEW i \in 1 .. Len(queue[l])
      PROVE  /\ acquiring'[queue'[l][i]][l] /\ l \in lock_list'[queue'[l][i]]
             /\ ~ Retried(queue[l][i], l)' /\ ~ Answered(queue[l][i], l)'
  <2>1. /\ acquiring[queue[l][i]][l] /\ l \in lock_list[queue[l][i]]
        /\ ~ Retried(queue[l][i], l) /\ ~ Answered(queue[l][i], l)
    BY <1>1, Zenon DEF QueueInv
  <2>2. queue[l][i] \in Client /\ queue'[l][i] = queue[l][i]
    BY <1>2, Zenon
  <2>3. acquiring'[queue'[l][i]][l] /\ l \in lock_list'[queue'[l][i]]
    BY <2>1, <2>2, Zenon
  <2>4. ~ Retried(queue[l][i], l)' /\ ~ Answered(queue[l][i], l)'
    BY <2>1, <2>2, Zenon
  <2> QED BY <2>3, <2>4, Zenon
<1> QED BY <1>1, <1>3, Zenon DEF QueueInv

\* What a step on lock l has to keep.
Kept(l) ==
  /\ \A t \in Thread : ThreadInv(t)'
  /\ \A k \in Lock \ {l} : SameLock(k)
  /\ LockInv(l)'
-----------------------------------------------------------------------------
(* The lock service that the threads see. *)

\* Two threads that hold a lock are one thread.
LEMMA OneHolder == IndInv => MutualExclusion
<1> SUFFICES ASSUME IndInv, NEW t \in Thread, NEW u \in Thread, NEW l \in Lock,
                    l \in held[t], l \in held[u]
             PROVE  t = u
  BY Zenon DEF MutualExclusion, Holds
<1>1. LockInv(l) /\ ClientOf[t] \in Client /\ ClientOf[u] \in Client /\ t # FREE /\ u # FREE
  BY LockAssumption, Zenon DEF IndInv
<1>2. c_holder[ClientOf[t]][l] = t /\ c_holder[ClientOf[u]][l] = u
  BY <1>1, ZenonT(30) DEF LockInv, WorkInv
<1>3. holder[l] = ClientOf[t] /\ holder[l] = ClientOf[u]
  BY <1>1, <1>2, ZenonT(30) DEF LockInv, RecordInv
<1> QED BY <1>2, <1>3, Zenon

\* The owner of a lock is the thread that holds it, before and after a step.
LEMMA OwnerHolds ==
  ASSUME MutualExclusion, MutualExclusion', NEW l \in Lock
  PROVE  /\ \A t \in Thread : Owner(l) = t <=> l \in held[t]
         /\ Owner(l) = FREE <=> \A t \in Thread : l \notin held[t]
         /\ \A t \in Thread : Owner(l)' = t <=> l \in held'[t]
         /\ Owner(l)' = FREE <=> \A t \in Thread : l \notin held'[t]
<1>0. \A t \in Thread : t # FREE
  BY LockAssumption, Zenon
<1>1. /\ \A t \in Thread : Owner(l) = t <=> l \in held[t]
      /\ Owner(l) = FREE <=> \A t \in Thread : l \notin held[t]
  <2>1. CASE \E t \in Thread : Holds(t, l)
    <3>1. Owner(l) \in Thread /\ Holds(Owner(l), l)
      BY <2>1, Zenon DEF Owner
    <3> QED BY <1>0, <3>1, Zenon DEF MutualExclusion, Holds
  <2>2. CASE ~ \E t \in Thread : Holds(t, l)
    <3>1. Owner(l) = FREE
      BY <2>2, Zenon DEF Owner
    <3> QED BY <1>0, <2>2, <3>1, Zenon DEF Holds
  <2> QED BY <2>1, <2>2, Zenon
<1>2. /\ \A t \in Thread : Owner(l)' = t <=> l \in held'[t]
      /\ Owner(l)' = FREE <=> \A t \in Thread : l \notin held'[t]
  <2>1. CASE \E t \in Thread : Holds(t, l)'
    <3>1. Owner(l)' \in Thread /\ l \in held'[Owner(l)']
      BY <2>1, Zenon DEF Owner, Holds
    <3> QED BY <1>0, <3>1, Zenon DEF MutualExclusion, Holds
  <2>2. CASE ~ \E t \in Thread : Holds(t, l)'
    <3>1. Owner(l)' = FREE
      BY <2>2, Zenon DEF Owner
    <3> QED BY <1>0, <2>2, <3>1, Zenon DEF Holds
  <2> QED BY <2>1, <2>2, Zenon
<1> QED BY <1>1, <1>2, Zenon

\* A step that keeps the holders of the locks and the requests of the threads
\* is not visible to the service's callers.
LEMMA ServiceStutters ==
  ASSUME MutualExclusion, MutualExclusion',
         \A t \in Thread, l \in Lock : l \in held'[t] <=> l \in held[t],
         \A t \in Thread : Wants(t)' = Wants(t)
  PROVE  UNCHANGED Service!vars
<1>1. ASSUME NEW l \in Lock PROVE Owner(l)' = Owner(l)
  <2>1. CASE \E t \in Thread : l \in held[t]
    BY <2>1, OwnerHolds, Zenon
  <2>2. CASE \A t \in Thread : l \notin held[t]
    BY <2>2, OwnerHolds, Zenon
  <2> QED BY <2>1, <2>2, Zenon
<1>2. [l \in Lock |-> Owner(l)]' = [l \in Lock |-> Owner(l)]
  BY <1>1, Zenon
<1>3. [t \in Thread |-> Wants(t)]' = [t \in Thread |-> Wants(t)]
  BY Zenon
<1> QED BY <1>2, <1>3, Zenon DEF Service!vars

\* acquire() enters a request for a lock the thread does not hold.
LEMMA ServiceRequests ==
  ASSUME IndInv, MutualExclusion', NEW t \in Thread, NEW l \in Lock, acquire(t, l)
  PROVE  Service!Request(t, l)
<1>0. TypeOK /\ ThreadInv(t) /\ MutualExclusion
  BY OneHolder, Zenon DEF IndInv
<1>1. l \notin held[t]
  BY LockAssumption, Zenon DEF acquire
<1>2. Owner(l) # t
  BY <1>0, <1>1, OwnerHolds, Zenon
<1>3. Wants(t) = FREE
  BY <1>0, Zenon DEF acquire, ThreadInv, Wants, Waiting
<1>4. \A k \in Lock : Owner(k)' = Owner(k)
  <2> SUFFICES ASSUME NEW k \in Lock PROVE Owner(k)' = Owner(k)
    OBVIOUS
  <2>1. held' = held
    BY Zenon DEF acquire
  <2> QED BY <1>0, <2>1, OwnerHolds, Zenon
<1>5. \A u \in Thread : Wants(u)' = IF u = t THEN l ELSE Wants(u)
  BY <1>0, ZenonT(30) DEF acquire, Wants, Waiting, TypeOK
<1>6. [u \in Thread |-> Wants(u)]' = [[u \in Thread |-> Wants(u)] EXCEPT ![t] = l]
  BY <1>5, ZenonT(30)
<1>7. [k \in Lock |-> Owner(k)]' = [k \in Lock |-> Owner(k)]
  BY <1>4, Zenon
<1> QED BY <1>2, <1>3, <1>6, <1>7, Zenon DEF Service!Request

\* The end of acquire() hands a lock that no thread of any client holds to
\* the thread that asked for it.
LEMMA ServiceGrants ==
  ASSUME IndInv, MutualExclusion', NEW t \in Thread, NEW l \in Lock,
         pc[t] = "start" \/ Waiting(t), lid[t] = l, owned[ClientOf[t]][l],
         c_holder[ClientOf[t]][l] = FREE,
         pc' = [pc EXCEPT ![t] = "idle"], lid' = [lid EXCEPT ![t] = FREE],
         held' = [held EXCEPT ![t] = @ \cup {l}]
  PROVE  Service!Grant(t, l)
<1>0. TypeOK /\ LockInv(l) /\ MutualExclusion
  BY OneHolder, Zenon DEF IndInv
<1>1. ASSUME NEW u \in Thread PROVE l \notin held[u]
  <2>1. SUFFICES ASSUME l \in held[u] PROVE FALSE
    OBVIOUS
  <2>2. ClientOf[t] \in Client /\ ClientOf[u] \in Client /\ u # FREE
    BY LockAssumption, Zenon
  <2>3. c_holder[ClientOf[u]][l] = u
    BY <1>0, <2>1, Zenon DEF LockInv, WorkInv
  <2>4. holder[l] = ClientOf[u] /\ holder[l] = ClientOf[t]
    BY <1>0, <2>2, <2>3, ZenonT(30) DEF LockInv, RecordInv
  <2> QED BY <2>2, <2>3, <2>4, Zenon
<1>2. Owner(l) = FREE
  BY <1>0, <1>1, OwnerHolds, Zenon
<1>3. Wants(t) = l
  BY Zenon DEF Wants
<1>4. \A u \in Thread, k \in Lock :
        k \in held'[u] <=> (k \in held[u] \/ (u = t /\ k = l))
  BY <1>0, ZenonT(30) DEF TypeOK
<1>5. Owner(l)' = t
  BY <1>0, <1>4, OwnerHolds, Zenon
<1>6. ASSUME NEW k \in Lock, k # l PROVE Owner(k)' = Owner(k)
  <2>1. CASE \E u \in Thread : k \in held[u]
    <3>1. PICK u \in Thread : k \in held[u] /\ k \in held'[u]
      BY <1>4, <1>6, <2>1, Zenon
    <3> QED BY <1>0, <3>1, OwnerHolds, Zenon
  <2>2. CASE \A u \in Thread : k \notin held[u]
    BY <1>0, <1>4, <1>6, <2>2, OwnerHolds, Zenon
  <2> QED BY <2>1, <2>2, Zenon
<1>7. [k \in Lock |-> Owner(k)]' = [[k \in Lock |-> Owner(k)] EXCEPT ![l] = t]
  BY <1>5, <1>6, ZenonT(30)
<1>8. \A u \in Thread : Wants(u)' = IF u = t THEN FREE ELSE Wants(u)
  BY <1>0, ZenonT(30) DEF Wants, Waiting, TypeOK
<1>9. [u \in Thread |-> Wants(u)]' = [[u \in Thread |-> Wants(u)] EXCEPT ![t] = FREE]
  BY <1>8, ZenonT(30)
<1> QED BY <1>2, <1>3, <1>7, <1>9, Zenon DEF Service!Grant

\* release() frees a lock of the thread that calls it.
LEMMA ServiceReleases ==
  ASSUME IndInv, MutualExclusion', NEW t \in Thread, NEW l \in Lock, release(t, l)
  PROVE  Service!Release(t, l)
<1>0. TypeOK /\ MutualExclusion
  BY OneHolder, Zenon DEF IndInv
<1>1. l \in held[t] /\ pc[t] = "idle" /\ held' = [held EXCEPT ![t] = @ \ {l}]
  BY Zenon DEF release, Holds
<1>2. Owner(l) = t
  BY <1>0, <1>1, OwnerHolds, Zenon
<1>3. \A u \in Thread, k \in Lock :
        k \in held'[u] <=> (k \in held[u] /\ ~ (u = t /\ k = l))
  BY <1>0, <1>1, ZenonT(30) DEF TypeOK
<1>4. \A u \in Thread : l \notin held'[u]
  BY <1>0, <1>1, <1>3, Zenon DEF MutualExclusion, Holds
<1>5. Owner(l)' = FREE
  BY <1>0, <1>4, OwnerHolds, Zenon
<1>6. ASSUME NEW k \in Lock, k # l PROVE Owner(k)' = Owner(k)
  <2>1. CASE \E u \in Thread : k \in held[u]
    <3>1. PICK u \in Thread : k \in held[u] /\ k \in held'[u]
      BY <1>3, <1>6, <2>1, Zenon
    <3> QED BY <1>0, <3>1, OwnerHolds, Zenon
  <2>2. CASE \A u \in Thread : k \notin held[u]
    BY <1>0, <1>3, <1>6, <2>2, OwnerHolds, Zenon
  <2> QED BY <2>1, <2>2, Zenon
<1>7. [k \in Lock |-> Owner(k)]' = [[k \in Lock |-> Owner(k)] EXCEPT ![l] = FREE]
  BY <1>5, <1>6, ZenonT(30)
<1>8. Wants(t) = FREE
  BY <1>1, Zenon DEF Wants, Waiting
<1>9. \A u \in Thread : Wants(u)' = Wants(u)
  BY <1>0, <1>1, <1>8, ZenonT(30) DEF Wants, Waiting, TypeOK, release
<1>10. [u \in Thread |-> Wants(u)]' = [u \in Thread |-> Wants(u)]
  BY <1>9, Zenon
<1> QED BY <1>2, <1>7, <1>8, <1>10, Zenon DEF Service!Release

\* Every step of the clients and the server is a step of the lock service or
\* is not visible to its callers.
LEMMA ServiceNext == IndInv /\ IndInv' /\ [Next]_vars => [Service!Next]_(Service!vars)
<1> SUFFICES ASSUME IndInv, IndInv', [Next]_vars
             PROVE  Service!Next \/ UNCHANGED Service!vars
  BY Zenon
<1>0. TypeOK /\ MutualExclusion /\ MutualExclusion' /\ \A t \in Thread : ThreadInv(t)
  <2>1. (IndInv => MutualExclusion)'
    BY OneHolder, PTL
  <2> QED BY <2>1, OneHolder, Zenon DEF IndInv
<1>1. ASSUME UNCHANGED <<pc, lid, held>> PROVE UNCHANGED Service!vars
  <2>1. \A t \in Thread : Wants(t)' = Wants(t)
    BY <1>1, Zenon DEF Wants, Waiting
  <2> QED BY <1>0, <1>1, <2>1, ServiceStutters, Zenon
<1>2. ASSUME NEW t \in Thread, held' = held,
             \/ /\ pc[t] = "start" \/ Waiting(t)
                /\ lid' = lid
                /\ \E s \in {"get", "acquire", "got", "wait_owned", "wait_holder"} :
                     pc' = [pc EXCEPT ![t] = s]
             \/ /\ pc[t] \in {"flush", "release"}
                /\ lid' = lid \/ lid' = [lid EXCEPT ![t] = FREE]
                /\ pc' = [pc EXCEPT ![t] = "release"] \/ pc' = [pc EXCEPT ![t] = "idle"]
      PROVE  UNCHANGED Service!vars
  <2>1. \A u \in Thread \ {t} : pc'[u] = pc[u] /\ lid'[u] = lid[u]
    BY <1>0, <1>2, ZenonT(30) DEF TypeOK
  <2>2. \A u \in Thread \ {t} : Wants(u)' = Wants(u)
    BY <2>1, Zenon DEF Wants, Waiting
  <2>3. Wants(t)' = Wants(t)
    BY <1>0, <1>2, ZenonT(30) DEF Wants, Waiting, TypeOK
  <2> QED BY <1>0, <1>2, <2>2, <2>3, ServiceStutters, Zenon
<1>3. CASE UNCHANGED vars
  BY <1>1, <1>3, Zenon DEF vars, threadVars
<1>4. ASSUME NEW m \in msgs, Handler(m) PROVE UNCHANGED Service!vars
  <2>1. UNCHANGED <<pc, lid, held>>
    BY <1>4, Zenon DEF Handler, server_acquire, server_release, revoke_handler, retry_handler,
                      threadVars
  <2> QED BY <1>1, <2>1, Zenon
<1>5. ASSUME enforcer \/ revoker_return \/ \E r \in revoke_queue : revoker_call(r)
      PROVE  UNCHANGED Service!vars
  <2>1. UNCHANGED <<pc, lid, held>>
    BY <1>5, Zenon DEF enforcer, revoker_return, revoker_call, threadVars
  <2> QED BY <1>1, <2>1, Zenon
<1>6. ASSUME NEW t \in Thread, NEW l \in Lock, acquire(t, l) \/ release(t, l)
      PROVE  Service!Next
  <2>1. Service!Request(t, l) \/ Service!Release(t, l)
    BY <1>0, <1>6, ServiceRequests, ServiceReleases, Zenon
  <2> QED BY <2>1, Zenon DEF Service!Next
<1>7. ASSUME NEW t \in Thread, acquire_lock(t) \/ acquire_lock_return(t)
      PROVE  UNCHANGED Service!vars
  <2>1. /\ Waiting(t) /\ held' = held /\ lid' = lid
        /\ pc' = [pc EXCEPT ![t] = "acquire"] \/ pc' = [pc EXCEPT ![t] = "got"]
    BY <1>7, Zenon DEF acquire_lock, acquire_lock_return, Waiting
  <2> QED BY <1>2, <2>1, Zenon
<1>8. ASSUME NEW t \in Thread, release_call(t) \/ release_return(t)
      PROVE  UNCHANGED Service!vars
  <2>1. /\ pc[t] \in {"flush", "release"} /\ held' = held
        /\ lid' = lid \/ lid' = [lid EXCEPT ![t] = FREE]
        /\ pc' = [pc EXCEPT ![t] = "release"] \/ pc' = [pc EXCEPT ![t] = "idle"]
    BY <1>8, Zenon DEF release_call, release_return
  <2> QED BY <1>2, <2>1, Zenon
<1>9. ASSUME NEW t \in Thread, acquire_wait(t) \/ acquire_take(t)
      PROVE  Service!Next \/ UNCHANGED Service!vars
  <2>1. pc[t] = "start" \/ Waiting(t)
    BY <1>9, Zenon DEF acquire_wait, acquire_take, Waiting
  <2>2. lid[t] \in Lock
    BY <1>0, <2>1, Zenon DEF ThreadInv, TypeOK, Waiting
  <2>3. \/ /\ held' = held /\ lid' = lid
           /\ \E s \in {"get", "wait_owned", "wait_holder"} : pc' = [pc EXCEPT ![t] = s]
        \/ /\ owned[ClientOf[t]][lid[t]] /\ c_holder[ClientOf[t]][lid[t]] = FREE
           /\ pc' = [pc EXCEPT ![t] = "idle"] /\ lid' = [lid EXCEPT ![t] = FREE]
           /\ held' = [held EXCEPT ![t] = @ \cup {lid[t]}]
    <3>1. CASE acquire_wait(t)
      BY <3>1, Zenon DEF acquire_wait, TakeOrWait
    <3>2. pc[t] = "wait_holder" => owned[ClientOf[t]][lid[t]]
      BY <2>2, Zenon DEF IndInv, LockInv, WorkInv
    <3>3. CASE acquire_take(t)
      BY <3>2, <3>3, Zenon DEF acquire_take, TakeOrWait, HolderLeft
    <3> QED BY <1>9, <3>1, <3>3, Zenon
  <2>4. CASE /\ held' = held /\ lid' = lid
             /\ \E s \in {"get", "wait_owned", "wait_holder"} : pc' = [pc EXCEPT ![t] = s]
    BY <1>2, <2>1, <2>4, Zenon
  <2>5. CASE /\ owned[ClientOf[t]][lid[t]] /\ c_holder[ClientOf[t]][lid[t]] = FREE
             /\ pc' = [pc EXCEPT ![t] = "idle"] /\ lid' = [lid EXCEPT ![t] = FREE]
             /\ held' = [held EXCEPT ![t] = @ \cup {lid[t]}]
    <3>1. Service!Grant(t, lid[t])
      BY <1>0, <2>1, <2>2, <2>5, ServiceGrants, Zenon
    <3> QED BY <2>2, <3>1, Zenon DEF Service!Next
  <2> QED BY <2>3, <2>4, <2>5, Zenon
<1> QED BY <1>3, <1>4, <1>5, <1>6, <1>7, <1>8, <1>9, Zenon DEF Next, ThreadStep

-----------------------------------------------------------------------------
(* Clients that queue for a lock are served. *)

\* A failed call stays counted.
LEMMA FaultsStay ==
  ASSUME TypeOK, [Next]_vars, faults' = 0
  PROVE  faults = 0
<1>1. faults \in Nat /\ (faults' = faults \/ faults' = faults + 1)
  <2>1. ASSUME NEW m \in msgs, Handler(m) PROVE faults' = faults \/ faults' = faults + 1
    BY <2>1, Zenon DEF Handler, server_acquire, server_release, revoke_handler, retry_handler
  <2>2. ASSUME NEW t \in Thread, ThreadStep(t) PROVE faults' = faults \/ faults' = faults + 1
    BY <2>2, Zenon DEF ThreadStep, acquire_wait, acquire_take, acquire_lock, acquire_lock_return,
                      release_call, release_return
  <2>3. ASSUME NEW t \in Thread, NEW l \in Lock, acquire(t, l) \/ release(t, l)
        PROVE  faults' = faults
    BY <2>3, Zenon DEF acquire, release
  <2>4. ASSUME NEW r \in revoke_queue, revoker_call(r)
        PROVE  faults' = faults \/ faults' = faults + 1
    BY <2>4, Zenon DEF revoker_call
  <2> QED BY <2>1, <2>2, <2>3, <2>4, Zenon DEF Next, enforcer, revoker_return, vars, TypeOK
<1> QED BY <1>1

\* What has been done about the revoke of a lock is kept or followed by the
\* next thing.
AskKept(l) ==
  /\ revoked'[l] => revoked[l]
  /\ \A c \in Client :
       /\ Asked(c, l) => Asked(c, l)' \/ c_revoked'[c][l] \/ Returning(c, l)' \/ faults' # 0
       /\ c_revoked[c][l] => c_revoked'[c][l] \/ Returning(c, l)'
       /\ Returning(c, l) => Returning(c, l)' \/ ~ revoked'[l]

\* Then the lock is still asked for or on its way back.
LEMMA AskStays ==
  ASSUME TypeOK, [Next]_vars, NEW l \in Lock, AskInv(l), AskKept(l)
  PROVE  AskInv(l)'
BY FaultsStay, ZenonT(30) DEF AskInv, AskKept

\* A step that takes no revoke and no release away.
LEMMA AskCalm ==
  ASSUME TypeOK, [Next]_vars, UNCHANGED <<revoked, revoke_queue, c_revoked>>,
         \A m \in msgs : m.type \in {"release", "revoke"} => m \in msgs',
         \A t \in Thread : pc[t] = "flush" => pc'[t] = "flush" /\ lid'[t] = lid[t],
         NEW l \in Lock, AskInv(l)
  PROVE  AskInv(l)'
<1>1. ASSUME NEW c \in Client PROVE Asked(c, l) => Asked(c, l)'
  <2>1. RevokeMsg(c, l).type = "revoke"
    BY Zenon DEF RevokeMsg
  <2> QED BY <2>1, Zenon DEF Asked
<1>2. ASSUME NEW c \in Client PROVE Returning(c, l) => Returning(c, l)'
  BY Zenon DEF Returning
<1> QED BY <1>1, <1>2, AskStays, Zenon DEF AskKept

\* The steps of the threads: a thread that clears the mark of a revoke gives
\* the lock back.
LEMMA AskThread ==
  ASSUME IndInv, NEW l \in Lock, AskInv(l), [Next]_vars, NEW t \in Thread,
         \/ ThreadStep(t)
         \/ \E k \in Lock : acquire(t, k) \/ release(t, k)
  PROVE  AskInv(l)'
<1>0. TypeOK
  BY Zenon DEF IndInv
<1>1. CASE acquire_wait(t) \/ acquire_take(t) \/ acquire_lock(t) \/ acquire_lock_return(t)
  <2>1. /\ UNCHANGED <<revoked, revoke_queue, c_revoked>> /\ msgs \subseteq msgs'
        /\ pc[t] # "flush"
    BY <1>1, Zenon DEF acquire_wait, acquire_take, acquire_lock, acquire_lock_return, serverVars
  <2>2. /\ \E s : pc' = [pc EXCEPT ![t] = s]
        /\ lid' = lid \/ lid' = [lid EXCEPT ![t] = FREE]
    BY <1>1, Zenon DEF acquire_wait, acquire_take, acquire_lock, acquire_lock_return, TakeOrWait
  <2>3. \A u \in Thread : pc[u] = "flush" => pc'[u] = "flush" /\ lid'[u] = lid[u]
    BY <1>0, <2>1, <2>2, ZenonT(30) DEF TypeOK
  <2> QED BY <1>0, <2>1, <2>3, AskCalm, Zenon
<1>2. CASE release_return(t) \/ \E k \in Lock : acquire(t, k)
  <2>1. /\ UNCHANGED <<revoked, revoke_queue, c_revoked, msgs>> /\ pc[t] # "flush"
        /\ \E s : pc' = [pc EXCEPT ![t] = s]
        /\ \E k : lid' = [lid EXCEPT ![t] = k]
    BY <1>2, Zenon DEF release_return, acquire, serverVars, infoVars
  <2>2. \A u \in Thread : pc[u] = "flush" => pc'[u] = "flush" /\ lid'[u] = lid[u]
    BY <1>0, <2>1, ZenonT(30) DEF TypeOK
  <2> QED BY <1>0, <2>1, <2>2, AskCalm, Zenon
<1>3. CASE release_call(t)
  <2>1. /\ UNCHANGED <<revoked, revoke_queue, c_revoked, lid>>
        /\ pc' = [pc EXCEPT ![t] = "release"]
        /\ msgs' = msgs \cup {ReleaseMsg(ClientOf[t], lid[t], t)}
    BY <1>3, Zenon DEF release_call, serverVars, infoVars
  <2>2. ASSUME NEW c \in Client, Returning(c, l) PROVE Returning(c, l)'
    <3>1. CASE ClientOf[t] = c /\ lid[t] = l
      <4>1. ReleaseMsg(c, l, t) \in msgs'
        BY <2>1, <3>1, Zenon
      <4>2. ReleaseMsg(c, l, t).type = "release" /\ ReleaseMsg(c, l, t).c = c
            /\ ReleaseMsg(c, l, t).lid = l
        BY Zenon DEF ReleaseMsg
      <4> QED BY <4>1, <4>2, Zenon DEF Returning
    <3>2. CASE ~ (ClientOf[t] = c /\ lid[t] = l)
      BY <1>0, <2>1, <2>2, <3>2, ZenonT(30) DEF Returning, TypeOK
    <3> QED BY <3>1, <3>2, Zenon
  <2>3. \A c \in Client : Asked(c, l) => Asked(c, l)'
    BY <2>1, Zenon DEF Asked
  <2> QED BY <1>0, <2>1, <2>2, <2>3, AskStays, Zenon DEF AskKept
<1>4. ASSUME NEW k \in Lock, release(t, k) PROVE AskInv(l)'
  <2>1. /\ UNCHANGED <<revoked, revoke_queue, msgs>> /\ pc[t] = "idle" /\ ClientOf[t] \in Client
        /\ \/ UNCHANGED <<c_revoked, pc, lid>>
           \/ /\ c_revoked' = [c_revoked EXCEPT ![ClientOf[t]][k] = FALSE]
              /\ pc' = [pc EXCEPT ![t] = "flush"] /\ lid' = [lid EXCEPT ![t] = k]
    BY <1>4, LockAssumption, Zenon DEF release, serverVars
  <2>2. \A c \in Client : Asked(c, l) => Asked(c, l)'
    BY <2>1, Zenon DEF Asked
  <2>3. \A u \in Thread : pc[u] = "flush" => pc'[u] = "flush" /\ lid'[u] = lid[u]
    BY <1>0, <2>1, ZenonT(30) DEF TypeOK
  <2>4. \A c \in Client : Returning(c, l) => Returning(c, l)'
    BY <2>1, <2>3, Zenon DEF Returning
  <2>5. ASSUME NEW c \in Client, c_revoked[c][l], ~ c_revoked'[c][l] PROVE Returning(c, l)'
    <3>1. /\ c_revoked' = [c_revoked EXCEPT ![ClientOf[t]][k] = FALSE]
          /\ pc'[t] = "flush" /\ lid'[t] = k
      BY <1>0, <2>1, <2>5, ZenonT(30) DEF TypeOK
    <3>2. c = ClientOf[t] /\ l = k
      BY <1>0, <2>1, <2>5, <3>1 DEF TypeOK
    <3> QED BY <3>1, <3>2, Zenon DEF Returning
  <2> QED BY <1>0, <2>1, <2>2, <2>4, <2>5, AskStays, Zenon DEF AskKept
<1> QED BY <1>1, <1>2, <1>3, <1>4, Zenon DEF ThreadStep

\* The handlers: the handler of a revoke keeps it in mind or returns the lock,
\* and the handler of the release clears the server's mark.
LEMMA AskHandler ==
  ASSUME IndInv, NEW l \in Lock, AskInv(l), [Next]_vars, NEW m \in msgs, Handler(m)
  PROVE  AskInv(l)'
<1>0. TypeOK /\ m \in Message /\ m.lid \in Lock
  BY MessageTypes, Zenon DEF IndInv, TypeOK
<1>1. CASE server_acquire(m) \/ retry_handler(m)
  <2>1. /\ UNCHANGED <<revoked, revoke_queue, c_revoked, pc, lid>> /\ msgs' = msgs \ {m}
        /\ m.type \notin {"release", "revoke"}
    BY <1>1, Zenon DEF server_acquire, retry_handler, serverVars, infoVars, threadVars
  <2> QED BY <1>0, <2>1, AskCalm, Zenon
<1>2. CASE server_release(m)
  <2>1. /\ UNCHANGED <<revoke_queue, c_revoked, pc, lid>> /\ m.type = "release"
        /\ revoked' = [revoked EXCEPT ![m.lid] = FALSE]
        /\ msgs \ {m} \subseteq msgs'
    BY <1>2, Zenon DEF server_release, infoVars, threadVars, Unrevoked
  <2>2. revoked'[m.lid] = FALSE /\ \A k \in Lock \ {m.lid} : revoked'[k] = revoked[k]
    BY <1>0, <2>1, Zenon DEF TypeOK
  <2>3. ASSUME NEW c \in Client PROVE Asked(c, l) => Asked(c, l)'
    <3>1. RevokeMsg(c, l).type = "revoke"
      BY Zenon DEF RevokeMsg
    <3> QED BY <2>1, <3>1, Zenon DEF Asked
  <2>4. l # m.lid => \A c \in Client : Returning(c, l) => Returning(c, l)'
    BY <2>1, Zenon DEF Returning
  <2> QED BY <1>0, <2>1, <2>2, <2>3, <2>4, AskStays, Zenon DEF AskKept
<1>3. CASE revoke_handler(m)
  <2> DEFINE idle == m.lid \in lock_list[m.c] /\ Idle(m.c, m.lid)
  <2>1. /\ UNCHANGED <<revoke_queue, revoked, pc, lid>> /\ m.type = "revoke"
        /\ msgs \ {m} \subseteq msgs'
        /\ m.c \in Client /\ m = RevokeMsg(m.c, m.lid)
        /\ idle => ReleaseMsg(m.c, m.lid, FREE) \in msgs'
        /\ c_revoked' = [c_revoked EXCEPT ![m.c][m.lid] = ~ idle]
    BY <1>0, <1>3, MessageTypes, Zenon DEF revoke_handler, serverVars, threadVars
  <2>2. /\ c_revoked'[m.c][m.lid] = ~ idle
        /\ \A d \in Client, k \in Lock :
             ~ (d = m.c /\ k = m.lid) => c_revoked'[d][k] = c_revoked[d][k]
    BY <1>0, <2>1, ZenonT(30) DEF TypeOK
  <2>3. c_revoked'[m.c][m.lid] \/ Returning(m.c, m.lid)'
    <3>1. /\ ReleaseMsg(m.c, m.lid, FREE).type = "release"
          /\ ReleaseMsg(m.c, m.lid, FREE).c = m.c /\ ReleaseMsg(m.c, m.lid, FREE).lid = m.lid
      BY Zenon DEF ReleaseMsg
    <3>2. ~ idle => Returning(m.c, m.lid)' \/ c_revoked'[m.c][m.lid]
      BY <2>2, Zenon
    <3>3. idle => Returning(m.c, m.lid)'
      BY <2>1, <3>1, Zenon DEF Returning
    <3> QED BY <3>2, <3>3, Zenon
  <2>4. \A c \in Client : Returning(c, l) => Returning(c, l)'
    BY <2>1, Zenon DEF Returning
  <2>5. ASSUME NEW c \in Client, ~ (c = m.c /\ l = m.lid) PROVE Asked(c, l) => Asked(c, l)'
    <3>1. RevokeMsg(c, l) # m
      <4>1. RevokeMsg(c, l).c = c /\ RevokeMsg(c, l).lid = l
        BY Zenon DEF RevokeMsg
      <4> QED BY <2>5, <4>1, Zenon
    <3> QED BY <2>1, <3>1, Zenon DEF Asked
  <2>6. AskKept(l)
    <3>1. ASSUME NEW c \in Client, c = m.c, l = m.lid
          PROVE  c_revoked'[c][l] \/ Returning(c, l)'
      BY <2>3, <3>1, Zenon
    <3>2. ASSUME NEW c \in Client, ~ (c = m.c /\ l = m.lid)
          PROVE  c_revoked'[c][l] = c_revoked[c][l]
      BY <2>2, <3>2, Zenon
    <3> QED BY <2>1, <2>4, <2>5, <3>1, <3>2, Zenon DEF AskKept
  <2> QED BY <1>0, <2>6, AskStays, Zenon
<1> QED BY <1>1, <1>2, <1>3, Zenon DEF Handler

\* The enforcer asks the holder of every lock it marks, and a request leaves
\* the revoker's queue as a call unless the call fails.
LEMMA AskRevoker ==
  ASSUME IndInv, NEW l \in Lock, AskInv(l), [Next]_vars,
         enforcer \/ revoker_return \/ \E r \in revoke_queue : revoker_call(r)
  PROVE  AskInv(l)'
<1>0. TypeOK /\ QueueInv(l)
  BY Zenon DEF IndInv, LockInv
<1>1. CASE enforcer
  <2>1. /\ UNCHANGED <<msgs, c_revoked, pc, lid>> /\ revoke_queue \subseteq revoke_queue'
        /\ revoked'[l] => revoked[l] \/ l \in Wanted
        /\ l \in Wanted => [holder |-> holder[l], lid |-> l] \in revoke_queue'
    BY <1>1, Zenon DEF enforcer, infoVars, threadVars
  <2>2. CASE l \in Wanted
    <3>1. holder[l] \in Client
      BY <1>0, <2>2, Zenon DEF QueueInv, Wanted, TypeOK
    <3> QED BY <2>1, <2>2, <3>1, Zenon DEF AskInv, Asked
  <2>3. CASE l \notin Wanted
    <3>1. \A c \in Client : /\ Asked(c, l) => Asked(c, l)'
                            /\ Returning(c, l) => Returning(c, l)'
      BY <2>1, Zenon DEF Asked, Returning
    <3> QED BY <1>0, <2>1, <2>3, <3>1, AskStays, Zenon DEF AskKept
  <2> QED BY <2>2, <2>3, Zenon
<1>2. CASE revoker_return
  <2>1. UNCHANGED <<revoked, revoke_queue, c_revoked, msgs, pc, lid>>
    BY <1>2, Zenon DEF revoker_return, infoVars, threadVars
  <2> QED BY <1>0, <2>1, AskCalm, Zenon
<1>3. ASSUME NEW r \in revoke_queue, revoker_call(r) PROVE AskInv(l)'
  <2>1. /\ UNCHANGED <<revoked, c_revoked, pc, lid>> /\ revoke_queue' = revoke_queue \ {r}
        /\ msgs \subseteq msgs'
        /\ RevokeMsg(r.holder, r.lid) \in msgs' \/ faults' = faults + 1
    BY <1>3, Zenon DEF revoker_call, infoVars, threadVars
  <2>2. \A c \in Client : Returning(c, l) => Returning(c, l)'
    BY <2>1, Zenon DEF Returning
  <2>3. faults' = faults + 1 => faults' # 0
    BY <1>0 DEF TypeOK
  <2>4. ASSUME NEW c \in Client, Asked(c, l) PROVE Asked(c, l)' \/ faults' # 0
    <3>1. r = [holder |-> c, lid |-> l] => r.holder = c /\ r.lid = l
      OBVIOUS
    <3> QED BY <2>1, <2>3, <2>4, <3>1, Zenon DEF Asked
  <2> QED BY <1>0, <2>1, <2>2, <2>4, AskStays, Zenon DEF AskKept
<1> QED BY <1>1, <1>2, <1>3, Zenon

\* A thread that waits goes on waiting.
LEMMA AwaitedStays ==
  ASSUME NEW c, NEW l, Awaited(c, l),
         \A t \in Thread : Waiting(t) => Waiting(t)' /\ lid'[t] = lid[t]
  PROVE  Awaited(c, l)'
BY Zenon DEF Awaited

\* The threads: one that takes the lock becomes its holder, and one that
\* releases it leaves the mark of a revoke only where another waits.
LEMMA WaitThread ==
  ASSUME IndInv, TypeOK', NEW c \in Client, NEW l \in Lock, WaitInv(c, l), NEW t \in Thread,
         \/ ThreadStep(t)
         \/ \E k \in Lock : acquire(t, k) \/ release(t, k)
  PROVE  WaitInv(c, l)'
<1>0. /\ TypeOK /\ ThreadInv(t) /\ RecordInv(c, l) /\ ClientOf[t] \in Client /\ t # FREE
      /\ \A k \in Lock : WorkInv(t, k)
  BY LockAssumption, Zenon DEF IndInv, LockInv
<1>1. CASE acquire_wait(t) \/ acquire_take(t)
  <2>1. /\ UNCHANGED <<acquiring, c_revoked>>
        /\ pc[t] \in {"start", "got", "wait_owned", "wait_holder"}
        /\ \/ /\ c_holder' = c_holder /\ lid' = lid
              /\ \E s \in {"get", "wait_owned", "wait_holder"} : pc' = [pc EXCEPT ![t] = s]
           \/ /\ owned[ClientOf[t]][lid[t]] \/ pc[t] = "wait_holder"
              /\ pc' = [pc EXCEPT ![t] = "idle"] /\ lid' = [lid EXCEPT ![t] = FREE]
              /\ c_holder' = [c_holder EXCEPT ![ClientOf[t]][lid[t]] = t]
    <3>1. CASE acquire_wait(t)
      BY <3>1, Zenon DEF acquire_wait, TakeOrWait
    <3>2. CASE acquire_take(t)
      BY <3>2, Zenon DEF acquire_take, TakeOrWait
    <3> QED BY <1>1, <3>1, <3>2, Zenon
  <2>2. lid[t] \in Lock
    <3>1. lid[t] # FREE /\ lid[t] \in Lock \cup {FREE}
      BY <1>0, <2>1, Zenon DEF ThreadInv, TypeOK
    <3> QED BY <3>1, Zenon
  <2>3. CASE lid' = lid
    <3>1. c_holder' = c_holder /\ \E s \in {"get", "wait_owned", "wait_holder"} : pc' = [pc EXCEPT ![t] = s]
      <4>1. lid'[t] # FREE
        BY <2>2, <2>3, LockAssumption, Zenon
      <4>2. lid' # [lid EXCEPT ![t] = FREE]
        BY <1>0, <4>1, Zenon DEF TypeOK
      <4> QED BY <2>1, <4>2, Zenon
    <3>2. \A u \in Thread : Waiting(u) => Waiting(u)' /\ lid'[u] = lid[u]
      BY <1>0, <2>3, <3>1, ZenonT(30) DEF Waiting, TypeOK
    <3> QED BY <2>1, <3>1, <3>2, AwaitedStays, Zenon DEF WaitInv
  <2>4. CASE lid' # lid
    <3>1. /\ owned[ClientOf[t]][lid[t]]
          /\ pc' = [pc EXCEPT ![t] = "idle"] /\ lid' = [lid EXCEPT ![t] = FREE]
          /\ c_holder' = [c_holder EXCEPT ![ClientOf[t]][lid[t]] = t]
      BY <1>0, <2>1, <2>2, <2>4, Zenon DEF WorkInv
    <3>2. CASE c = ClientOf[t] /\ l = lid[t]
      <4>1. ~ acquiring[c][l]
        BY <1>0, <3>1, <3>2, Zenon DEF RecordInv
      <4>2. c_holder'[c][l] = t
        BY <1>0, <3>1, <3>2, ZenonT(30) DEF TypeOK
      <4> QED BY <1>0, <2>1, <4>1, <4>2, Zenon DEF WaitInv
    <3>3. CASE ~ (c = ClientOf[t] /\ l = lid[t])
      <4>1. c_holder'[c][l] = c_holder[c][l]
        BY <1>0, <2>2, <3>1, <3>3, ZenonT(30) DEF TypeOK
      <4>2. \A u \in Thread \ {t} : pc'[u] = pc[u] /\ lid'[u] = lid[u]
        BY <1>0, <3>1, ZenonT(30) DEF TypeOK
      <4>3. Awaited(c, l) => Awaited(c, l)'
        BY <3>3, <4>2, ZenonT(30) DEF Awaited, Waiting
      <4> QED BY <2>1, <4>1, <4>3, Zenon DEF WaitInv
    <3> QED BY <3>2, <3>3, Zenon
  <2> QED BY <2>3, <2>4, Zenon
<1>2. CASE release_call(t) \/ release_return(t) \/ \E k \in Lock : acquire(t, k)
  <2>1. /\ UNCHANGED <<acquiring, c_revoked, c_holder>> /\ ~ Waiting(t)
        /\ \E s : pc' = [pc EXCEPT ![t] = s]
        /\ lid' = lid \/ \E k : lid' = [lid EXCEPT ![t] = k]
    BY <1>2, Zenon DEF release_call, release_return, acquire, infoVars, Waiting
  <2>2. \A u \in Thread \ {t} : pc'[u] = pc[u] /\ lid'[u] = lid[u]
    BY <1>0, <2>1, ZenonT(30) DEF TypeOK
  <2>3. \A u \in Thread : Waiting(u) => Waiting(u)' /\ lid'[u] = lid[u]
    BY <2>1, <2>2, Zenon DEF Waiting
  <2> QED BY <2>1, <2>3, AwaitedStays, Zenon DEF WaitInv
<1>3. CASE acquire_lock(t) \/ acquire_lock_return(t)
  <2>1. /\ UNCHANGED <<c_revoked, c_holder, lid>> /\ Waiting(t)
        /\ SetFlag(acquiring, acquiring', ClientOf[t], lid[t])
        /\ pc' = [pc EXCEPT ![t] = "acquire"] \/ pc' = [pc EXCEPT ![t] = "got"]
    BY <1>3, Zenon DEF acquire_lock, acquire_lock_return, Waiting, SetFlag
  <2>2. \A u \in Thread : Waiting(u) => Waiting(u)' /\ lid'[u] = lid[u]
    BY <1>0, <2>1, ZenonT(30) DEF Waiting, TypeOK
  <2>3. lid[t] \in Lock
    BY <1>0, <2>1, Zenon DEF ThreadInv, TypeOK, Waiting
  <2>4. CASE c = ClientOf[t] /\ l = lid[t]
    BY <2>1, <2>2, <2>4, Zenon DEF WaitInv, Awaited
  <2>5. CASE ~ (c = ClientOf[t] /\ l = lid[t])
    <3>1. acquiring'[c][l] = acquiring[c][l]
      <4>1. acquiring \in [Client -> [Lock -> BOOLEAN]]
        BY <1>0, Zenon DEF TypeOK
      <4>2. CASE acquiring' = acquiring
        BY <4>2, Zenon
      <4>3. ASSUME NEW e, acquiring' = [acquiring EXCEPT ![ClientOf[t]][lid[t]] = e]
            PROVE  acquiring'[c][l] = acquiring[c][l]
        <5>1. SameElsewhere(acquiring, acquiring', ClientOf[t], lid[t])
          BY <1>0, <2>3, <4>1, <4>3, RecordValue, Zenon
        <5> QED BY <2>5, <5>1, Zenon DEF SameElsewhere
      <4> QED BY <2>1, <4>2, <4>3, Zenon DEF SetFlag
    <3> QED BY <2>1, <2>2, <3>1, AwaitedStays, Zenon DEF WaitInv
  <2> QED BY <2>4, <2>5, Zenon
<1>4. ASSUME NEW k \in Lock, release(t, k) PROVE WaitInv(c, l)'
  <2>1. /\ pc[t] = "idle"
        /\ c_holder' = [c_holder EXCEPT ![ClientOf[t]][k] = FREE]
        /\ \/ /\ lid' = [lid EXCEPT ![t] = k] /\ pc' = [pc EXCEPT ![t] = "flush"]
              /\ c_revoked' = [c_revoked EXCEPT ![ClientOf[t]][k] = FALSE]
              /\ acquiring' = [acquiring EXCEPT ![ClientOf[t]][k] = FALSE]
           \/ /\ UNCHANGED <<acquiring, c_revoked, pc, lid>>
              /\ c_revoked[ClientOf[t]][k] => awaiting_lock[ClientOf[t]][k] # 0
    BY <1>4, Zenon DEF release, GiveBack
  <2>2. \A u \in Thread \ {t} : pc'[u] = pc[u] /\ lid'[u] = lid[u]
    BY <1>0, <2>1, ZenonT(30) DEF TypeOK
  <2>3. \A u \in Thread : Waiting(u) => Waiting(u)' /\ lid'[u] = lid[u]
    BY <2>1, <2>2, Zenon DEF Waiting
  <2>4. CASE c = ClientOf[t] /\ l = k
    <3>1. CASE UNCHANGED <<acquiring, c_revoked>> /\ (c_revoked[c][l] => awaiting_lock[c][l] # 0)
      <4>1. awaiting_lock[c][l] # 0 => Awaited(c, l)
        <5>1. awaiting_lock[c][l] # 0 => Waiters(c, l) # {}
          BY <1>0, FS_EmptySet, Zenon DEF RecordInv
        <5> QED BY <5>1, Zenon DEF Waiters, Awaited
      <4> QED BY <2>3, <3>1, <4>1, AwaitedStays, Zenon DEF WaitInv
    <3>2. CASE /\ c_revoked' = [c_revoked EXCEPT ![c][l] = FALSE]
               /\ acquiring' = [acquiring EXCEPT ![c][l] = FALSE]
      <4>1. ~ c_revoked'[c][l] /\ ~ acquiring'[c][l]
        BY <1>0, <3>2, ZenonT(30) DEF TypeOK
      <4> QED BY <4>1, Zenon DEF WaitInv
    <3> QED BY <2>1, <2>4, <3>1, <3>2, Zenon
  <2>5. CASE ~ (c = ClientOf[t] /\ l = k)
    <3>1. /\ c_holder'[c][l] = c_holder[c][l] /\ c_revoked'[c][l] = c_revoked[c][l]
          /\ acquiring'[c][l] = acquiring[c][l]
      <4>1. /\ c_holder \in [Client -> [Lock -> Thread \cup {FREE}]]
            /\ c_revoked \in [Client -> [Lock -> BOOLEAN]]
            /\ acquiring \in [Client -> [Lock -> BOOLEAN]]
        BY <1>0, Zenon DEF TypeOK
      <4>2. c_holder'[c][l] = c_holder[c][l]
        BY <1>0, <2>1, <2>5, <4>1, ZenonT(30)
      <4>3. c_revoked'[c][l] = c_revoked[c][l]
        <5>1. c_revoked' = c_revoked \/ SameElsewhere(c_revoked, c_revoked', ClientOf[t], k)
          BY <1>0, <2>1, <4>1, RecordValue, Zenon
        <5> QED BY <2>5, <5>1, Zenon DEF SameElsewhere
      <4>4. acquiring'[c][l] = acquiring[c][l]
        <5>1. acquiring' = acquiring \/ SameElsewhere(acquiring, acquiring', ClientOf[t], k)
          BY <1>0, <2>1, <4>1, RecordValue, Zenon
        <5> QED BY <2>5, <5>1, Zenon DEF SameElsewhere
      <4> QED BY <4>2, <4>3, <4>4, Zenon
    <3> QED BY <2>3, <3>1, AwaitedStays, Zenon DEF WaitInv
  <2> QED BY <2>4, <2>5, Zenon
<1> QED BY <1>1, <1>2, <1>3, <1>4, Zenon DEF ThreadStep

\* The handlers: revoke_handler keeps a revoke in mind only while the lock is
\* in use.
LEMMA WaitHandler ==
  ASSUME IndInv, NEW c \in Client, NEW l \in Lock, WaitInv(c, l), NEW m \in msgs, Handler(m)
  PROVE  WaitInv(c, l)'
<1>0. TypeOK /\ RecordInv(c, l) /\ RevokeInv(c, l) /\ m \in Message /\ m.lid \in Lock
  BY MessageTypes, Zenon DEF IndInv, LockInv, TypeOK
<1>1. pc' = pc /\ lid' = lid /\ c_holder' = c_holder
  BY Zenon DEF Handler, server_acquire, server_release, revoke_handler, retry_handler, infoVars,
               threadVars
<1>2. Awaited(c, l)' <=> Awaited(c, l)
  BY <1>1, Zenon DEF Awaited, Waiting
<1>3. CASE server_acquire(m) \/ server_release(m)
  <2>1. UNCHANGED <<acquiring, c_revoked>>
    BY <1>3, Zenon DEF server_acquire, server_release, infoVars
  <2> QED BY <1>1, <1>2, <2>1, Zenon DEF WaitInv
<1>4. CASE retry_handler(m)
  <2>1. /\ UNCHANGED c_revoked /\ m.c \in Client
        /\ acquiring' = [acquiring EXCEPT ![m.c][m.lid] = FALSE]
    BY <1>0, <1>4, MessageTypes, Zenon DEF retry_handler
  <2>2. acquiring'[c][l] => acquiring[c][l]
    BY <1>0, <2>1, ZenonT(30) DEF TypeOK
  <2> QED BY <1>1, <1>2, <2>1, <2>2, Zenon DEF WaitInv
<1>5. CASE revoke_handler(m)
  <2> DEFINE idle == m.lid \in lock_list[m.c] /\ Idle(m.c, m.lid)
  <2>1. /\ UNCHANGED acquiring /\ m.c \in Client /\ m = RevokeMsg(m.c, m.lid)
        /\ c_revoked' = [c_revoked EXCEPT ![m.c][m.lid] = ~ idle]
    BY <1>0, <1>5, MessageTypes, Zenon DEF revoke_handler
  <2>2. CASE c = m.c /\ l = m.lid
    <3>1. c_revoked'[c][l] = ~ idle
      BY <1>0, <2>1, <2>2, ZenonT(30) DEF TypeOK
    <3>2. l \in lock_list[c]
      BY <1>0, <2>1, <2>2, Zenon DEF Asked, RevokeInv, RecordInv
    <3>3. awaiting_lock[c][l] # 0 => Awaited(c, l)
      <4>1. awaiting_lock[c][l] # 0 => Waiters(c, l) # {}
        BY <1>0, FS_EmptySet, Zenon DEF RecordInv
      <4> QED BY <4>1, Zenon DEF Waiters, Awaited
    <3> QED BY <1>1, <1>2, <2>1, <2>2, <3>1, <3>2, <3>3, Zenon DEF WaitInv, Idle
  <2>3. CASE ~ (c = m.c /\ l = m.lid)
    <3>1. c_revoked'[c][l] = c_revoked[c][l]
      BY <1>0, <2>1, <2>3, ZenonT(30) DEF TypeOK
    <3> QED BY <1>1, <1>2, <2>1, <3>1, Zenon DEF WaitInv
  <2> QED BY <2>2, <2>3, Zenon
<1> QED BY <1>3, <1>4, <1>5, Zenon DEF Handler

\* Every step keeps the locks that others queue for on their way back.
LEMMA ServeNext == IndInv /\ IndInv' /\ ServeInv /\ [Next]_vars => ServeInv'
<1> SUFFICES ASSUME IndInv, TypeOK', [Next]_vars, NEW l \in Lock, AskInv(l),
                    \A c \in Client : WaitInv(c, l)
             PROVE  AskInv(l)' /\ \A c \in Client : WaitInv(c, l)'
  BY Zenon DEF ServeInv, IndInv
<1>1. CASE UNCHANGED vars
  <2>1. UNCHANGED <<revoked, faults, revoke_queue, msgs, c_revoked, acquiring, c_holder, pc, lid>>
    BY <1>1, Zenon DEF vars, serverVars, infoVars, threadVars
  <2> QED BY <2>1, Zenon DEF AskInv, WaitInv, Asked, Returning, Awaited, Waiting
<1>2. CASE enforcer \/ revoker_return \/ \E r \in revoke_queue : revoker_call(r)
  <2>1. UNCHANGED <<c_revoked, acquiring, c_holder, pc, lid>>
    BY <1>2, Zenon DEF enforcer, revoker_return, revoker_call, infoVars, threadVars
  <2>2. \A c \in Client : WaitInv(c, l)'
    BY <2>1, Zenon DEF WaitInv, Awaited, Waiting
  <2> QED BY <1>2, <2>2, AskRevoker, Zenon
<1>3. ASSUME NEW m \in msgs, Handler(m)
      PROVE  AskInv(l)' /\ \A c \in Client : WaitInv(c, l)'
  BY <1>3, AskHandler, WaitHandler, Zenon
<1>4. ASSUME NEW t \in Thread, ThreadStep(t) \/ \E k \in Lock : acquire(t, k) \/ release(t, k)
      PROVE  AskInv(l)' /\ \A c \in Client : WaitInv(c, l)'
  BY <1>4, AskThread, WaitThread, Zenon
<1> QED BY <1>1, <1>2, <1>3, <1>4, Zenon DEF Next

\* What is asked for is asked of the holder.
LEMMA ServeServes == IndInv /\ ServeInv => QueueIsServed
<1> SUFFICES ASSUME IndInv, ServeInv PROVE QueueIsServed
  OBVIOUS
<1>1. ASSUME NEW c \in Client, NEW l \in Lock, Asked(c, l) \/ c_revoked[c][l] \/ Returning(c, l)
      PROVE  holder[l] = c
  <2>1. RecordInv(c, l) /\ ReturnInv(c, l) /\ RevokeInv(c, l)
    BY Zenon DEF IndInv, LockInv
  <2>2. Returning(c, l) => Released(c, l) \/ Flushing(c, l)
    BY Zenon DEF Returning, Released, Flushing
  <2> QED BY <1>1, <2>1, <2>2, Zenon DEF RecordInv, ReturnInv, RevokeInv
<1>2. ASSUME NEW l \in Lock, queue[l] # <<>>
      PROVE  /\ holder[l] # FREE
             /\ revoked[l] /\ faults = 0 =>
                  Asked(holder[l], l) \/ c_revoked[holder[l]][l] \/ Returning(holder[l], l)
  <2>1. holder[l] # FREE
    BY <1>2, Zenon DEF IndInv, LockInv, QueueInv
  <2>2. SUFFICES ASSUME revoked[l], faults = 0
                 PROVE  Asked(holder[l], l) \/ c_revoked[holder[l]][l] \/ Returning(holder[l], l)
    BY <2>1, Zenon
  <2>3. PICK c \in Client : Asked(c, l) \/ c_revoked[c][l] \/ Returning(c, l)
    BY <2>2, Zenon DEF ServeInv, AskInv
  <2>4. holder[l] = c
    BY <1>1, <2>3, Zenon
  <2> QED BY <2>3, <2>4, Zenon
<1>3. ASSUME NEW c \in Client, NEW l \in Lock, c_revoked[c][l]
      PROVE  c_holder[c][l] # FREE \/ Awaited(c, l)
  BY <1>3, Zenon DEF ServeInv, WaitInv
<1> QED BY <1>2, <1>3, Zenon DEF QueueIsServed, Awaited
=============================================================================
