-------------------------- MODULE LockCacheProofs --------------------------
(***************************************************************************)
(* The steps of the server and of the handlers keep the invariant of       *)
(* LockCacheInv, and the theorems that follow.                             *)
(***************************************************************************)
EXTENDS LockCacheClientProofs

\* The server grants the lock with the answer, or queues the client.
LEMMA KeepServerAcquire ==
  ASSUME IndInv, TypeOK', NEW m \in msgs, NEW t \in Thread, NEW c \in Client, NEW l \in Lock,
         server_acquire(m), t = m.t, c = ClientOf[t], l = m.lid
  PROVE  Kept(l)
<1>1. /\ TypeOK /\ LockInv(l) /\ \A u \in Thread : ThreadInv(u)
      /\ UNCHANGED <<revoked, revoke_queue, lock_list, owned, acquiring, c_revoked,
                     awaiting_lock, c_holder, pc, lid, held>>
      /\ m.type = "acquire" /\ msgs' = msgs \ {m}
  BY Zenon DEF IndInv, server_acquire, infoVars
<1>2. m = AcquireMsg(t, l)
  BY <1>1, MessageTypes, Zenon DEF TypeOK
<1>3. /\ lid[t] = l /\ ret[t] = "none" /\ acquiring[c][l] /\ ~ owned[c][l]
      /\ ~ Queued(c, l) /\ ~ Retried(c, l) /\ ~ Answered(c, l)
      /\ \A u \in Thread : AcquireMsg(u, l) \in msgs /\ ClientOf[u] = c => u = t
  BY <1>1, <1>2 DEF LockInv, RequestInv, RecordInv
<1>4. l \in lock_list[c] /\ (holder[l] = FREE => queue[l] = <<>>)
  BY <1>1, <1>3, Zenon DEF LockInv, WorkInv, QueueInv
<1>5. /\ \A k \in Lock \ {l} : holder'[k] = holder[k] /\ queue'[k] = queue[k]
      /\ \A u \in Thread \ {t} : ret'[u] = ret[u]
      /\ ret'[t] # "none" => pc[t] = "acquire"
      /\ \/ holder[l] = FREE /\ holder'[l] = c /\ queue'[l] = queue[l]
         \/ /\ holder[l] # FREE /\ holder'[l] = holder[l] /\ queue'[l] = Append(queue[l], c)
            /\ ret'[t] # "OK"
  BY <1>1, <1>3 DEF server_acquire, TypeOK, Enqueued
<1>6. ASSUME NEW u \in Thread PROVE ThreadInv(u)'
  BY <1>1, <1>5, ZenonT(30) DEF ThreadInv
<1>7. ASSUME NEW k \in Lock \ {l} PROVE SameLock(k)
  BY <1>1, <1>3, <1>5, <1>7, Zenon DEF SameLock
<1>8. \A d \in Client : /\ Retried(d, l)' <=> Retried(d, l)
                        /\ Released(d, l)' <=> Released(d, l)
                        /\ RevokeMsg(d, l) \in msgs' <=> RevokeMsg(d, l) \in msgs
  BY <1>1, MessageFields DEF Retried, Released
<1>9. \A d \in Client : /\ Flushing(d, l)' <=> Flushing(d, l)
                        /\ Waiters(d, l)' = Waiters(d, l)
                        /\ Asked(d, l)' <=> Asked(d, l)
  BY <1>1, <1>8, Zenon DEF Flushing, Waiters, Waiting, Asked
<1>10. \A d \in Client : /\ d # c => (Answered(d, l)' <=> Answered(d, l))
                         /\ holder[l] # FREE => (Answered(d, l)' <=> Answered(d, l))
  <2>1. \A d \in Client, u \in Thread : d # c \/ holder[l] # FREE =>
          (ret'[u] = "OK" /\ ClientOf[u] = d <=> ret[u] = "OK" /\ ClientOf[u] = d)
    BY <1>3, <1>5, Zenon
  <2> QED BY <1>1, <2>1 DEF Answered
<1>11. \A d \in Client : d # c => (Queued(d, l)' <=> Queued(d, l))
  <2>1. CASE queue'[l] = queue[l]
    BY <2>1, Zenon DEF Queued
  <2>2. CASE queue'[l] = Append(queue[l], c)
    <3>1. queue[l] \in Seq(Client)
      BY <1>1, Zenon DEF TypeOK
    <3>2. /\ Len(queue'[l]) = Len(queue[l]) + 1 /\ queue'[l][Len(queue[l]) + 1] = c
          /\ \A i \in 1 .. Len(queue[l]) : queue'[l][i] = queue[l][i]
      BY <2>2, <3>1
    <3>3. Len(queue[l]) \in Nat
      BY <3>1
    <3>4. \A i \in 1 .. Len(queue'[l]) : i = Len(queue[l]) + 1 \/ i \in 1 .. Len(queue[l])
      BY <3>2, <3>3
    <3>5. \A i \in 1 .. Len(queue[l]) : i \in 1 .. Len(queue'[l])
      BY <3>2, <3>3
    <3> QED BY <3>2, <3>4, <3>5, Zenon DEF Queued
  <2> QED BY <1>5, <2>1, <2>2, Zenon
<1>12. \A u \in Thread : AcquireMsg(u, l) \in msgs' => AcquireMsg(u, l) \in msgs /\ ClientOf[u] # c
  BY <1>1, <1>2, <1>3, Zenon
<1>13. ASSUME NEW u \in Thread PROVE WorkInv(u, l)' /\ RequestInv(u, l)'
  <2>1. WorkInv(u, l)'
    BY <1>1, Zenon DEF LockInv, WorkInv
  <2>2. ClientOf[u] \in Client /\ (Waiting(u)' <=> Waiting(u)) /\ RequestInv(u, l)
    BY <1>1, LockAssumption, Zenon DEF Waiting, LockInv
  <2>3. RequestInv(u, l)'
    BY <1>1, <1>5, <1>8, <1>10, <1>11, <1>12, <2>2, Zenon DEF RequestInv
  <2> QED BY <2>1, <2>3, Zenon
<1>14. ASSUME NEW u \in Thread, NEW w \in Thread PROVE AnswerInv(u, w, l)'
  BY <1>1, Zenon DEF LockInv, AnswerInv
<1>15. QueueInv(l)'
  <2>1. CASE holder[l] = FREE
    BY <1>4, <1>5, <2>1 DEF QueueInv
  <2>2. CASE holder[l] # FREE
    <3>1. queue[l] \in Seq(Client) /\ QueueInv(l) /\ Len(queue[l]) \in Nat
      BY <1>1 DEF TypeOK, LockInv
    <3>2. /\ Len(queue'[l]) = Len(queue[l]) + 1 /\ queue'[l][Len(queue[l]) + 1] = c
          /\ \A i \in 1 .. Len(queue[l]) : queue'[l][i] = queue[l][i] /\ queue[l][i] \in Client
      BY <1>5, <2>2, <3>1
    <3>3. \A i \in 1 .. Len(queue[l]) : queue[l][i] # c
      BY <1>3, Zenon DEF Queued
    <3>4. \A d \in Client : (Retried(d, l)' <=> Retried(d, l)) /\ (Answered(d, l)' <=> Answered(d, l))
      BY <1>8, <1>10, <2>2, Zenon
    <3>5. ASSUME NEW i \in 1 .. Len(queue'[l])
          PROVE  /\ acquiring[queue'[l][i]][l] /\ l \in lock_list[queue'[l][i]]
                 /\ ~ Retried(queue[l][i], l)' /\ ~ Answered(queue[l][i], l)'
      <4>1. CASE i = Len(queue[l]) + 1
        BY <1>3, <1>4, <3>2, <3>4, <4>1, Zenon
      <4>2. CASE i \in 1 .. Len(queue[l])
        BY <3>1, <3>2, <3>4, <4>2, Zenon DEF QueueInv
      <4> QED BY <3>1, <3>2, <4>1, <4>2
    <3>6. \A i, j \in 1 .. Len(queue'[l]) : queue'[l][i] = queue'[l][j] => i = j
      <4>1. \A i \in 1 .. Len(queue'[l]) : i = Len(queue[l]) + 1 \/ i \in 1 .. Len(queue[l])
        BY <3>1, <3>2
      <4>2. \A i, j \in 1 .. Len(queue[l]) : queue[l][i] = queue[l][j] => i = j
        BY <3>1, Zenon DEF QueueInv
      <4> TAKE i, j \in 1 .. Len(queue'[l])
      <4>3. CASE i \in 1 .. Len(queue[l]) /\ j \in 1 .. Len(queue[l])
        BY <3>2, <4>2, <4>3, Zenon
      <4>4. CASE i = Len(queue[l]) + 1 /\ j \in 1 .. Len(queue[l])
        BY <3>2, <3>3, <4>4, Zenon
      <4>5. CASE i \in 1 .. Len(queue[l]) /\ j = Len(queue[l]) + 1
        BY <3>2, <3>3, <4>5, Zenon
      <4> QED BY <4>1, <4>3, <4>4, <4>5, Zenon
    <3> QED BY <1>1, <1>5, <2>2, <3>5, <3>6, Zenon DEF QueueInv
  <2> QED BY <2>1, <2>2, Zenon
<1>16. ASSUME NEW d \in Client
       PROVE  RecordInv(d, l)' /\ GrantInv(d, l)' /\ ReturnInv(d, l)' /\ RevokeInv(d, l)'
  <2>1. RecordInv(d, l) /\ GrantInv(d, l) /\ ReturnInv(d, l) /\ RevokeInv(d, l) /\ d # FREE
    BY <1>1, LockAssumption, Zenon DEF LockInv
  <2>2. \A x \in msgs' : x \in msgs
    BY <1>1, Zenon
  <2>3. CASE holder[l] # FREE
    <3>1. Answered(d, l)' <=> Answered(d, l)
      BY <1>10, <2>3, Zenon
    <3>2. RecordInv(d, l)'
      BY <1>1, <1>5, <1>8, <1>9, <2>1, <2>3, Zenon DEF RecordInv
    <3>3. GrantInv(d, l)'
      BY <1>1, <1>5, <1>8, <1>9, <2>1, <2>2, <2>3, <3>1, Zenon DEF GrantInv
    <3>4. ReturnInv(d, l)'
      BY <1>1, <1>5, <1>8, <1>9, <2>1, <2>2, <2>3, ZenonT(30) DEF ReturnInv
    <3>5. RevokeInv(d, l)'
      BY <1>1, <1>5, <1>8, <1>9, <2>1, <2>3, Zenon DEF RevokeInv
    <3> QED BY <3>2, <3>3, <3>4, <3>5, Zenon
  <2>4. CASE holder[l] = FREE
    <3>1. /\ ~ Retried(d, l) /\ ~ Answered(d, l) /\ ~ Released(d, l) /\ ~ Flushing(d, l)
          /\ ~ Asked(d, l) /\ ~ owned[d][l] /\ ~ c_revoked[d][l] /\ c_holder[d][l] = FREE
      BY <2>1, <2>4, ZenonT(30) DEF RecordInv, GrantInv, ReturnInv, RevokeInv
    <3>2. RecordInv(d, l)'
      BY <1>1, <1>3, <1>4, <1>5, <1>9, <2>1, <2>4, <3>1, ZenonT(30) DEF RecordInv
    <3>3. GrantInv(d, l)'
      <4>1. \A x \in msgs : x.type = "retry" => x.lid # l
        BY <1>1, <2>4, RetryToHolder, LockAssumption, Zenon
      <4> QED BY <1>1, <1>3, <1>5, <1>8, <1>9, <1>10, <2>2, <2>4, <3>1, <4>1, ZenonT(30) DEF GrantInv
    <3> QED BY <1>8, <1>9, <3>1, <3>2, <3>3, Zenon DEF ReturnInv, RevokeInv
  <2> QED BY <2>3, <2>4, Zenon
<1> QED BY <1>6, <1>7, <1>13, <1>14, <1>15, <1>16, Zenon DEF Kept, LockInv

\* The lock is free again, or goes to the first client in the queue.
LEMMA KeepServerRelease ==
  ASSUME IndInv, TypeOK', NEW m \in msgs, NEW c \in Client, NEW l \in Lock,
         server_release(m), c = m.c, l = m.lid
  PROVE  Kept(l)
<1> DEFINE first == Head(queue[l])
           r == RetryMsg(first, l, m.by)
<1>1. /\ TypeOK /\ LockInv(l) /\ \A u \in Thread : ThreadInv(u)
      /\ UNCHANGED <<revoke_queue, lock_list, owned, acquiring, c_revoked,
                     awaiting_lock, c_holder, pc, lid, ret, held>>
      /\ m.type = "release" /\ m \in Message
  BY ZenonT(30) DEF IndInv, server_release, infoVars, threadVars, TypeOK
<1>2. queue[l] \in Seq(Client) /\ Len(queue[l]) \in Nat
  BY <1>1 DEF TypeOK
<1>3. /\ holder[l] = c /\ ~ owned[c][l] /\ ~ c_revoked[c][l] /\ ~ Flushing(c, l)
      /\ \A x \in msgs : x.type = "release" /\ x.lid = l => x = m
      /\ ~ Retried(c, l) /\ ~ Answered(c, l) /\ ~ Asked(c, l)
  <2>1. Released(c, l)
    BY <1>1, Zenon DEF Released
  <2> QED BY <1>1, <2>1, ZenonT(30) DEF LockInv, ReturnInv, GrantInv, RevokeInv
<1>4. /\ \A k \in Lock \ {l} : /\ holder'[k] = holder[k] /\ queue'[k] = queue[k]
                               /\ revoked'[k] = revoked[k]
      /\ revoked'[l] = FALSE
  BY <1>1, ZenonT(30) DEF server_release, Unrevoked, TypeOK
<1>5. /\ \/ /\ queue[l] = <<>> /\ queue'[l] = queue[l] /\ holder'[l] = FREE
            /\ msgs' = msgs \ {m}
         \/ /\ queue[l] # <<>> /\ queue'[l] = Tail(queue[l]) /\ holder'[l] = first
            /\ msgs' = msgs \ {m} \/ msgs' = (msgs \ {m}) \cup {r}
  BY <1>1, Zenon DEF server_release, TypeOK
<1>6. /\ r.type = "retry" /\ r.lid = l /\ r.c = first
      /\ queue[l] # <<>> => first \in Client /\ first = queue[l][1]
  BY <1>2, MessageFields
<1> HIDE DEF r, first
<1>7. /\ \A x \in msgs' : (x \in msgs /\ x # m) \/ (x = r /\ queue[l] # <<>>)
      /\ \A x \in msgs : x # m => x \in msgs'
  BY <1>5, Zenon
<1>8. \A d \in Client : ~ owned[d][l] /\ c_holder[d][l] = FREE /\ ~ c_revoked[d][l]
                        /\ ~ Flushing(d, l) /\ ~ Retried(d, l) /\ ~ Answered(d, l) /\ ~ Asked(d, l)
  <2> TAKE d \in Client
  <2>1. RecordInv(d, l) /\ ReturnInv(d, l) /\ GrantInv(d, l) /\ RevokeInv(d, l)
    BY <1>1, Zenon DEF LockInv
  <2>2. CASE d = c
    BY <1>3, <2>1, <2>2, Zenon DEF RecordInv
  <2>3. CASE d # c
    BY <1>3, <2>1, <2>3, Zenon DEF RecordInv, ReturnInv, GrantInv, RevokeInv
  <2> QED BY <2>2, <2>3, Zenon
<1>9. ASSUME NEW u \in Thread PROVE ThreadInv(u)'
  BY <1>1, Zenon DEF ThreadInv
<1>10. ASSUME NEW k \in Lock \ {l} PROVE SameLock(k)
  BY <1>1, <1>4, <1>6, <1>7, <1>10, ZenonT(30) DEF SameLock
<1>11. \A d \in Client : ~ Released(d, l)'
  BY <1>3, <1>6, <1>7, Zenon DEF Released
<1>12. \A d \in Client : Retried(d, l)' => queue[l] # <<>> /\ d = first
  BY <1>6, <1>7, <1>8, Zenon DEF Retried
<1>13. \A d \in Client : /\ ~ Flushing(d, l)' /\ ~ Answered(d, l)'
                         /\ Waiters(d, l)' = Waiters(d, l)
  BY <1>1, <1>8, Zenon DEF Flushing, Answered, Waiters, Waiting
<1>14. \A d \in Client : ~ Asked(d, l)'
  <2>1. \A d \in Client : RevokeMsg(d, l).type = "revoke"
    BY MessageFields
  <2> QED BY <1>1, <1>6, <1>7, <1>8, <2>1, Zenon DEF Asked
<1>15. \A u \in Thread : AcquireMsg(u, l) \in msgs' <=> AcquireMsg(u, l) \in msgs
  <2>1. \A u \in Thread : AcquireMsg(u, l).type = "acquire"
    BY MessageFields
  <2> QED BY <1>1, <1>6, <1>7, <2>1, Zenon
<1>16. /\ \A i \in 1 .. Len(queue'[l]) : /\ i + 1 \in 1 .. Len(queue[l])
                                         /\ queue'[l][i] = queue[l][i + 1]
                                         /\ queue'[l][i] \in Client
       /\ queue'[l] # <<>> => queue[l] # <<>>
  <2>1. CASE queue[l] = <<>>
    BY <1>5, <2>1
  <2>2. CASE queue[l] # <<>>
    <3>1. queue'[l] = Tail(queue[l])
      BY <1>5, <2>2, Zenon
    <3>2. Len(queue'[l]) = Len(queue[l]) - 1 /\ Len(queue[l]) > 0
      BY <1>2, <2>2, <3>1
    <3>3. \A i \in 1 .. Len(queue'[l]) : i + 1 \in 1 .. Len(queue[l])
      BY <1>2, <3>2
    <3>4. \A i \in 1 .. Len(queue'[l]) : queue'[l][i] = queue[l][i + 1]
      BY <1>2, <2>2, <3>1, <3>2
    <3> QED BY <1>2, <2>2, <3>3, <3>4
  <2> QED BY <2>1, <2>2, Zenon
<1>17. \A d \in Client : Queued(d, l)' => Queued(d, l) /\ d # first
  <2>1. \A i, j \in 1 .. Len(queue[l]) : queue[l][i] = queue[l][j] => i = j
    BY <1>1, Zenon DEF LockInv, QueueInv
  <2>2. \A i \in 1 .. Len(queue[l]) : 1 \in 1 .. Len(queue[l]) /\ queue[l] # <<>>
    BY <1>2
  <2>3. \A i \in 1 .. Len(queue'[l]) : i + 1 # 1
    OBVIOUS
  <2>4. ASSUME NEW i \in 1 .. Len(queue'[l]) PROVE queue'[l][i] # first
    BY <1>6, <1>16, <2>1, <2>2, <2>3, Zenon
  <2> QED BY <1>16, <2>4, Zenon DEF Queued
<1>18. queue[l] # <<>> => /\ Queued(first, l) /\ acquiring[first][l] /\ l \in lock_list[first]
                          /\ first # FREE
  <2>1. queue[l] # <<>> => 1 \in 1 .. Len(queue[l])
    BY <1>2
  <2>2. queue[l] # <<>> => acquiring[first][l] /\ l \in lock_list[first]
    BY <1>1, <1>6, <2>1, Zenon DEF LockInv, QueueInv
  <2> QED BY <1>6, <2>1, <2>2, LockAssumption, Zenon DEF Queued
<1>19. ASSUME NEW u \in Thread PROVE WorkInv(u, l)' /\ RequestInv(u, l)'
  <2>1. WorkInv(u, l)'
    BY <1>1, Zenon DEF LockInv, WorkInv
  <2>2. ClientOf[u] \in Client /\ (Waiting(u)' <=> Waiting(u)) /\ RequestInv(u, l)
    BY <1>1, LockAssumption, Zenon DEF Waiting, LockInv
  <2>3. RequestInv(u, l)'
    BY <1>1, <1>12, <1>13, <1>15, <1>17, <1>18, <2>2, ZenonT(30) DEF RequestInv
  <2> QED BY <2>1, <2>3, Zenon
<1>20. ASSUME NEW u \in Thread, NEW w \in Thread PROVE AnswerInv(u, w, l)'
  BY <1>1, ZenonT(30) DEF LockInv, AnswerInv
<1>21. QueueInv(l)'
  <2>1. QueueInv(l)
    BY <1>1, Zenon DEF LockInv
  <2>2. ASSUME NEW i \in 1 .. Len(queue'[l])
        PROVE  /\ acquiring[queue'[l][i]][l] /\ l \in lock_list[queue'[l][i]]
               /\ ~ Retried(queue[l][i], l)' /\ ~ Answered(queue[l][i], l)'
    <3>1. acquiring[queue'[l][i]][l] /\ l \in lock_list[queue'[l][i]]
      BY <1>16, <2>1, ZenonT(30) DEF QueueInv
    <3>2. Queued(queue[l][i], l)'
      BY Zenon DEF Queued
    <3> QED BY <1>12, <1>13, <1>16, <1>17, <3>1, <3>2, Zenon
  <2>3. \A i, j \in 1 .. Len(queue'[l]) : queue'[l][i] = queue'[l][j] => i = j
    <3>1. \A i, j \in 1 .. Len(queue'[l]) : i + 1 = j + 1 => i = j
      OBVIOUS
    <3> QED BY <1>16, <2>1, <3>1 DEF QueueInv
  <2>4. queue'[l] # <<>> => holder'[l] # FREE
    BY <1>5, <1>16, <1>18, Zenon
  <2> QED BY <1>1, <2>2, <2>3, <2>4, ZenonT(30) DEF QueueInv
<1>22. ASSUME NEW d \in Client
       PROVE  RecordInv(d, l)' /\ GrantInv(d, l)' /\ ReturnInv(d, l)' /\ RevokeInv(d, l)'
  <2>1. RecordInv(d, l) /\ d # FREE
    BY <1>1, LockAssumption, Zenon DEF LockInv
  <2>2. RecordInv(d, l)'
    BY <1>1, <1>5, <1>8, <1>13, <1>18, <2>1, ZenonT(30) DEF RecordInv
  <2>3. GrantInv(d, l)'
    <3>1. \A x \in msgs : x.type = "retry" => x.lid # l
      BY <1>1, <1>8, RetryToHolder, Zenon
    <3>2. \A x \in msgs' : x.type = "retry" /\ x.lid = l => x = r
      BY <1>7, <3>1, Zenon
    <3> QED BY <1>1, <1>5, <1>11, <1>12, <1>13, <1>18, <3>2, Zenon DEF GrantInv
  <2> QED BY <1>11, <1>13, <1>14, <2>2, <2>3, Zenon DEF ReturnInv, RevokeInv
<1> QED BY <1>9, <1>10, <1>19, <1>20, <1>21, <1>22, Zenon DEF Kept, LockInv

\* The holder is asked for the lock: an idle one is given back at once.
LEMMA KeepRevokeHandler ==
  ASSUME IndInv, TypeOK', NEW m \in msgs, NEW c \in Client, NEW l \in Lock,
         revoke_handler(m), c = m.c, l = m.lid
  PROVE  Kept(l)
<1> DEFINE r == ReleaseMsg(c, l, FREE)
           idle == Idle(c, l)
<1>1. /\ TypeOK /\ LockInv(l) /\ \A u \in Thread : ThreadInv(u)
      /\ UNCHANGED <<holder, queue, revoked, revoke_queue, acquiring, awaiting_lock, c_holder,
                     pc, lid, ret, held>>
      /\ m.type = "revoke" /\ m \in Message
  BY Zenon DEF IndInv, revoke_handler, serverVars, threadVars, TypeOK
<1>2. m = RevokeMsg(c, l)
  BY <1>1, MessageTypes, Zenon
<1>3. /\ holder[l] = c /\ revoked[l] /\ ~ c_revoked[c][l] /\ ~ Released(c, l) /\ ~ Flushing(c, l)
      /\ [holder |-> c, lid |-> l] \notin revoke_queue
      /\ l \in lock_list[c] /\ (owned[c][l] \/ acquiring[c][l])
      /\ acquiring[c][l] => ~ owned[c][l]
  <2>1. Asked(c, l)
    BY <1>2, Zenon DEF Asked
  <2> QED BY <1>1, <1>2, <2>1, ZenonT(30) DEF LockInv, RevokeInv, RecordInv
<1>4. lock_list' = lock_list
  <2>1. lock_list' = [lock_list EXCEPT ![c] = @ \cup {l}]
    BY Zenon DEF revoke_handler
  <2>2. lock_list \in [Client -> SUBSET Lock]
    BY <1>1, Zenon DEF TypeOK
  <2>3. lock_list[c] \cup {l} = lock_list[c]
    BY <1>3, Zenon
  <2> QED BY <2>1, <2>2, <2>3, Zenon
<1>5. /\ idle => msgs' = (msgs \ {m}) \cup {r}
      /\ ~ idle => msgs' = msgs \ {m}
  BY <1>1, <1>3, Zenon DEF revoke_handler
<1>6. /\ SameElsewhere(owned, owned', c, l) /\ (owned'[c][l] <=> owned[c][l] /\ ~ idle)
      /\ SameElsewhere(c_revoked, c_revoked', c, l) /\ (c_revoked'[c][l] <=> ~ idle)
  <2> DEFINE fresh == l \notin lock_list[c]
  <2>1. owned \in [Client -> [Lock -> BOOLEAN]] /\ c_revoked \in [Client -> [Lock -> BOOLEAN]]
    BY <1>1, Zenon DEF TypeOK
  <2>2. /\ owned' = [owned EXCEPT ![c][l] = fresh \/ (@ /\ ~ (~ fresh /\ idle))]
        /\ c_revoked' = [c_revoked EXCEPT ![c][l] = ~ (~ fresh /\ idle)]
    BY Zenon DEF revoke_handler
  <2>3. SameElsewhere(owned, owned', c, l)
    BY <2>1, <2>2, Zenon DEF SameElsewhere
  <2>4. SameElsewhere(c_revoked, c_revoked', c, l)
    BY <2>1, <2>2, Zenon DEF SameElsewhere
  <2>5. owned'[c][l] <=> fresh \/ (owned[c][l] /\ ~ (~ fresh /\ idle))
    BY <2>1, <2>2, ZenonT(30)
  <2>6. c_revoked'[c][l] <=> ~ (~ fresh /\ idle)
    BY <2>1, <2>2, ZenonT(30)
  <2> QED BY <1>3, <2>3, <2>4, <2>5, <2>6, Zenon
<1>7. idle => /\ c_holder[c][l] = FREE /\ ~ acquiring[c][l] /\ owned[c][l]
              /\ \A u \in Thread : ClientOf[u] = c /\ lid[u] = l => ~ Waiting(u)
  BY <1>3, NobodyWaits, Zenon DEF Idle
<1>8. r.type = "release" /\ r.lid = l /\ r.c = c
  BY MessageFields
<1> HIDE DEF r, idle
<1>9. /\ \A x \in msgs' : x \notin msgs => x = r /\ idle
      /\ \A x \in msgs : x # m => x \in msgs'
      /\ m \notin msgs' /\ (idle => r \in msgs')
  BY <1>1, <1>5, <1>8, Zenon
<1>10. ASSUME NEW u \in Thread PROVE ThreadInv(u)'
  BY <1>1, Zenon DEF ThreadInv
<1>11. ASSUME NEW k \in Lock \ {l} PROVE SameLock(k)
  BY <1>1, <1>4, <1>6, <1>8, <1>9, <1>11, ZenonT(30) DEF SameLock, SameElsewhere
<1>12. \A d \in Client : ~ Released(d, l) /\ ~ Flushing(d, l)
  BY <1>1, <1>3, ZenonT(30) DEF LockInv, ReturnInv
<1>13. \A d \in Client : Released(d, l)' <=> d = c /\ idle
  BY <1>8, <1>9, <1>12, Zenon DEF Released
<1>14. \A d \in Client : Retried(d, l)' <=> Retried(d, l)
  BY <1>1, <1>8, <1>9, Zenon DEF Retried
<1>15. \A d \in Client : /\ Flushing(d, l)' <=> Flushing(d, l)
                         /\ Answered(d, l)' <=> Answered(d, l)
                         /\ Queued(d, l)' <=> Queued(d, l)
                         /\ Waiters(d, l)' = Waiters(d, l)
  BY <1>1, Zenon DEF Flushing, Answered, Queued, Waiters, Waiting
<1>16. \A d \in Client : ~ Asked(d, l)'
  <2>1. \A d \in Client : Asked(d, l) => d = c
    BY <1>1, <1>3, ZenonT(30) DEF LockInv, RevokeInv
  <2>2. \A d \in Client : RevokeMsg(d, l) \in msgs' => RevokeMsg(d, l) \in msgs /\ d # c
    BY <1>2, <1>8, <1>9, MessageFields
  <2> QED BY <1>1, <1>3, <2>1, <2>2, Zenon DEF Asked
<1>17. \A u \in Thread : AcquireMsg(u, l) \in msgs' <=> AcquireMsg(u, l) \in msgs
  BY <1>1, <1>8, <1>9, MessageFields
<1>18. ASSUME NEW u \in Thread PROVE WorkInv(u, l)' /\ RequestInv(u, l)'
  <2>1. WorkInv(u, l) /\ RequestInv(u, l) /\ ClientOf[u] \in Client /\ (Waiting(u)' <=> Waiting(u))
    BY <1>1, LockAssumption, Zenon DEF LockInv, Waiting
  <2>2. WorkInv(u, l)'
    <3>1. CASE ClientOf[u] = c
      BY <1>1, <1>4, <1>6, <1>7, <2>1, <3>1, ZenonT(30) DEF WorkInv, Waiting
    <3>2. CASE ClientOf[u] # c
      BY <1>1, <1>4, <1>6, <2>1, <3>2, ZenonT(30) DEF WorkInv, SameElsewhere
    <3> QED BY <3>1, <3>2, Zenon
  <2>3. RequestInv(u, l)'
    BY <1>1, <1>14, <1>15, <1>17, <2>1, ZenonT(30) DEF RequestInv
  <2> QED BY <2>2, <2>3, Zenon
<1>19. ASSUME NEW u \in Thread, NEW w \in Thread PROVE AnswerInv(u, w, l)'
  BY <1>1, ZenonT(30) DEF LockInv, AnswerInv
<1>20. QueueInv(l)'
  BY <1>1, <1>4, <1>14, <1>15, QueueFrame, ZenonT(30)
<1>21. ASSUME NEW d \in Client
       PROVE  RecordInv(d, l)' /\ GrantInv(d, l)' /\ ReturnInv(d, l)' /\ RevokeInv(d, l)'
  <2>1. RecordInv(d, l) /\ GrantInv(d, l)
    BY <1>1, Zenon DEF LockInv
  <2>2. RecordInv(d, l)'
    <3>1. CASE d = c
      BY <1>1, <1>3, <1>4, <1>6, <1>7, <1>12, <1>13, <1>15, <2>1, <3>1, Zenon DEF RecordInv
    <3>2. CASE d # c
      BY <1>1, <1>3, <1>4, <1>6, <1>15, <2>1, <3>2, ZenonT(30) DEF RecordInv, SameElsewhere
    <3> QED BY <3>1, <3>2, Zenon
  <2>3. GrantInv(d, l)'
    <3>1. \A x \in msgs' : x.type = "retry" => x \in msgs
      BY <1>8, <1>9, Zenon
    <3> QED BY <1>1, <1>7, <1>12, <1>13, <1>14, <1>15, <2>1, <3>1, ZenonT(30) DEF GrantInv
  <2>4. ReturnInv(d, l)'
    <3>1. \A x \in msgs : x.type = "release" => x.lid # l
      BY <1>1, <1>12, ReleaseByHolder, ZenonT(30)
    <3>2. \A x \in msgs' : x.type = "release" /\ x.lid = l => x = r
      BY <1>9, <3>1, Zenon
    <3>3. \A u \in Thread : pc[u] = "flush" => lid[u] # l
      BY <1>12, LockAssumption, Zenon DEF Flushing
    <3> QED BY <1>1, <1>3, <1>6, <1>12, <1>13, <1>15, <3>2, <3>3, ZenonT(30) DEF ReturnInv
  <2> QED BY <1>16, <2>2, <2>3, <2>4, ZenonT(30) DEF RevokeInv
<1> QED BY <1>10, <1>11, <1>18, <1>19, <1>20, <1>21, Zenon DEF Kept, LockInv

\* The retry makes the client the owner.
LEMMA KeepRetryHandler ==
  ASSUME IndInv, TypeOK', NEW m \in msgs, NEW c \in Client, NEW l \in Lock,
         retry_handler(m), c = m.c, l = m.lid
  PROVE  Kept(l)
<1>1. /\ TypeOK /\ LockInv(l) /\ \A u \in Thread : ThreadInv(u)
      /\ UNCHANGED <<holder, queue, revoked, revoke_queue, lock_list, c_revoked,
                     awaiting_lock, c_holder, pc, lid, ret, held>>
      /\ m.type = "retry" /\ m \in Message /\ msgs' = msgs \ {m}
  BY ZenonT(30) DEF IndInv, retry_handler, serverVars, threadVars, TypeOK
<1>2. /\ holder[l] = c /\ acquiring[c][l] /\ ~ owned[c][l] /\ Retried(c, l)
      /\ ~ Released(c, l) /\ ~ Flushing(c, l) /\ ~ Answered(c, l) /\ ~ Queued(c, l)
      /\ \A x \in msgs : x.type = "retry" /\ x.lid = l => x = m
      /\ \A u \in Thread : ClientOf[u] = c => AcquireMsg(u, l) \notin msgs
  <2>1. Retried(c, l)
    BY <1>1, Zenon DEF Retried
  <2>2. Retried(c, l) => ~ Queued(c, l)
    BY <1>1, ZenonT(30) DEF LockInv, QueueInv, Queued
  <2> QED BY <1>1, <2>1, <2>2, ZenonT(30) DEF LockInv, GrantInv, RecordInv, RequestInv
<1>3. /\ SameElsewhere(owned, owned', c, l) /\ owned'[c][l]
      /\ SameElsewhere(acquiring, acquiring', c, l) /\ ~ acquiring'[c][l]
  <2>1. owned \in [Client -> [Lock -> BOOLEAN]] /\ acquiring \in [Client -> [Lock -> BOOLEAN]]
    BY <1>1, Zenon DEF TypeOK
  <2>2. /\ owned' = [owned EXCEPT ![c][l] = TRUE]
        /\ acquiring' = [acquiring EXCEPT ![c][l] = FALSE]
    BY Zenon DEF retry_handler
  <2>3. SameElsewhere(owned, owned', c, l)
    BY <2>1, <2>2, ZenonT(30) DEF SameElsewhere
  <2>4. SameElsewhere(acquiring, acquiring', c, l)
    BY <2>1, <2>2, ZenonT(30) DEF SameElsewhere
  <2>5. owned'[c][l] /\ ~ acquiring'[c][l]
    BY <2>1, <2>2, Zenon
  <2> QED BY <2>3, <2>4, <2>5, Zenon
<1>4. ASSUME NEW u \in Thread PROVE ThreadInv(u)'
  BY <1>1, Zenon DEF ThreadInv
<1>5. ASSUME NEW k \in Lock \ {l} PROVE SameLock(k)
  BY <1>1, <1>3, <1>5, Zenon DEF SameLock, SameElsewhere
<1>6. \A d \in Client : /\ Released(d, l)' <=> Released(d, l)
                        /\ RevokeMsg(d, l) \in msgs' <=> RevokeMsg(d, l) \in msgs
  BY <1>1, MessageFields DEF Released
<1>7. \A d \in Client : ~ Retried(d, l)'
  BY <1>1, <1>2, ZenonT(30) DEF Retried
<1>8. \A d \in Client : /\ Flushing(d, l)' <=> Flushing(d, l)
                        /\ Answered(d, l)' <=> Answered(d, l)
                        /\ Queued(d, l)' <=> Queued(d, l)
                        /\ Waiters(d, l)' = Waiters(d, l)
                        /\ Asked(d, l)' <=> Asked(d, l)
  BY <1>1, <1>6, ZenonT(30) DEF Flushing, Answered, Queued, Waiters, Waiting, Asked
<1>9. \A u \in Thread : AcquireMsg(u, l) \in msgs' <=> AcquireMsg(u, l) \in msgs
  BY <1>1, MessageFields
<1>10. ASSUME NEW u \in Thread PROVE WorkInv(u, l)' /\ RequestInv(u, l)'
  <2>1. WorkInv(u, l) /\ RequestInv(u, l) /\ ClientOf[u] \in Client /\ (Waiting(u)' <=> Waiting(u))
    BY <1>1, LockAssumption, ZenonT(30) DEF LockInv, Waiting
  <2>2. WorkInv(u, l)'
    BY <1>1, <1>3, <2>1, ZenonT(30) DEF WorkInv, SameElsewhere
  <2>3. RequestInv(u, l)'
    <3> SUFFICES ASSUME AcquireMsg(u, l) \in msgs'
                 PROVE  RequestInv(u, l)'
      BY ZenonT(30) DEF RequestInv
    <3>1. AcquireMsg(u, l) \in msgs /\ ClientOf[u] # c
      BY <1>2, <1>9, Zenon
    <3>2. acquiring'[ClientOf[u]][l] = acquiring[ClientOf[u]][l]
      BY <1>3, <2>1, <3>1, Zenon DEF SameElsewhere
    <3> QED BY <1>1, <1>7, <1>8, <1>9, <2>1, <3>1, <3>2, ZenonT(30) DEF RequestInv
  <2> QED BY <2>2, <2>3, Zenon
<1>11. ASSUME NEW u \in Thread, NEW w \in Thread PROVE AnswerInv(u, w, l)'
  BY <1>1, Zenon DEF LockInv, AnswerInv
<1>12. QueueInv(l)'
  <2>1. queue[l] \in Seq(Client) /\ QueueInv(l)
    BY <1>1, ZenonT(30) DEF TypeOK, LockInv
  <2>2. ASSUME NEW i \in 1 .. Len(queue[l])
        PROVE  /\ acquiring'[queue[l][i]][l] /\ l \in lock_list[queue[l][i]]
               /\ ~ Retried(queue[l][i], l)' /\ ~ Answered(queue[l][i], l)'
    <3>1. queue[l][i] \in Client
      BY <2>1
    <3>2. queue[l][i] # c
      BY <1>2, Zenon DEF Queued
    <3>3. /\ acquiring[queue[l][i]][l] /\ l \in lock_list[queue[l][i]]
          /\ ~ Answered(queue[l][i], l)
      BY <2>1, Zenon DEF QueueInv
    <3>4. acquiring'[queue[l][i]][l] = acquiring[queue[l][i]][l]
      BY <1>3, <3>1, <3>2, Zenon DEF SameElsewhere
    <3>5. queue' = queue
      BY <1>1, Zenon
    <3>6. ~ Retried(queue[l][i], l)'
      BY <1>7, <3>1, <3>5, Zenon
    <3>7. ~ Answered(queue[l][i], l)'
      BY <1>8, <3>1, <3>3, <3>5, Zenon
    <3> QED BY <3>3, <3>4, <3>6, <3>7, ZenonT(30)
  <2>3. queue' = queue /\ holder' = holder /\ lock_list' = lock_list
    BY <1>1, Zenon
  <2> QED BY <2>1, <2>2, <2>3, ZenonT(30) DEF QueueInv
<1>13. ASSUME NEW d \in Client
       PROVE  RecordInv(d, l)' /\ GrantInv(d, l)' /\ ReturnInv(d, l)' /\ RevokeInv(d, l)'
  <2>1. RecordInv(d, l) /\ GrantInv(d, l) /\ ReturnInv(d, l) /\ RevokeInv(d, l)
    BY <1>1, Zenon DEF LockInv
  <2>2. CASE d = c
    <3>1. RecordInv(d, l)'
      BY <1>1, <1>2, <1>3, <1>8, <2>1, <2>2, ZenonT(30) DEF RecordInv
    <3>2. GrantInv(d, l)' /\ ReturnInv(d, l)'
      BY <1>2, <1>6, <1>7, <1>8, <2>2, ZenonT(30) DEF GrantInv, ReturnInv
    <3>3. RevokeInv(d, l)'
      BY <1>1, <1>6, <1>8, <2>1, ZenonT(30) DEF RevokeInv
    <3> QED BY <3>1, <3>2, <3>3, Zenon
  <2>3. CASE d # c
    <3>1. RecordInv(d, l)'
      BY <1>1, <1>2, <1>3, <1>8, <2>1, <2>3, ZenonT(30) DEF RecordInv, SameElsewhere
    <3>2. ~ Answered(d, l) /\ ~ Released(d, l) /\ ~ Flushing(d, l) /\ ~ Asked(d, l)
      BY <1>2, <2>1, <2>3, ZenonT(30) DEF GrantInv, ReturnInv, RevokeInv
    <3> QED BY <1>6, <1>7, <1>8, <3>1, <3>2, ZenonT(30) DEF GrantInv, ReturnInv, RevokeInv
  <2> QED BY <2>2, <2>3, Zenon
<1> QED BY <1>4, <1>5, <1>10, <1>11, <1>12, <1>13, Zenon DEF Kept, LockInv

\* The enforcer marks the locks that others wait for and queues their revokes.
LEMMA KeepEnforcer ==
  ASSUME IndInv, TypeOK', NEW l \in Lock, enforcer
  PROVE  LockInv(l)' /\ \A u \in Thread : ThreadInv(u)'
<1>1. /\ TypeOK /\ LockInv(l) /\ \A u \in Thread : ThreadInv(u)
      /\ UNCHANGED <<holder, queue, lock_list, owned, acquiring, c_revoked, awaiting_lock, c_holder,
                     pc, lid, ret, held, msgs>>
  BY Zenon DEF IndInv, enforcer, infoVars, threadVars
<1>2. \A u \in Thread : ThreadInv(u)'
  BY <1>1, Zenon DEF ThreadInv
<1>3. revoked'[l] <=> revoked[l] \/ l \in Wanted
  BY ZenonT(30) DEF enforcer
<1>4. \A d \in Client : [holder |-> d, lid |-> l] \in revoke_queue' <=>
                          \/ [holder |-> d, lid |-> l] \in revoke_queue
                          \/ l \in Wanted /\ d = holder[l]
  BY ZenonT(30) DEF enforcer
<1>5. CASE l \notin Wanted
  <2>1. revoked'[l] = revoked[l]
    BY <1>1, <1>3, <1>5 DEF TypeOK
  <2>2. SameLock(l)
    BY <1>1, <1>4, <1>5, <2>1, Zenon DEF SameLock
  <2> QED BY <1>1, <1>2, <2>2, OtherLock, Zenon
<1>6. CASE l \in Wanted
  <2>1. ~ revoked[l] /\ revoked'[l]
    BY <1>3, <1>6, Zenon DEF Wanted
  <2>2. \A d \in Client : /\ ~ c_revoked[d][l] /\ ~ Released(d, l) /\ ~ Flushing(d, l)
                          /\ ~ Asked(d, l)
    BY <1>1, <2>1, ZenonT(30) DEF LockInv, RecordInv, ReturnInv, RevokeInv
  <2>3. \A d \in Client : /\ Retried(d, l)' <=> Retried(d, l)
                          /\ Released(d, l)' <=> Released(d, l)
                          /\ Queued(d, l)' <=> Queued(d, l)
                          /\ Answered(d, l)' <=> Answered(d, l)
                          /\ Flushing(d, l)' <=> Flushing(d, l)
                          /\ Waiters(d, l)' = Waiters(d, l)
    BY <1>1, Zenon DEF Retried, Released, Queued, Answered, Flushing, Waiters, Waiting
  <2>4. \A d \in Client : Asked(d, l)' => d = holder[l] /\ RevokeMsg(d, l) \notin msgs'
    BY <1>1, <1>4, <2>2, Zenon DEF Asked
  <2>5. ASSUME NEW u \in Thread PROVE WorkInv(u, l)' /\ RequestInv(u, l)'
    <3>1. WorkInv(u, l)'
      BY <1>1, ZenonT(30) DEF LockInv, WorkInv
    <3>2. ClientOf[u] \in Client /\ (Waiting(u)' <=> Waiting(u)) /\ RequestInv(u, l)
      BY <1>1, LockAssumption, Zenon DEF Waiting, LockInv
    <3>3. RequestInv(u, l)'
      BY <1>1, <2>3, <3>2, ZenonT(30) DEF RequestInv
    <3> QED BY <3>1, <3>3, Zenon
  <2>6. ASSUME NEW u \in Thread, NEW w \in Thread PROVE AnswerInv(u, w, l)'
    BY <1>1, ZenonT(30) DEF LockInv, AnswerInv
  <2>7. QueueInv(l)'
    BY <1>1, <2>3, QueueFrame, ZenonT(30)
  <2>8. ASSUME NEW d \in Client
        PROVE  RecordInv(d, l)' /\ GrantInv(d, l)' /\ ReturnInv(d, l)' /\ RevokeInv(d, l)'
    <3>1. RecordInv(d, l) /\ GrantInv(d, l)
      BY <1>1, Zenon DEF LockInv
    <3>2. RecordInv(d, l)'
      BY <1>1, <2>2, <2>3, <3>1, ZenonT(30) DEF RecordInv
    <3>3. GrantInv(d, l)'
      BY <1>1, <2>3, <3>1, ZenonT(30) DEF GrantInv
    <3>4. ReturnInv(d, l)'
      BY <2>2, <2>3, ZenonT(30) DEF ReturnInv
    <3>5. RevokeInv(d, l)'
      BY <1>1, <2>1, <2>2, <2>3, <2>4, ZenonT(30) DEF RevokeInv
    <3> QED BY <3>2, <3>3, <3>4, <3>5, Zenon
  <2> QED BY <1>2, <2>5, <2>6, <2>7, <2>8, Zenon DEF LockInv
<1> QED BY <1>5, <1>6, Zenon

\* The revoker sends a revoke, or drops it when it cannot bind to the holder.
LEMMA KeepRevokerCall ==
  ASSUME IndInv, TypeOK', NEW r \in revoke_queue, NEW c \in Client, NEW l \in Lock,
         revoker_call(r), c = r.holder, l = r.lid
  PROVE  Kept(l)
<1> DEFINE m == RevokeMsg(c, l)
<1>1. /\ TypeOK /\ LockInv(l) /\ \A u \in Thread : ThreadInv(u)
      /\ UNCHANGED <<holder, queue, revoked, lock_list, owned, acquiring, c_revoked, awaiting_lock,
                     c_holder, pc, lid, ret, held>>
      /\ revoke_queue' = revoke_queue \ {r} /\ (msgs' = msgs \/ msgs' = msgs \cup {m})
  BY Zenon DEF IndInv, revoker_call, infoVars, threadVars
<1>2. r = [holder |-> c, lid |-> l]
  BY <1>1, Zenon DEF TypeOK
<1>3. m.type = "revoke" /\ m.lid = l /\ m.c = c
  BY MessageFields, SMTT(30)
<1>4. \A d \in Client : RevokeMsg(d, l) = m => d = c
  BY <1>3, MessageFields, SMTT(30)
<1>5. Asked(c, l)
  BY <1>2, Zenon DEF Asked
<1> HIDE DEF m
<1>6. /\ \A x \in msgs' : x \notin msgs => x = m
      /\ \A x \in msgs : x \in msgs'
  BY <1>1, Zenon
<1>7. ASSUME NEW u \in Thread PROVE ThreadInv(u)'
  BY <1>1, Zenon DEF ThreadInv
<1>8. ASSUME NEW k \in Lock \ {l} PROVE SameLock(k)
  <2>1. \A d \in Client :
          [holder |-> d, lid |-> k] \in revoke_queue' <=> [holder |-> d, lid |-> k] \in revoke_queue
    BY <1>1, <1>2, <1>8
  <2> QED BY <1>1, <1>3, <1>6, <1>8, <2>1, Zenon DEF SameLock
<1>9. \A d \in Client : /\ Retried(d, l)' <=> Retried(d, l)
                        /\ Released(d, l)' <=> Released(d, l)
  BY <1>3, <1>6, Zenon DEF Retried, Released
<1>10. \A d \in Client : /\ Queued(d, l)' <=> Queued(d, l)
                         /\ Answered(d, l)' <=> Answered(d, l)
                         /\ Flushing(d, l)' <=> Flushing(d, l)
                         /\ Waiters(d, l)' = Waiters(d, l)
  BY <1>1, Zenon DEF Queued, Answered, Flushing, Waiters, Waiting
<1>11. \A u \in Thread : AcquireMsg(u, l) \in msgs' <=> AcquireMsg(u, l) \in msgs
  BY <1>3, <1>6, MessageFields, SMTT(30)
<1>12. ASSUME NEW u \in Thread PROVE WorkInv(u, l)' /\ RequestInv(u, l)'
  <2>1. WorkInv(u, l)'
    BY <1>1, Zenon DEF LockInv, WorkInv
  <2>2. ClientOf[u] \in Client /\ (Waiting(u)' <=> Waiting(u)) /\ RequestInv(u, l)
    BY <1>1, LockAssumption, ZenonT(30) DEF Waiting, LockInv
  <2>3. RequestInv(u, l)'
    BY <1>1, <1>9, <1>10, <1>11, <2>2, ZenonT(30) DEF RequestInv
  <2> QED BY <2>1, <2>3, Zenon
<1>13. ASSUME NEW u \in Thread, NEW w \in Thread PROVE AnswerInv(u, w, l)'
  BY <1>1, ZenonT(30) DEF LockInv, AnswerInv
<1>14. QueueInv(l)'
  BY <1>1, <1>9, <1>10, QueueFrame, ZenonT(30)
<1>15. ASSUME NEW d \in Client
       PROVE  RecordInv(d, l)' /\ GrantInv(d, l)' /\ ReturnInv(d, l)' /\ RevokeInv(d, l)'
  <2>1. RecordInv(d, l) /\ GrantInv(d, l) /\ ReturnInv(d, l) /\ RevokeInv(d, l)
    BY <1>1, Zenon DEF LockInv
  <2>2. RecordInv(d, l)'
    BY <1>1, <1>9, <1>10, <2>1, ZenonT(30) DEF RecordInv
  <2>3. GrantInv(d, l)'
    <3>1. \A x \in msgs' : x.type = "retry" => x \in msgs
      BY <1>3, <1>6, Zenon
    <3> QED BY <1>1, <1>9, <1>10, <2>1, <3>1, ZenonT(30) DEF GrantInv
  <2>4. ReturnInv(d, l)'
    <3>1. \A x \in msgs' : x.type = "release" => x \in msgs
      BY <1>3, <1>6, Zenon
    <3> QED BY <1>1, <1>9, <1>10, <2>1, <3>1, ZenonT(30) DEF ReturnInv
  <2>5. RevokeInv(d, l)'
    <3>1. Asked(d, l)' => Asked(d, l)
      BY <1>1, <1>4, <1>5, <1>6, Zenon DEF Asked
    <3>2. ~ ([holder |-> d, lid |-> l] \in revoke_queue' /\ RevokeMsg(d, l) \in msgs')
      <4>1. CASE d = c
        BY <1>1, <1>2, <4>1, Zenon
      <4>2. CASE d # c
        <5>1. RevokeMsg(d, l) \in msgs' => RevokeMsg(d, l) \in msgs
          BY <1>4, <1>6, <4>2, Zenon
        <5> QED BY <1>1, <2>1, <5>1, Zenon DEF RevokeInv, Asked
      <4> QED BY <4>1, <4>2, Zenon
    <3> QED BY <1>1, <1>9, <1>10, <2>1, <3>1, <3>2, Zenon DEF RevokeInv
  <2> QED BY <2>2, <2>3, <2>4, <2>5, Zenon
<1> QED BY <1>7, <1>8, <1>12, <1>13, <1>14, <1>15, Zenon DEF Kept, LockInv

-----------------------------------------------------------------------------
(* The theorems *)

\* At the start every lock is free at the server.
LEMMA IndInit == Init => IndInv
<1> SUFFICES ASSUME Init PROVE IndInv
  OBVIOUS
<1>1. TypeOK
  BY TypeInit, Zenon
<1>2. \A t \in Thread : ThreadInv(t)
  BY Zenon DEF Init, ThreadInv
<1>3. ASSUME NEW l \in Lock PROVE LockInv(l)
  <2>1. l # FREE /\ queue[l] = <<>> /\ holder[l] = FREE /\ msgs = {} /\ revoke_queue = {}
    BY LockAssumption, Zenon DEF Init
  <2>2. \A c \in Client : /\ ~ Retried(c, l) /\ ~ Released(c, l) /\ ~ Asked(c, l)
                          /\ ~ Answered(c, l) /\ ~ Flushing(c, l) /\ Waiters(c, l) = {}
    BY <2>1, Zenon DEF Init, Retried, Released, Asked, Answered, Flushing, Waiters, Waiting
  <2>3. \A t \in Thread : WorkInv(t, l) /\ RequestInv(t, l)
    BY <2>1, Zenon DEF Init, WorkInv, RequestInv
  <2>4. \A t, u \in Thread : AnswerInv(t, u, l)
    BY Zenon DEF Init, AnswerInv
  <2>5. QueueInv(l)
    <3>1. Len(queue[l]) = 0 /\ 1 .. 0 = {}
      BY <2>1, SMTT(30)
    <3> QED BY <2>1, <3>1, ZenonT(30) DEF QueueInv
  <2>6. ASSUME NEW c \in Client PROVE RecordInv(c, l)
    <3>1. awaiting_lock[c][l] = Cardinality(Waiters(c, l))
      BY <2>2, FS_EmptySet, ZenonT(30) DEF Init
    <3> QED BY <2>1, <2>2, <3>1, LockAssumption, Zenon DEF Init, RecordInv
  <2>7. \A c \in Client : GrantInv(c, l) /\ ReturnInv(c, l) /\ RevokeInv(c, l)
    BY <2>2, ZenonT(30) DEF GrantInv, ReturnInv, RevokeInv
  <2> QED BY <2>3, <2>4, <2>5, <2>6, <2>7, Zenon DEF LockInv
<1> QED BY <1>1, <1>2, <1>3, Zenon DEF IndInv

\* A step that keeps what is about one lock keeps the invariant.
LEMMA KeptIsEnough ==
  ASSUME IndInv, TypeOK', NEW l \in Lock, Kept(l)
  PROVE  IndInv'
<1>1. ASSUME NEW k \in Lock PROVE LockInv(k)'
  <2>1. CASE k = l
    BY <2>1, Zenon DEF Kept
  <2>2. CASE k # l
    BY <2>2, OtherLock, Zenon DEF Kept, IndInv
  <2> QED BY <2>1, <2>2, Zenon
<1> QED BY <1>1, Zenon DEF Kept, IndInv

\* Every step of the server, the clients and their threads keeps the invariant.
LEMMA IndNext == IndInv /\ [Next]_vars => IndInv'
<1> SUFFICES ASSUME IndInv, [Next]_vars PROVE IndInv'
  OBVIOUS
<1>1. TypeOK' /\ TypeOK
  BY TypeNext, Zenon DEF IndInv
<1>2. ASSUME NEW t \in Thread, ThreadStep(t) PROVE IndInv'
  <2>1. ClientOf[t] \in Client /\ lid[t] \in Lock
    BY <1>1, <1>2, LockAssumption, ZenonT(30)
       DEF ThreadStep, acquire_wait, acquire_take, acquire_lock, acquire_lock_return,
           release_call, release_return, IndInv, ThreadInv, TypeOK
  <2>2. CASE acquire_wait(t) \/ acquire_take(t)
    <3>1. TakeStep(t, ClientOf[t], lid[t])
      BY <1>1, <2>1, <2>2, TakeIsCounted, Zenon
    <3> QED BY <1>1, <2>1, <3>1, KeepTake, KeptIsEnough, Zenon
  <2>3. CASE acquire_lock(t)
    BY <1>1, <2>1, <2>3, KeepAcquireLock, KeptIsEnough, Zenon
  <2>4. CASE acquire_lock_return(t)
    BY <1>1, <2>1, <2>4, KeepAcquireLockReturn, KeptIsEnough, Zenon
  <2>5. CASE release_call(t)
    BY <1>1, <2>1, <2>5, KeepReleaseCall, KeptIsEnough, Zenon
  <2>6. CASE release_return(t)
    BY <1>1, <2>1, <2>6, KeepBeginEnd, KeptIsEnough, Zenon
  <2> QED BY <1>2, <2>2, <2>3, <2>4, <2>5, <2>6, Zenon DEF ThreadStep
<1>3. ASSUME NEW t \in Thread, NEW l \in Lock, acquire(t, l) \/ release(t, l) PROVE IndInv'
  <2>1. ClientOf[t] \in Client
    BY LockAssumption, Zenon
  <2>2. CASE acquire(t, l)
    BY <1>1, <2>1, <2>2, KeepBeginEnd, KeptIsEnough, Zenon
  <2>3. CASE release(t, l)
    BY <1>1, <2>1, <2>3, KeepRelease, KeptIsEnough, Zenon
  <2> QED BY <1>3, <2>2, <2>3, Zenon
<1>4. ASSUME NEW m \in msgs, Handler(m) PROVE IndInv'
  <2>1. m \in Message
    BY <1>1, Zenon DEF TypeOK
  <2>2. m.lid \in Lock
    BY <2>1, MessageTypes, Zenon
  <2>3. CASE server_acquire(m)
    <3>1. m.t \in Thread /\ ClientOf[m.t] \in Client
      BY <2>1, <2>3, MessageTypes, LockAssumption, Zenon DEF server_acquire
    <3> QED BY <1>1, <2>2, <2>3, <3>1, KeepServerAcquire, KeptIsEnough, Zenon
  <2>4. CASE server_release(m)
    <3>1. m.c \in Client
      BY <2>1, <2>4, MessageTypes, Zenon DEF server_release
    <3> QED BY <1>1, <2>2, <2>4, <3>1, KeepServerRelease, KeptIsEnough, Zenon
  <2>5. CASE revoke_handler(m)
    <3>1. m.c \in Client
      BY <2>1, <2>5, MessageTypes, Zenon DEF revoke_handler
    <3> QED BY <1>1, <2>2, <2>5, <3>1, KeepRevokeHandler, KeptIsEnough, Zenon
  <2>6. CASE retry_handler(m)
    <3>1. m.c \in Client
      BY <2>1, <2>6, MessageTypes, Zenon DEF retry_handler
    <3> QED BY <1>1, <2>2, <2>6, <3>1, KeepRetryHandler, KeptIsEnough, Zenon
  <2> QED BY <1>4, <2>3, <2>4, <2>5, <2>6, Zenon DEF Handler
<1>5. CASE enforcer
  <2>1. \A t \in Thread : ThreadInv(t)'
    BY <1>5, Zenon DEF enforcer, threadVars, IndInv, ThreadInv
  <2> QED BY <1>1, <1>5, <2>1, KeepEnforcer, Zenon DEF IndInv
<1>6. ASSUME NEW r \in revoke_queue, revoker_call(r) PROVE IndInv'
  <2>1. r.holder \in Client /\ r.lid \in Lock
    BY <1>1, Zenon DEF TypeOK
  <2> QED BY <1>1, <1>6, <2>1, KeepRevokerCall, KeptIsEnough, Zenon
<1>7. CASE revoker_return \/ UNCHANGED vars
  <2>1. UNCHANGED <<holder, queue, revoked, revoke_queue, lock_list, owned, acquiring, c_revoked,
                    awaiting_lock, c_holder, pc, lid, ret, held, msgs>>
    BY <1>7, Zenon DEF revoker_return, vars, serverVars, infoVars, threadVars
  <2>2. \A l \in Lock : SameLock(l)
    BY <2>1, Zenon DEF SameLock
  <2>3. \A t \in Thread : ThreadInv(t)'
    BY <2>1, Zenon DEF IndInv, ThreadInv
  <2>4. ASSUME NEW l \in Lock PROVE LockInv(l)'
    BY <1>1, <2>2, OtherLock, Zenon DEF IndInv
  <2> QED BY <1>1, <2>3, <2>4, Zenon DEF IndInv
<1> QED BY <1>2, <1>3, <1>4, <1>5, <1>6, <1>7, Zenon DEF Next

\* The invariant holds in every reachable state.
LEMMA IndCorrect == Spec => []IndInv
BY IndInit, IndNext, PTL DEF Spec

\* The variables of the server, of the clients and of their threads stay
\* within their types; in particular awaiting_lock never goes below zero.
THEOREM LockTypeCorrect == Spec => []TypeOK
<1>1. IndInv => TypeOK
  BY Zenon DEF IndInv
<1> QED BY <1>1, IndCorrect, PTL

\* A lock is held by one thread at a time, whatever the order of acquires,
\* retries, revokes and releases and whichever calls fail.
THEOREM MutualExclusionHolds == Spec => []MutualExclusion
BY OneHolder, IndCorrect, PTL

\* The clients and the server together are one lock service: whatever the
\* order of calls, revokes and retries and whichever calls fail, each step of
\* theirs requests, grants or releases one lock for one thread, or is not
\* visible to the threads.
THEOREM LockServiceIsImplemented == Spec => ImplementsLockService
<1>1. Init => Service!Init
  <2> SUFFICES ASSUME Init PROVE Service!Init
    OBVIOUS
  <2>1. \A l \in Lock : Owner(l) = FREE
    BY Zenon DEF Init, Owner, Holds
  <2>2. \A t \in Thread : Wants(t) = FREE
    BY Zenon DEF Init, Wants, Waiting
  <2> QED BY <2>1, <2>2, Zenon DEF Service!Init
<1>2. IndInv /\ IndInv' /\ [Next]_vars => [Service!Next]_(Service!vars)
  BY ServiceNext
<1> QED BY <1>1, <1>2, IndCorrect, PTL DEF Spec, ImplementsLockService, Service!Spec

\* A revoke reaches the client that holds the lock: revoke_handler never
\* returns a lock that the client does not have.
THEOREM RevokesReachTheHolder == Spec => []RevokeReachesHolder
<1>1. IndInv => RevokeReachesHolder
  <2> SUFFICES ASSUME IndInv, NEW c \in Client, NEW l \in Lock, Asked(c, l)
               PROVE  /\ holder[l] = c /\ l \in lock_list[c]
                      /\ ~ c_revoked[c][l] /\ ~ Returning(c, l)
                      /\ owned[c][l] \/ acquiring[c][l]
    BY Zenon DEF RevokeReachesHolder
  <2>1. RecordInv(c, l) /\ RevokeInv(c, l)
    BY Zenon DEF IndInv, LockInv
  <2>2. Returning(c, l) <=> Released(c, l) \/ Flushing(c, l)
    BY Zenon DEF Returning, Released, Flushing
  <2> QED BY <2>1, <2>2, ZenonT(30) DEF RecordInv, RevokeInv
<1> QED BY <1>1, IndCorrect, PTL

\* Only the holder gives a lock back, once, and while it does so neither it
\* nor any other client can use the lock.
THEOREM OnlyTheHolderReturns == Spec => []OnlyHolderReturns
<1>1. ASSUME IndInv, NEW c \in Client, NEW l \in Lock, Returning(c, l)
      PROVE  /\ holder[l] = c
             /\ \A d \in Client : ~ owned[d][l]
             /\ \A t \in Thread : ~ Holds(t, l)
             /\ Cardinality({m \in msgs : m.type = "release" /\ m.lid = l})
                  + Cardinality({t \in Thread : pc[t] = "flush" /\ lid[t] = l}) = 1
  <2> DEFINE sent == {m \in msgs : m.type = "release" /\ m.lid = l}
             flush == {t \in Thread : pc[t] = "flush" /\ lid[t] = l}
  <2>1. TypeOK /\ LockInv(l) /\ \A d \in Client : RecordInv(d, l) /\ ReturnInv(d, l)
    BY <1>1, Zenon DEF IndInv, LockInv
  <2>2. Released(c, l) \/ Flushing(c, l)
    BY <1>1, Zenon DEF Returning, Released, Flushing
  <2>3. holder[l] = c /\ ~ owned[c][l] /\ ~ (Released(c, l) /\ Flushing(c, l))
    BY <2>1, <2>2, ZenonT(30) DEF ReturnInv
  <2>4. \A d \in Client : ~ owned[d][l]
    BY <2>1, <2>3, Zenon DEF RecordInv
  <2>5. \A t \in Thread : ~ Holds(t, l)
    <3>1. \A t \in Thread : l \in held[t] => c_holder[ClientOf[t]][l] = t
      BY <2>1, Zenon DEF LockInv, WorkInv
    <3>2. \A t \in Thread : ClientOf[t] \in Client /\ t # FREE
      BY LockAssumption, Zenon
    <3> QED BY <2>1, <2>4, <3>1, <3>2, SMTT(30) DEF RecordInv, Holds
  <2>6. \A m \in sent : Released(c, l)
    BY <2>1, <2>3, ReleaseByHolder, Zenon
  <2>7. \A t \in flush : Flushing(c, l)
    <3>1. \A t \in flush : Flushing(ClientOf[t], l) /\ ClientOf[t] \in Client
      BY LockAssumption, Zenon DEF Flushing
    <3> QED BY <2>1, <2>3, <3>1, ZenonT(30) DEF ReturnInv
  <2>8. CASE Released(c, l)
    <3>1. PICK m \in msgs : m.type = "release" /\ m.c = c /\ m.lid = l
      BY <2>8, Zenon DEF Released
    <3>2. sent = {m}
      BY <2>1, <2>2, <3>1, ZenonT(30) DEF ReturnInv
    <3>3. flush = {}
      BY <2>3, <2>7, <2>8, ZenonT(30)
    <3>4. Cardinality(sent) = 1 /\ Cardinality(flush) = 0
      BY <3>2, <3>3, FS_Singleton, FS_EmptySet, ZenonT(30)
    <3> QED BY <2>3, <2>4, <2>5, <3>4
  <2>9. CASE Flushing(c, l)
    <3>1. PICK t \in Thread : pc[t] = "flush" /\ lid[t] = l
      BY <2>9, Zenon DEF Flushing
    <3>2. flush = {t}
      BY <2>1, <2>2, <3>1, ZenonT(30) DEF ReturnInv
    <3>3. sent = {}
      BY <2>3, <2>6, <2>9, ZenonT(30)
    <3>4. Cardinality(flush) = 1 /\ Cardinality(sent) = 0
      BY <3>2, <3>3, FS_Singleton, FS_EmptySet, ZenonT(30)
    <3> QED BY <2>3, <2>4, <2>5, <3>4
  <2> QED BY <2>2, <2>8, <2>9, Zenon
<1>2. IndInv => OnlyHolderReturns
  BY <1>1, Zenon DEF OnlyHolderReturns
<1> QED BY <1>2, IndCorrect, PTL

\* Where clients queue for a lock its holder is asked for it, keeps the revoke
\* in mind with a thread that will release the lock, or is giving it back,
\* unless a call failed.
THEOREM QueuesAreServed == Spec => []QueueIsServed
<1>1. Init => ServeInv
  <2> SUFFICES ASSUME Init, NEW l \in Lock, NEW c \in Client
               PROVE  ~ revoked[l] /\ ~ acquiring[c][l] /\ ~ c_revoked[c][l]
    <3>1. ASSUME NEW l \in Lock, Init PROVE ~ revoked[l]
      BY <3>1, Zenon DEF Init
    <3> QED BY <3>1, Zenon DEF ServeInv, AskInv, WaitInv
  <2> QED BY Zenon DEF Init
<1>2. IndInv /\ IndInv' /\ ServeInv /\ [Next]_vars => ServeInv'
  BY ServeNext
<1>3. IndInv /\ ServeInv => QueueIsServed
  BY ServeServes
<1> QED BY <1>1, <1>2, <1>3, IndCorrect, PTL DEF Spec
=============================================================================
