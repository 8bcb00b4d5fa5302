----------------------- MODULE LockCacheClientProofs -----------------------
(***************************************************************************)
(* The steps of the clients' threads keep the invariant of LockCacheInv.   *)
(***************************************************************************)
EXTENDS LockCacheInv

\* A thread that starts the call of release() has given up the lock: it is
\* on its way back to the server.
LEMMA KeepReleaseCall ==
  ASSUME IndInv, TypeOK', NEW t \in Thread, NEW c \in Client, NEW l \in Lock,
         release_call(t), c = ClientOf[t], l = lid[t]
  PROVE  Kept(l)
<1> DEFINE r == ReleaseMsg(c, l, t)
<1>1. /\ TypeOK /\ LockInv(l) /\ \A u \in Thread : ThreadInv(u)
      /\ pc[t] = "flush" /\ pc' = [pc EXCEPT ![t] = "release"] /\ msgs' = msgs \cup {r}
      /\ UNCHANGED <<holder, queue, revoked, revoke_queue, infoVars, lid, ret, held>>
  BY Zenon DEF IndInv, release_call, serverVars
<1>2. r.type = "release" /\ r.lid = l /\ r.c = c
  BY MessageFields
<1> HIDE DEF r
<1>3. ASSUME NEW u \in Thread PROVE ThreadInv(u)'
  BY <1>1, Zenon DEF ThreadInv, TypeOK
<1>4. ASSUME NEW k \in Lock \ {l} PROVE SameLock(k)
  BY <1>1, <1>2, <1>4, Zenon DEF SameLock, TypeOK, infoVars
<1>5. Flushing(c, l) /\ ~ Released(c, l)
  BY <1>1, Zenon DEF Flushing, LockInv, ReturnInv
<1>6. \A d \in Client : ~ Flushing(d, l)'
  BY <1>1, <1>5, ZenonT(30) DEF Flushing, LockInv, ReturnInv, TypeOK
<1>7. \A d \in Client : Released(d, l)' <=> d = c
  <2>1. \A d \in Client : Released(d, l) => d = c
    BY <1>1, <1>5, Zenon DEF LockInv, ReturnInv
  <2> QED BY <1>1, <1>2, <2>1, Zenon DEF Released
<1>8. \A d \in Client : Retried(d, l)' <=> Retried(d, l)
  BY <1>1, <1>2, Zenon DEF Retried
<1>9. \A d \in Client : Answered(d, l)' <=> Answered(d, l)
  BY <1>1, Zenon DEF Answered
<1>10. \A d \in Client : Waiters(d, l)' = Waiters(d, l)
  BY <1>1, Zenon DEF Waiters, Waiting, TypeOK
<1>11. \A d \in Client : Queued(d, l)' <=> Queued(d, l)
  BY <1>1, Zenon DEF Queued
<1>12. \A d \in Client : RevokeMsg(d, l) \in msgs' <=> RevokeMsg(d, l) \in msgs
  BY <1>1, <1>2, MessageFields
<1>13. \A d \in Client : Asked(d, l)' <=> Asked(d, l)
  BY <1>1, <1>12, Zenon DEF Asked
<1>14. ASSUME NEW u \in Thread PROVE WorkInv(u, l)' /\ RequestInv(u, l)'
  <2>1. WorkInv(u, l)'
    BY <1>1 DEF LockInv, WorkInv, infoVars, TypeOK
  <2>2. ClientOf[u] \in Client /\ (Waiting(u)' <=> Waiting(u))
    BY <1>1, LockAssumption, ZenonT(30) DEF Waiting, TypeOK
  <2>3. \A w \in Thread : AcquireMsg(w, l) \in msgs' <=> AcquireMsg(w, l) \in msgs
    BY <1>1, <1>2, MessageFields
  <2>4. RequestInv(u, l)'
    BY <1>1, <1>8, <1>9, <1>11, <2>2, <2>3, Zenon DEF LockInv, RequestInv, infoVars
  <2> QED BY <2>1, <2>4, Zenon
<1>15. ASSUME NEW u \in Thread, NEW w \in Thread PROVE AnswerInv(u, w, l)'
  BY <1>1, ZenonT(30) DEF LockInv, AnswerInv, TypeOK
<1>16. QueueInv(l)'
  BY <1>1, <1>8, <1>9, QueueFrame, Zenon DEF infoVars
<1>17. ASSUME NEW d \in Client
       PROVE  RecordInv(d, l)' /\ GrantInv(d, l)' /\ ReturnInv(d, l)' /\ RevokeInv(d, l)'
  <2>1. RecordInv(d, l) /\ GrantInv(d, l) /\ ReturnInv(d, l) /\ RevokeInv(d, l) /\ ReturnInv(c, l)
    BY <1>1, Zenon DEF LockInv
  <2>2. Released(d, l)' \/ Flushing(d, l)' <=> Released(d, l) \/ Flushing(d, l)
    BY <1>5, <1>6, <1>7, <2>1, Zenon DEF ReturnInv
  <2>3. RecordInv(d, l)'
    BY <1>1, <1>10, <2>1, <2>2, Zenon DEF RecordInv, infoVars
  <2>4. GrantInv(d, l)'
    BY <1>1, <1>2, <1>8, <1>9, <2>1, <2>2, Zenon DEF GrantInv, infoVars
  <2>5. ReturnInv(d, l)'
    <3>1. \A m \in msgs : m.type = "release" => m.lid # l
      BY <1>1, <1>5, ReleaseByHolder DEF LockInv, ReturnInv
    <3> QED BY <1>1, <1>2, <1>6, <2>1, <2>2, <3>1, ZenonT(60) DEF ReturnInv, infoVars, TypeOK
  <2>6. RevokeInv(d, l)'
    BY <1>1, <1>12, <1>13, <2>1, <2>2, Zenon DEF RevokeInv, infoVars
  <2> QED BY <2>3, <2>4, <2>5, <2>6, Zenon
<1> QED BY <1>3, <1>4, <1>14, <1>15, <1>16, <1>17, Zenon DEF Kept, LockInv

\* A thread begins to acquire, or comes back from the call of release.
LEMMA KeepBeginEnd ==
  ASSUME IndInv, TypeOK', NEW t \in Thread, NEW c \in Client, NEW l \in Lock,
         acquire(t, l) \/ (release_return(t) /\ l = lid[t]), c = ClientOf[t]
  PROVE  Kept(l)
<1>1. /\ TypeOK /\ LockInv(l) /\ \A u \in Thread : ThreadInv(u)
      /\ UNCHANGED <<holder, queue, revoked, revoke_queue, owned, acquiring, c_revoked,
                     awaiting_lock, c_holder, ret, held, msgs>>
  BY Zenon DEF IndInv, acquire, release_return, serverVars, infoVars
<1>2. \/ /\ pc[t] = "idle" /\ pc' = [pc EXCEPT ![t] = "start"] /\ lid' = [lid EXCEPT ![t] = l]
         /\ lock_list' = [lock_list EXCEPT ![c] = @ \cup {l}]
      \/ /\ pc[t] = "release" /\ pc' = [pc EXCEPT ![t] = "idle"] /\ lid[t] = l
         /\ lid' = [lid EXCEPT ![t] = FREE] /\ lock_list' = lock_list
  BY Zenon DEF acquire, release_return, infoVars
<1>3. ASSUME NEW u \in Thread PROVE ThreadInv(u)'
  BY <1>1, <1>2, LockAssumption DEF ThreadInv, TypeOK
<1>4. pc[t] = "idle" => lid[t] = FREE
  BY <1>1, Zenon DEF ThreadInv
<1>5. \A d \in Client, k \in Lock : /\ k \in lock_list[d] => k \in lock_list'[d]
                                    /\ k # l => (k \in lock_list'[d] <=> k \in lock_list[d])
  <2>1. lock_list \in [Client -> SUBSET Lock]
    BY <1>1, Zenon DEF TypeOK
  <2>2. CASE lock_list' = lock_list
    BY <2>2, Zenon
  <2>3. CASE lock_list' = [lock_list EXCEPT ![c] = @ \cup {l}]
    BY <2>1, <2>3, Zenon
  <2> QED BY <1>2, <2>2, <2>3, Zenon
<1>6. ASSUME NEW k \in Lock \ {l} PROVE SameLock(k)
  <2>1. \A u \in Thread : /\ lid'[u] = k <=> lid[u] = k
                          /\ lid[u] = k => pc'[u] = pc[u]
    BY <1>1, <1>2, <1>4, <1>6, LockAssumption DEF TypeOK
  <2>2. \A d \in Client : k \in lock_list'[d] <=> k \in lock_list[d]
    BY <1>5, <1>6, Zenon
  <2> QED BY <1>1, <2>1, <2>2, Zenon DEF SameLock
<1>7. SameMail(l)
  BY <1>1, Zenon DEF SameMail
<1>8. \A u \in Thread : /\ lid'[u] = l /\ u # t <=> lid[u] = l /\ u # t
                        /\ u # t => pc'[u] = pc[u]
  BY <1>2 DEF IndInv, TypeOK
<1>9. /\ pc'[t] \in {"start", "idle"} /\ pc[t] \in {"idle", "release"} /\ ret[t] = "none"
      /\ l \in lock_list'[c] \/ lid'[t] # l
  BY <1>1, <1>2, LockAssumption DEF ThreadInv, TypeOK
<1>10. \A d \in Client : Answered(d, l)' <=> Answered(d, l)
  BY <1>1, <1>8, <1>9, Zenon DEF Answered
<1>11. \A d \in Client : Flushing(d, l)' <=> Flushing(d, l)
  BY <1>8, <1>9, Zenon DEF Flushing
<1>12. \A d \in Client : Waiters(d, l)' = Waiters(d, l)
  BY <1>8, <1>9, Zenon DEF Waiters, Waiting
<1>13. ASSUME NEW u \in Thread PROVE WorkInv(u, l)'
  BY <1>1, <1>5, <1>8, <1>9, LockAssumption, ZenonT(30) DEF LockInv, WorkInv
<1>14. ASSUME NEW u \in Thread PROVE RequestInv(u, l)'
  <2>1. ClientOf[u] \in Client /\ (u # t => (Waiting(u)' <=> Waiting(u))) /\ ~ Waiting(t)
    BY <1>8, <1>9, LockAssumption, Zenon DEF Waiting
  <2> QED BY <1>1, <1>7, <1>8, <1>10, <2>1, MailFrame, Zenon DEF LockInv, RequestInv
<1>15. ASSUME NEW u \in Thread, NEW w \in Thread PROVE AnswerInv(u, w, l)'
  BY <1>1, <1>8, <1>9, Zenon DEF LockInv, AnswerInv
<1>16. QueueInv(l)'
  BY <1>1, <1>5, <1>7, <1>10, MailFrame, QueueFrame, ZenonT(30)
<1>17. ASSUME NEW d \in Client
       PROVE  RecordInv(d, l)' /\ GrantInv(d, l)' /\ ReturnInv(d, l)' /\ RevokeInv(d, l)'
  <2>1. RecordInv(d, l) /\ GrantInv(d, l) /\ ReturnInv(d, l) /\ RevokeInv(d, l)
    BY <1>1, ZenonT(30) DEF LockInv
  <2>2. RecordInv(d, l)'
    BY <1>1, <1>5, <1>7, <1>11, <1>12, <2>1, MailFrame, ZenonT(30) DEF RecordInv
  <2>3. GrantInv(d, l)'
    BY <1>1, <1>7, <1>10, <1>11, <2>1, MailFrame, ZenonT(30) DEF GrantInv
  <2>4. ReturnInv(d, l)'
    BY <1>1, <1>7, <1>8, <1>9, <1>11, <2>1, MailFrame, ZenonT(30) DEF ReturnInv
  <2>5. RevokeInv(d, l)'
    BY <1>1, <1>7, <1>11, <2>1, MailFrame, ZenonT(30) DEF RevokeInv
  <2> QED BY <2>2, <2>3, <2>4, <2>5, Zenon
<1> QED BY <1>3, <1>6, <1>13, <1>14, <1>15, <1>16, <1>17, Zenon DEF Kept, LockInv

\* A thread in acquire is counted and waits, or takes the lock and is not.
TakeStep(t, c, l) ==
  /\ lid[t] = l /\ pc[t] \in {"start", "got", "wait_owned", "wait_holder"}
  /\ awaiting_lock' = [awaiting_lock EXCEPT ![c][l] = Cardinality(Waiters(c, l)')]
  /\ \/ /\ \E s \in {"get", "wait_owned", "wait_holder"} :
             pc' = [pc EXCEPT ![t] = s] /\ (s = "wait_holder" => owned[c][l])
        /\ UNCHANGED <<c_holder, lid, held>>
     \/ /\ owned[c][l] /\ c_holder[c][l] = FREE
        /\ pc' = [pc EXCEPT ![t] = "idle"] /\ lid' = [lid EXCEPT ![t] = FREE]
        /\ c_holder' = [c_holder EXCEPT ![c][l] = t]
        /\ held' = [held EXCEPT ![t] = @ \cup {l}]
  /\ UNCHANGED <<holder, queue, revoked, revoke_queue, lock_list, owned, acquiring, c_revoked,
                 ret, msgs>>

\* acquire() counts the thread in awaiting_lock before it waits.
LEMMA WaiterComes ==
  ASSUME IndInv, TypeOK', NEW t \in Thread, NEW c \in Client, NEW l \in Lock,
         c = ClientOf[t], l = lid[t], lid' = lid,
         NEW s \in {"get", "wait_owned", "wait_holder"}, pc' = [pc EXCEPT ![t] = s]
  PROVE  /\ Waiting(t) => Cardinality(Waiters(c, l)') = awaiting_lock[c][l]
         /\ ~ Waiting(t) => Cardinality(Waiters(c, l)') = awaiting_lock[c][l] + 1
<1>1. awaiting_lock[c][l] = Cardinality(Waiters(c, l)) /\ IsFiniteSet(Waiters(c, l))
  BY WaitersAreFinite, Zenon DEF IndInv, LockInv, RecordInv
<1>2. Waiters(c, l)' = Waiters(c, l) \cup {t}
  BY DEF Waiters, Waiting, IndInv, TypeOK
<1>3. t \in Waiters(c, l) <=> Waiting(t)
  BY Zenon DEF Waiters
<1>4. /\ t \in Waiters(c, l) => Cardinality(Waiters(c, l) \cup {t}) = Cardinality(Waiters(c, l))
      /\ t \notin Waiters(c, l)
           => Cardinality(Waiters(c, l) \cup {t}) = Cardinality(Waiters(c, l)) + 1
  BY <1>1, FS_AddElement, ZenonT(30)
<1> QED BY <1>1, <1>2, <1>3, <1>4, Zenon

\* acquire() takes the thread out of awaiting_lock when it returns.
LEMMA WaiterLeaves ==
  ASSUME IndInv, TypeOK', NEW t \in Thread, NEW c \in Client, NEW l \in Lock,
         c = ClientOf[t], l = lid[t], pc' = [pc EXCEPT ![t] = "idle"],
         lid' = [lid EXCEPT ![t] = FREE]
  PROVE  /\ Waiting(t) => Cardinality(Waiters(c, l)') = awaiting_lock[c][l] - 1
         /\ ~ Waiting(t) => Cardinality(Waiters(c, l)') = awaiting_lock[c][l]
<1>1. awaiting_lock[c][l] = Cardinality(Waiters(c, l)) /\ IsFiniteSet(Waiters(c, l))
  BY WaitersAreFinite, Zenon DEF IndInv, LockInv, RecordInv
<1>2. Waiters(c, l)' = Waiters(c, l) \ {t}
  BY Zenon DEF Waiters, Waiting, IndInv, TypeOK
<1>3. t \in Waiters(c, l) <=> Waiting(t)
  BY Zenon DEF Waiters
<1>4. /\ t \in Waiters(c, l)
           => Cardinality(Waiters(c, l) \ {t}) = Cardinality(Waiters(c, l)) - 1
      /\ t \notin Waiters(c, l) => Cardinality(Waiters(c, l) \ {t}) = Cardinality(Waiters(c, l))
  BY <1>1, FS_RemoveElement, ZenonT(30)
<1> QED BY <1>1, <1>2, <1>3, <1>4, Zenon

\* Between the two, awaiting_lock counts the threads of acquire().
LEMMA TakeIsCounted ==
  ASSUME IndInv, TypeOK', NEW t \in Thread, NEW c \in Client, NEW l \in Lock,
         acquire_wait(t) \/ acquire_take(t), c = ClientOf[t], l = lid[t]
  PROVE  TakeStep(t, c, l)
<1> DEFINE n == IF Waiting(t) THEN awaiting_lock[c][l] ELSE awaiting_lock[c][l] + 1
<1>1. /\ pc[t] \in {"start", "got", "wait_owned", "wait_holder"}
      /\ pc[t] = "wait_holder" => owned[c][l]
      /\ UNCHANGED <<holder, queue, revoked, revoke_queue, lock_list, owned, acquiring, c_revoked,
                     ret, msgs>>
  BY Zenon DEF acquire_wait, acquire_take, serverVars, IndInv, LockInv, WorkInv
<1>2. awaiting_lock[c][l] \in Nat
  BY DEF IndInv, TypeOK
<1>3. n \in Nat /\ (pc[t] = "start" => n = Announced(t))
      /\ (pc[t] # "start" => n = awaiting_lock[c][l])
  BY <1>1, <1>2 DEF Waiting, Announced
<1>4. \/ /\ \E s \in {"get", "wait_owned", "wait_holder"} :
              pc' = [pc EXCEPT ![t] = s] /\ (s = "wait_holder" => owned[c][l])
         /\ awaiting_lock' = [awaiting_lock EXCEPT ![c][l] = n]
         /\ UNCHANGED <<c_holder, lid, held>>
      \/ /\ owned[c][l] /\ c_holder[c][l] = FREE
         /\ pc' = [pc EXCEPT ![t] = "idle"] /\ lid' = [lid EXCEPT ![t] = FREE]
         /\ awaiting_lock' = [awaiting_lock EXCEPT ![c][l] = n - 1]
         /\ c_holder' = [c_holder EXCEPT ![c][l] = t]
         /\ held' = [held EXCEPT ![t] = @ \cup {l}]
  <2>1. CASE acquire_wait(t)
    <3>1. pc[t] = "start"
      BY <2>1, Zenon DEF acquire_wait
    <3> QED BY <2>1, <3>1, <1>3, Zenon DEF acquire_wait, TakeOrWait
  <2>2. CASE acquire_take(t) /\ pc[t] # "wait_holder"
    BY <2>2, <1>1, <1>3, ZenonT(30) DEF acquire_take, TakeOrWait
  <2>3. CASE acquire_take(t) /\ pc[t] = "wait_holder"
    <3>1. [awaiting_lock EXCEPT ![c][l] = awaiting_lock[c][l] - 1]
            = [awaiting_lock EXCEPT ![c][l] = @ - 1]
      BY Zenon DEF IndInv, TypeOK
    <3> QED BY <2>3, <3>1, <1>1, <1>3, Zenon DEF acquire_take, HolderLeft
  <2> QED BY <2>1, <2>2, <2>3, Zenon
<1>5. n \in Nat /\ (Waiting(t) => n = awaiting_lock[c][l])
      /\ (~ Waiting(t) => n = awaiting_lock[c][l] + 1)
  BY <1>2
<1> HIDE DEF n
<1>6. ASSUME NEW s \in {"get", "wait_owned", "wait_holder"},
             pc' = [pc EXCEPT ![t] = s], s = "wait_holder" => owned[c][l],
             awaiting_lock' = [awaiting_lock EXCEPT ![c][l] = n], UNCHANGED <<c_holder, lid, held>>
      PROVE  TakeStep(t, c, l)
  <2>1. n = Cardinality(Waiters(c, l)')
    BY <1>5, <1>6, WaiterComes, ZenonT(30)
  <2> QED BY <1>1, <1>6, <2>1, ZenonT(30) DEF TakeStep
<1>7. ASSUME pc' = [pc EXCEPT ![t] = "idle"], lid' = [lid EXCEPT ![t] = FREE],
             awaiting_lock' = [awaiting_lock EXCEPT ![c][l] = n - 1]
      PROVE  n - 1 = Cardinality(Waiters(c, l)')
  <2>1. /\ Waiting(t) => Cardinality(Waiters(c, l)') = awaiting_lock[c][l] - 1
        /\ ~ Waiting(t) => Cardinality(Waiters(c, l)') = awaiting_lock[c][l]
    BY <1>7, WaiterLeaves, ZenonT(30)
  <2> QED BY <1>2, <1>5, <2>1
<1> QED BY <1>1, <1>4, <1>6, <1>7, Zenon DEF TakeStep

\* A thread of acquire() that finds the lock owned and free takes it.
LEMMA KeepTake ==
  ASSUME IndInv, TypeOK', NEW t \in Thread, NEW c \in Client, NEW l \in Lock,
         TakeStep(t, c, l), c = ClientOf[t]
  PROVE  Kept(l)
<1>1. /\ TypeOK /\ LockInv(l) /\ \A u \in Thread : ThreadInv(u)
      /\ lid[t] = l /\ pc[t] \in {"start", "got", "wait_owned", "wait_holder"}
      /\ UNCHANGED <<holder, queue, revoked, revoke_queue, lock_list, owned, acquiring, c_revoked,
                     ret, msgs>>
  BY Zenon DEF IndInv, TakeStep
<1>2. \/ /\ pc'[t] \in {"get", "wait_owned", "wait_holder"}
         /\ pc'[t] = "wait_holder" => owned[c][l]
         /\ lid'[t] = l /\ held'[t] = held[t] /\ c_holder'[c][l] = c_holder[c][l]
      \/ /\ pc'[t] = "idle" /\ lid'[t] = FREE /\ held'[t] = held[t] \cup {l}
         /\ c_holder'[c][l] = t /\ owned[c][l] /\ c_holder[c][l] = FREE
  BY <1>1 DEF TakeStep, TypeOK
<1>3. /\ \A u \in Thread \ {t} : pc'[u] = pc[u] /\ lid'[u] = lid[u] /\ held'[u] = held[u]
      /\ \A d \in Client, k \in Lock : d # c \/ k # l =>
           c_holder'[d][k] = c_holder[d][k] /\ awaiting_lock'[d][k] = awaiting_lock[d][k]
      /\ awaiting_lock'[c][l] = Cardinality(Waiters(c, l)')
  <2>1. \A u \in Thread \ {t} : pc'[u] = pc[u] /\ lid'[u] = lid[u] /\ held'[u] = held[u]
    BY <1>1 DEF TakeStep, TypeOK
  <2>2. /\ \A d \in Client, k \in Lock : d # c \/ k # l =>
             awaiting_lock'[d][k] = awaiting_lock[d][k]
        /\ awaiting_lock'[c][l] = Cardinality(Waiters(c, l)')
    BY <1>1 DEF TakeStep, TypeOK
  <2>3. \A d \in Client, k \in Lock : d # c \/ k # l => c_holder'[d][k] = c_holder[d][k]
    BY <1>1 DEF TakeStep, TypeOK
  <2> QED BY <2>1, <2>2, <2>3, ZenonT(30)
<1>4. ret[t] = "none" /\ l # FREE /\ t # FREE
  BY <1>1, LockAssumption, Zenon DEF ThreadInv, TypeOK
<1>5. ASSUME NEW u \in Thread PROVE ThreadInv(u)'
  <2>1. ThreadInv(u) /\ ret'[u] = ret[u]
    BY <1>1, Zenon
  <2>2. CASE u = t
    BY <1>2, <1>4, <2>1, <2>2, Zenon DEF ThreadInv
  <2>3. CASE u # t
    BY <1>3, <2>1, <2>3, Zenon DEF ThreadInv
  <2> QED BY <2>2, <2>3, Zenon
<1>6. ASSUME NEW k \in Lock \ {l} PROVE SameLock(k)
  <2>1. \A u \in Thread : /\ lid'[u] = k <=> lid[u] = k
                          /\ lid[u] = k => pc'[u] = pc[u]
                          /\ k \in held'[u] <=> k \in held[u]
    BY <1>1, <1>2, <1>3, <1>6, LockAssumption
  <2> QED BY <1>1, <1>3, <2>1, Zenon DEF SameLock
<1>7. SameMail(l)
  BY <1>1, Zenon DEF SameMail
<1>8. \A d \in Client : /\ Answered(d, l)' <=> Answered(d, l)
                        /\ Flushing(d, l)' <=> Flushing(d, l)
  BY <1>1, <1>2, <1>3, <1>4 DEF Answered, Flushing
<1>9. \A d \in Client \ {c} : Waiters(d, l)' = Waiters(d, l)
  BY <1>3, ZenonT(30) DEF Waiters, Waiting
<1>10. AcquireMsg(t, l) \in msgs => lid'[t] = l /\ Waiting(t)'
  <2>1. AcquireMsg(t, l) \in msgs => acquiring[c][l] /\ ~ owned[c][l]
    BY <1>1, Zenon DEF LockInv, RequestInv, RecordInv
  <2> QED BY <1>2, <2>1, Zenon DEF Waiting
<1>11. ASSUME NEW u \in Thread PROVE WorkInv(u, l)'
  <2>1. WorkInv(u, l) /\ ClientOf[u] \in Client /\ c_holder[c][l] \in Thread \cup {FREE}
    BY <1>1, LockAssumption DEF LockInv, TypeOK
  <2>2. CASE u = t
    BY <1>1, <1>2, <2>1, <2>2, ZenonT(30) DEF WorkInv
  <2>3. CASE u # t
    <3>1. lid'[u] = lid[u] /\ pc'[u] = pc[u] /\ held'[u] = held[u] /\ u # FREE
      BY <1>3, <2>3, LockAssumption, ZenonT(30)
    <3>2. l \in held[u] => c_holder'[ClientOf[u]][l] = u
      <4>1. CASE ClientOf[u] = c
        BY <1>2, <2>1, <2>3, <3>1, <4>1, ZenonT(30) DEF WorkInv
      <4>2. CASE ClientOf[u] # c
        BY <1>3, <2>1, <4>2, Zenon DEF WorkInv
      <4> QED BY <4>1, <4>2, Zenon
    <3> QED BY <1>1, <2>1, <3>1, <3>2, ZenonT(30) DEF WorkInv
  <2> QED BY <2>2, <2>3, Zenon
<1>12. ASSUME NEW u \in Thread PROVE RequestInv(u, l)'
  <2>1. ClientOf[u] \in Client /\ (u # t => (Waiting(u)' <=> Waiting(u)))
    BY <1>3, LockAssumption, Zenon DEF Waiting
  <2> QED BY <1>1, <1>3, <1>7, <1>8, <1>10, <2>1, MailFrame, ZenonT(30) DEF LockInv, RequestInv
<1>13. ASSUME NEW u \in Thread, NEW w \in Thread PROVE AnswerInv(u, w, l)'
  BY <1>1, <1>2, <1>3, SMTT(30) DEF LockInv, AnswerInv
<1>14. QueueInv(l)'
  BY <1>1, <1>7, <1>8, MailFrame, QueueFrame, ZenonT(30)
<1>15. ASSUME NEW d \in Client
       PROVE  RecordInv(d, l)' /\ GrantInv(d, l)' /\ ReturnInv(d, l)' /\ RevokeInv(d, l)'
  <2>1. RecordInv(d, l) /\ GrantInv(d, l) /\ ReturnInv(d, l) /\ RevokeInv(d, l)
    BY <1>1, ZenonT(30) DEF LockInv
  <2>2. RecordInv(d, l)'
    <3>1. awaiting_lock'[d][l] = Cardinality(Waiters(d, l)')
      BY <1>3, <1>9, <2>1, ZenonT(30) DEF RecordInv
    <3>2. c_holder'[d][l] # FREE => /\ owned[d][l] /\ ClientOf[c_holder'[d][l]] = d
                                    /\ l \in held'[c_holder'[d][l]]
      <4>1. \A u \in Thread : l \in held[u] => l \in held'[u]
        BY <1>2, <1>3, Zenon
      <4>2. c_holder[d][l] \in Thread \cup {FREE}
        BY <1>1 DEF TypeOK
      <4>3. CASE c_holder'[d][l] = c_holder[d][l]
        BY <2>1, <4>1, <4>2, <4>3, ZenonT(30) DEF RecordInv
      <4>4. CASE c_holder'[d][l] # c_holder[d][l]
        BY <1>2, <1>3, <4>4
      <4> QED BY <4>3, <4>4, Zenon
    <3> QED BY <1>1, <1>7, <1>8, <2>1, <3>1, <3>2, MailFrame, ZenonT(30) DEF RecordInv
  <2>3. GrantInv(d, l)'
    BY <1>1, <1>7, <1>8, <2>1, MailFrame, ZenonT(30) DEF GrantInv
  <2>4. ReturnInv(d, l)'
    <3>1. \A u \in Thread : pc'[u] = "flush" /\ lid'[u] = l => pc[u] = "flush" /\ lid[u] = l
      BY <1>2, <1>3, ZenonT(30)
    <3>2. Released(d, l)' <=> Released(d, l)
      BY <1>7, <1>1, MailFrame, ZenonT(30)
    <3> QED BY <1>1, <1>8, <2>1, <3>1, <3>2, Zenon DEF ReturnInv
  <2>5. RevokeInv(d, l)'
    BY <1>1, <1>7, <1>8, <2>1, MailFrame, ZenonT(30) DEF RevokeInv
  <2> QED BY <2>2, <2>3, <2>4, <2>5, Zenon
<1> QED BY <1>5, <1>6, <1>11, <1>12, <1>13, <1>14, <1>15, Zenon DEF Kept, LockInv

\* A thread asks the server, or finds that it need not.
LEMMA KeepAcquireLock ==
  ASSUME IndInv, TypeOK', NEW t \in Thread, NEW c \in Client, NEW l \in Lock,
         acquire_lock(t), c = ClientOf[t], l = lid[t]
  PROVE  Kept(l)
<1> DEFINE r == AcquireMsg(t, l)
<1>1. /\ TypeOK /\ LockInv(l) /\ \A u \in Thread : ThreadInv(u)
      /\ pc[t] = "get" /\ lid[t] = l
      /\ UNCHANGED <<holder, queue, revoked, revoke_queue, lock_list, owned, c_revoked,
                     awaiting_lock, c_holder, lid, ret, held>>
  BY Zenon DEF IndInv, acquire_lock, serverVars
<1>2. \/ /\ ~ acquiring[c][l] /\ ~ owned[c][l] /\ msgs' = msgs \cup {r} /\ pc'[t] = "acquire"
         /\ acquiring' = [acquiring EXCEPT ![c][l] = TRUE]
      \/ pc'[t] = "got" /\ msgs' = msgs /\ acquiring' = acquiring
  BY <1>1, Zenon DEF acquire_lock, TypeOK
<1>3. /\ \A u \in Thread \ {t} : pc'[u] = pc[u]
      /\ pc'[t] \in {"acquire", "got"} /\ ret[t] = "none"
  BY <1>1, <1>2, ZenonT(30) DEF acquire_lock, TypeOK, ThreadInv
<1>4. /\ \A d \in Client, k \in Lock : d # c \/ k # l => acquiring'[d][k] = acquiring[d][k]
      /\ acquiring[c][l] => acquiring'[c][l]
      /\ acquiring'[c][l] => acquiring[c][l] \/ ~ owned[c][l]
      /\ pc'[t] = "acquire" => acquiring'[c][l]
  <2>1. acquiring \in [Client -> [Lock -> BOOLEAN]]
    BY <1>1, Zenon DEF TypeOK
  <2>2. CASE acquiring' = acquiring /\ pc'[t] = "got"
    BY <2>2, Zenon
  <2>3. CASE ~ owned[c][l] /\ acquiring' = [acquiring EXCEPT ![c][l] = TRUE]
    <3>1. acquiring'[c][l] = TRUE
      BY <2>1, <2>3, RecordValue, ZenonT(30)
    <3>2. SameElsewhere(acquiring, acquiring', c, l)
      BY <2>1, <2>3, RecordValue, ZenonT(30)
    <3> QED BY <3>1, <3>2, <2>3, ZenonT(30) DEF SameElsewhere
  <2> QED BY <1>2, <2>2, <2>3, Zenon
<1>5. r.type = "acquire" /\ r.lid = l /\ r.t = t
  BY MessageFields
<1>6. ASSUME NEW u \in Thread
      PROVE  AcquireMsg(u, l) \in msgs' <=> \/ AcquireMsg(u, l) \in msgs
                                            \/ u = t /\ pc'[t] = "acquire"
  BY <1>2, <1>3, <1>5, MessageFields
<1> HIDE DEF r
<1>7. \A m \in msgs' : m \notin msgs => m.type = "acquire" /\ m.lid = l
  BY <1>2, <1>5, Zenon
<1>8. msgs \subseteq msgs'
  BY <1>2, Zenon
<1>9. ASSUME NEW u \in Thread PROVE ThreadInv(u)'
  BY <1>1, <1>3, Zenon DEF ThreadInv
<1>10. ASSUME NEW k \in Lock \ {l} PROVE SameLock(k)
  BY <1>1, <1>3, <1>4, <1>7, <1>8, <1>10, ZenonT(30) DEF SameLock
<1>11. \A d \in Client : /\ Retried(d, l)' <=> Retried(d, l)
                         /\ Released(d, l)' <=> Released(d, l)
                         /\ RevokeMsg(d, l) \in msgs' <=> RevokeMsg(d, l) \in msgs
  <2>1. \A d \in Client : RevokeMsg(d, l).type # "acquire"
    BY MessageFields, ZenonT(30)
  <2> QED BY <1>7, <1>8, <2>1, Zenon DEF Retried, Released
<1>12. \A d \in Client : /\ Answered(d, l)' <=> Answered(d, l)
                         /\ Flushing(d, l)' <=> Flushing(d, l)
                         /\ Queued(d, l)' <=> Queued(d, l)
  BY <1>1, <1>3, ZenonT(30) DEF Answered, Flushing, Queued
<1>13. \A d \in Client : Asked(d, l)' <=> Asked(d, l)
  BY <1>1, <1>11, ZenonT(30) DEF Asked
<1>14. \A d \in Client : Waiters(d, l)' = Waiters(d, l)
  BY <1>1, <1>3, ZenonT(30) DEF Waiters, Waiting
<1>15. pc'[t] = "acquire" =>
         /\ ~ acquiring[c][l] /\ ~ owned[c][l]
         /\ ~ Queued(c, l) /\ ~ Retried(c, l) /\ ~ Answered(c, l)
         /\ \A u \in Thread : ClientOf[u] = c => AcquireMsg(u, l) \notin msgs
         /\ \A u \in Thread : ClientOf[u] = c /\ lid[u] = l => pc[u] # "acquire"
  <2>1. pc'[t] = "acquire" => ~ acquiring[c][l] /\ ~ owned[c][l]
    BY <1>2, Zenon
  <2>2. ~ acquiring[c][l] => ~ Queued(c, l)
    BY <1>1, ZenonT(30) DEF LockInv, QueueInv, Queued
  <2>3. ~ acquiring[c][l] => ~ Retried(c, l) /\ ~ Answered(c, l)
    BY <1>1, ZenonT(30) DEF LockInv, GrantInv
  <2> QED BY <1>1, <2>1, <2>2, <2>3, ZenonT(30) DEF LockInv, RequestInv, WorkInv
<1>16. ASSUME NEW u \in Thread PROVE WorkInv(u, l)'
  <2>1. WorkInv(u, l) /\ ClientOf[u] \in Client
    BY <1>1, LockAssumption, ZenonT(30) DEF LockInv
  <2> QED BY <1>1, <1>3, <1>4, <2>1, ZenonT(30) DEF WorkInv
<1>17. ASSUME NEW u \in Thread PROVE RequestInv(u, l)'
  <2>1. ClientOf[u] \in Client /\ (u # t => (Waiting(u)' <=> Waiting(u))) /\ Waiting(t)'
    BY <1>3, LockAssumption, ZenonT(30) DEF Waiting
  <2>2. RequestInv(u, l)
    BY <1>1, Zenon DEF LockInv
  <2> QED BY <1>1, <1>3, <1>4, <1>6, <1>11, <1>12, <1>15, <2>1, <2>2, ZenonT(30) DEF RequestInv
<1>18. ASSUME NEW u \in Thread, NEW w \in Thread PROVE AnswerInv(u, w, l)'
  <2>1. AnswerInv(u, w, l)
    BY <1>1, Zenon DEF LockInv
  <2>2. CASE u = t \/ w = t
    BY <1>1, <1>3, <1>15, <2>2, SMTT(30) DEF AnswerInv
  <2>3. CASE u # t /\ w # t
    BY <1>1, <1>3, <2>1, <2>3, ZenonT(30) DEF AnswerInv
  <2> QED BY <2>2, <2>3, Zenon
<1>19. QueueInv(l)'
  BY <1>1, <1>4, <1>11, <1>12, QueueFrame, ZenonT(30)
<1>20. ASSUME NEW d \in Client
       PROVE  RecordInv(d, l)' /\ GrantInv(d, l)' /\ ReturnInv(d, l)' /\ RevokeInv(d, l)'
  <2>1. RecordInv(d, l) /\ GrantInv(d, l) /\ ReturnInv(d, l) /\ RevokeInv(d, l)
    BY <1>1, ZenonT(30) DEF LockInv
  <2>2. RecordInv(d, l)'
    BY <1>1, <1>4, <1>11, <1>12, <1>14, <2>1, ZenonT(30) DEF RecordInv
  <2>3. GrantInv(d, l)'
    BY <1>1, <1>4, <1>7, <1>11, <1>12, <2>1, ZenonT(30) DEF GrantInv
  <2>4. ReturnInv(d, l)'
    <3>1. \A u \in Thread : pc'[u] = "flush" => pc[u] = "flush"
      BY <1>3, Zenon
    <3>2. \A m \in msgs' : m.type = "release" => m \in msgs
      BY <1>7, Zenon
    <3> QED BY <1>1, <1>11, <1>12, <2>1, <3>1, <3>2, ZenonT(30) DEF ReturnInv
  <2>5. RevokeInv(d, l)'
    BY <1>1, <1>11, <1>12, <1>13, <2>1, ZenonT(30) DEF RevokeInv
  <2> QED BY <2>2, <2>3, <2>4, <2>5, Zenon
<1> QED BY <1>9, <1>10, <1>16, <1>17, <1>18, <1>19, <1>20, ZenonT(30) DEF Kept, LockInv

AnswerOutcome(t, c, l) ==
  \/ owned' = owned /\ acquiring' = acquiring
  \/ /\ ret[t] = "OK" /\ owned' = [owned EXCEPT ![c][l] = TRUE]
     /\ acquiring' = [acquiring EXCEPT ![c][l] = FALSE]

\* The answer OK makes the client the owner; any other answer changes nothing,
\* since acquire_lock set the flag of the request before it called.
LEMMA AnswerTaken ==
  ASSUME IndInv, TypeOK', NEW t \in Thread, NEW c \in Client, NEW l \in Lock,
         acquire_lock_return(t), c = ClientOf[t], l = lid[t]
  PROVE  AnswerOutcome(t, c, l)
<1>1. /\ pc[t] = "acquire" /\ owned \in [Client -> [Lock -> BOOLEAN]]
      /\ acquiring \in [Client -> [Lock -> BOOLEAN]]
  BY ZenonT(30) DEF acquire_lock_return, IndInv, TypeOK
<1>2. owned[c][l] \/ acquiring[c][l]
  BY <1>1, ZenonT(30) DEF IndInv, LockInv, WorkInv
<1>3. \/ owned' = owned /\ acquiring' = acquiring
      \/ /\ ret[t] = "OK" /\ owned' = [owned EXCEPT ![c][l] = TRUE]
         /\ acquiring' = [acquiring EXCEPT ![c][l] = FALSE]
      \/ /\ ~ owned[c][l] /\ owned' = [owned EXCEPT ![c][l] = FALSE]
         /\ acquiring' = [acquiring EXCEPT ![c][l] = TRUE]
  BY Zenon DEF acquire_lock_return, RetryBeatAcquire
<1>4. ~ owned[c][l] => [owned EXCEPT ![c][l] = FALSE] = owned
  <2>1. owned[c] \in [Lock -> BOOLEAN] /\ owned[c][l] \in BOOLEAN
    BY <1>1, Zenon
  <2>2. ~ owned[c][l] => owned[c][l] = FALSE
    BY <2>1, Zenon
  <2>3. owned[c][l] = FALSE => [owned[c] EXCEPT ![l] = FALSE] = owned[c]
    BY <2>1, ZenonT(30)
  <2> QED BY <1>1, <2>2, <2>3, Zenon
<1>5. acquiring[c][l] => [acquiring EXCEPT ![c][l] = TRUE] = acquiring
  BY <1>1, ZenonT(30)
<1> QED BY <1>2, <1>3, <1>4, <1>5, Zenon DEF AnswerOutcome

\* The answer of the server: OK makes the client own the lock, RETRY does not.
LEMMA KeepAcquireLockReturn ==
  ASSUME IndInv, TypeOK', NEW t \in Thread, NEW c \in Client, NEW l \in Lock,
         acquire_lock_return(t), c = ClientOf[t], l = lid[t]
  PROVE  Kept(l)
<1>1. /\ TypeOK /\ LockInv(l) /\ \A u \in Thread : ThreadInv(u)
      /\ pc[t] = "acquire" /\ lid[t] = l
      /\ UNCHANGED <<holder, queue, revoked, revoke_queue, lock_list, c_revoked,
                     awaiting_lock, c_holder, lid, held, msgs>>
  BY Zenon DEF IndInv, acquire_lock_return, serverVars
<1>2. /\ \A u \in Thread \ {t} : pc'[u] = pc[u] /\ ret'[u] = ret[u]
      /\ pc'[t] = "got" /\ ret'[t] = "none"
  BY <1>1, ZenonT(30) DEF acquire_lock_return, TypeOK
<1>3. ret[t] = "OK" =>
        /\ holder[l] = c /\ Answered(c, l) /\ ~ Retried(c, l) /\ ~ Queued(c, l)
        /\ ~ Released(c, l) /\ ~ Flushing(c, l)
        /\ \A u \in Thread : ClientOf[u] = c => AcquireMsg(u, l) \notin msgs
  <2>1. ret[t] = "OK" => Answered(c, l)
    BY <1>1, ZenonT(30) DEF Answered
  <2>2. Answered(c, l) => ~ Queued(c, l)
    BY <1>1, ZenonT(30) DEF LockInv, QueueInv, Queued
  <2> QED BY <1>1, <2>1, <2>2, ZenonT(30) DEF LockInv, GrantInv, RequestInv
<1>4. /\ SameElsewhere(acquiring, acquiring', c, l) /\ SameElsewhere(owned, owned', c, l)
      /\ \/ acquiring'[c][l] = acquiring[c][l] /\ owned'[c][l] = owned[c][l]
         \/ ret[t] = "OK" /\ ~ acquiring'[c][l] /\ owned'[c][l]
  <2>1. acquiring \in [Client -> [Lock -> BOOLEAN]] /\ owned \in [Client -> [Lock -> BOOLEAN]]
    BY <1>1, Zenon DEF TypeOK
  <2>2. CASE acquiring' = acquiring /\ owned' = owned
    BY <2>2, Zenon DEF SameElsewhere
  <2>3. CASE /\ ret[t] = "OK" /\ owned' = [owned EXCEPT ![c][l] = TRUE]
             /\ acquiring' = [acquiring EXCEPT ![c][l] = FALSE]
    <3>1. SameElsewhere(acquiring, acquiring', c, l)
      BY <2>1, <2>3, ZenonT(30) DEF SameElsewhere
    <3>2. SameElsewhere(owned, owned', c, l)
      BY <2>1, <2>3, ZenonT(30) DEF SameElsewhere
    <3>3. ~ acquiring'[c][l] /\ owned'[c][l]
      BY <2>1, <2>3, Zenon
    <3> QED BY <2>3, <3>1, <3>2, <3>3, ZenonT(30)
  <2>4. AnswerOutcome(t, c, l)
    BY AnswerTaken, Zenon
  <2> QED BY <2>2, <2>3, <2>4, Zenon DEF AnswerOutcome
<1>5. owned[c][l] => owned'[c][l]
  BY <1>4, ZenonT(30)
<1>6. SameMail(l)
  BY <1>1, Zenon DEF SameMail
<1>7. ASSUME NEW u \in Thread PROVE ThreadInv(u)'
  BY <1>1, <1>2, LockAssumption, ZenonT(30) DEF ThreadInv
<1>8. ASSUME NEW k \in Lock \ {l} PROVE SameLock(k)
  BY <1>1, <1>2, <1>4, <1>8, ZenonT(30) DEF SameLock, SameElsewhere
<1>9. \A d \in Client : /\ Answered(d, l)' => Answered(d, l) /\ d # c
                        /\ d # c => (Answered(d, l)' <=> Answered(d, l))
  <2>1. \A u \in Thread : ret[u] = "OK" /\ ClientOf[u] = c /\ lid[u] = l => u = t
    BY <1>1, ZenonT(30) DEF LockInv, AnswerInv, ThreadInv
  <2> QED BY <1>1, <1>2, <2>1, ZenonT(30) DEF Answered
<1>10. \A d \in Client : Flushing(d, l)' <=> Flushing(d, l)
  BY <1>1, <1>2, Zenon DEF Flushing
<1>11. \A d \in Client : Waiters(d, l)' = Waiters(d, l)
  BY <1>1, <1>2, Zenon DEF Waiters, Waiting
<1>12. ASSUME NEW u \in Thread PROVE WorkInv(u, l)'
  <2>1. WorkInv(u, l) /\ ClientOf[u] \in Client
    BY <1>1, LockAssumption, ZenonT(30) DEF LockInv
  <2>2. acquiring[ClientOf[u]][l] \/ owned[ClientOf[u]][l]
          => acquiring'[ClientOf[u]][l] \/ owned'[ClientOf[u]][l]
    BY <1>4, <2>1, ZenonT(30) DEF SameElsewhere
  <2> QED BY <1>1, <1>2, <1>4, <1>5, <2>1, <2>2, ZenonT(30) DEF WorkInv, SameElsewhere
<1>13. ASSUME NEW u \in Thread PROVE RequestInv(u, l)'
  <2>1. ClientOf[u] \in Client /\ (Waiting(u)' <=> Waiting(u))
    BY <1>1, <1>2, LockAssumption, ZenonT(30) DEF Waiting
  <2>2. RequestInv(u, l)
    BY <1>1, ZenonT(30) DEF LockInv
  <2> QED BY <1>1, <1>2, <1>3, <1>4, <1>6, <1>9, <2>1, <2>2, MailFrame, ZenonT(30)
        DEF RequestInv, SameElsewhere
<1>14. ASSUME NEW u \in Thread, NEW w \in Thread PROVE AnswerInv(u, w, l)'
  BY <1>1, <1>2, ZenonT(30) DEF LockInv, AnswerInv
<1>15. QueueInv(l)'
  <2>1. queue[l] \in Seq(Client) /\ QueueInv(l)
    BY <1>1, Zenon DEF TypeOK, LockInv
  <2>2. \A i \in 1 .. Len(queue[l]) : acquiring'[queue[l][i]][l]
    <3>1. ASSUME NEW i \in 1 .. Len(queue[l]) PROVE acquiring'[queue[l][i]][l]
      <4>1. acquiring[queue[l][i]][l] /\ queue[l][i] \in Client
        BY <2>1 DEF QueueInv
      <4>2. CASE queue[l][i] = c
        BY <1>3, <1>4, <4>1, <4>2, ZenonT(30) DEF Queued
      <4> QED BY <1>4, <4>1, <4>2, ZenonT(30) DEF SameElsewhere
    <3> QED BY <3>1, Zenon
  <2>3. \A i \in 1 .. Len(queue[l]) : ~ Retried(queue[l][i], l)' /\ ~ Answered(queue[l][i], l)'
    <3>1. \A d \in Client : (Retried(d, l)' => Retried(d, l)) /\ (Answered(d, l)' => Answered(d, l))
      BY <1>1, <1>6, <1>9, MailFrame, ZenonT(30)
    <3>2. \A i \in 1 .. Len(queue[l]) : queue[l][i] \in Client
      BY <2>1
    <3> QED BY <1>1, <2>1, <3>1, <3>2, ZenonT(30) DEF QueueInv
  <2> QED BY <1>1, <2>1, <2>2, <2>3, ZenonT(30) DEF QueueInv
<1>16. ASSUME NEW d \in Client
       PROVE  RecordInv(d, l)' /\ GrantInv(d, l)' /\ ReturnInv(d, l)' /\ RevokeInv(d, l)'
  <2>1. RecordInv(d, l) /\ GrantInv(d, l) /\ ReturnInv(d, l) /\ RevokeInv(d, l)
    BY <1>1, ZenonT(30) DEF LockInv
  <2>2. RecordInv(d, l)'
    <3>1. awaiting_lock[d][l] = Cardinality(Waiters(d, l)')
      BY <1>11, <2>1, ZenonT(30) DEF RecordInv
    <3>2. /\ owned'[d][l] => holder[l] = d /\ ~ acquiring'[d][l]
          /\ owned[d][l] => owned'[d][l]
          /\ owned[d][l] \/ acquiring[d][l] => owned'[d][l] \/ acquiring'[d][l]
      BY <1>3, <1>4, <2>1, SMTT(30) DEF RecordInv, SameElsewhere
    <3> QED BY <1>1, <1>6, <1>10, <2>1, <3>1, <3>2, MailFrame, ZenonT(30) DEF RecordInv
  <2>3. GrantInv(d, l)'
    <3>1. Retried(d, l) \/ Answered(d, l)' => acquiring'[d][l]
      BY <1>3, <1>4, <1>9, <2>1, ZenonT(30) DEF GrantInv, SameElsewhere
    <3> QED BY <1>1, <1>6, <1>9, <1>10, <2>1, <3>1, MailFrame, ZenonT(30) DEF GrantInv
  <2>4. ReturnInv(d, l)'
    <3>1. \A u \in Thread : pc'[u] = "flush" => pc[u] = "flush"
      BY <1>2, Zenon
    <3>2. Released(d, l)' <=> Released(d, l)
      BY <1>1, <1>6, MailFrame, ZenonT(30)
    <3>3. Released(d, l) \/ Flushing(d, l) => owned'[d][l] = owned[d][l]
      BY <1>3, <1>4, ZenonT(30) DEF SameElsewhere
    <3> QED BY <1>1, <1>10, <2>1, <3>1, <3>2, <3>3, ZenonT(30) DEF ReturnInv
  <2>5. RevokeInv(d, l)'
    BY <1>1, <1>6, <1>10, <2>1, MailFrame, ZenonT(30) DEF RevokeInv
  <2> QED BY <2>2, <2>3, <2>4, <2>5, Zenon
<1> QED BY <1>7, <1>8, <1>12, <1>13, <1>14, <1>15, <1>16, Zenon DEF Kept, LockInv

\* A thread lets go of the lock; its client keeps it, or begins to return it.
LEMMA KeepRelease ==
  ASSUME IndInv, TypeOK', NEW t \in Thread, NEW c \in Client, NEW l \in Lock,
         release(t, l), c = ClientOf[t]
  PROVE  Kept(l)
<1>1. /\ TypeOK /\ LockInv(l) /\ \A u \in Thread : ThreadInv(u)
      /\ pc[t] = "idle" /\ lid[t] = FREE /\ l \in held[t]
      /\ UNCHANGED <<holder, queue, revoked, revoke_queue, lock_list, awaiting_lock, ret, msgs>>
  BY Zenon DEF IndInv, release, Holds, serverVars, ThreadInv
<1>2. /\ owned \in [Client -> [Lock -> BOOLEAN]] /\ acquiring \in [Client -> [Lock -> BOOLEAN]]
      /\ c_revoked \in [Client -> [Lock -> BOOLEAN]]
      /\ c_holder \in [Client -> [Lock -> Thread \cup {FREE}]]
  BY <1>1, Zenon DEF TypeOK
<1>3. /\ c_holder[c][l] = t /\ t # FREE /\ l # FREE /\ owned[c][l] /\ holder[l] = c
      /\ ~ acquiring[c][l]
  <2>1. c_holder[c][l] = t /\ t # FREE /\ l # FREE
    BY <1>1, LockAssumption, ZenonT(60) DEF LockInv, WorkInv
  <2> QED BY <1>1, <2>1, ZenonT(30) DEF LockInv, RecordInv
<1>4. /\ SameElsewhere(c_holder, c_holder', c, l) /\ c_holder'[c][l] = FREE
      /\ \A u \in Thread \ {t} : held'[u] = held[u] /\ pc'[u] = pc[u] /\ lid'[u] = lid[u]
      /\ held'[t] = held[t] \ {l}
  <2>1. c_holder' = [c_holder EXCEPT ![c][l] = FREE]
    BY Zenon DEF release
  <2>2. SameElsewhere(c_holder, c_holder', c, l) /\ c_holder'[c][l] = FREE
    BY <1>2, <2>1, Zenon DEF SameElsewhere
  <2>3. held \in [Thread -> SUBSET Lock] /\ DOMAIN pc = Thread /\ DOMAIN lid = Thread
    BY <1>1, ZenonT(30) DEF TypeOK
  <2>4. \/ pc' = [pc EXCEPT ![t] = "flush"] /\ lid' = [lid EXCEPT ![t] = l]
        \/ pc' = pc /\ lid' = lid
    BY Zenon DEF release
  <2>5. \A u \in Thread \ {t} : pc'[u] = pc[u] /\ lid'[u] = lid[u]
    BY <2>3, <2>4, Zenon
  <2>6. /\ \A u \in Thread \ {t} : held'[u] = held[u]
        /\ held'[t] = held[t] \ {l}
    BY <2>3, Zenon DEF release
  <2> QED BY <2>2, <2>5, <2>6, Zenon
<1> DEFINE Back == /\ awaiting_lock[c][l] = 0 /\ c_revoked[c][l] /\ lid'[t] = l /\ pc'[t] = "flush"
                   /\ ~ owned'[c][l] /\ ~ c_revoked'[c][l] /\ ~ acquiring'[c][l]
           Keep == /\ UNCHANGED <<owned, c_revoked, acquiring>>
                   /\ lid'[t] = lid[t] /\ pc'[t] = pc[t]
<1>5. /\ Back \/ Keep
      /\ SameElsewhere(owned, owned', c, l) /\ SameElsewhere(acquiring, acquiring', c, l)
      /\ SameElsewhere(c_revoked, c_revoked', c, l)
  <2>1. CASE UNCHANGED <<owned, c_revoked, acquiring, pc, lid>>
    BY <2>1, ZenonT(30) DEF SameElsewhere
  <2>2. CASE GiveBack(c, l)
    <3>1. /\ owned' = [owned EXCEPT ![c][l] = FALSE]
          /\ c_revoked' = [c_revoked EXCEPT ![c][l] = FALSE]
          /\ acquiring' = [acquiring EXCEPT ![c][l] = FALSE]
          /\ pc'[t] = "flush" /\ lid'[t] = l
      BY <1>1, <2>2, ZenonT(60) DEF release, TypeOK
    <3>2. owned'[c][l] = FALSE /\ SameElsewhere(owned, owned', c, l)
      BY <1>2, <3>1, RecordValue, ZenonT(30)
    <3>3. c_revoked'[c][l] = FALSE /\ SameElsewhere(c_revoked, c_revoked', c, l)
      BY <1>2, <3>1, RecordValue, ZenonT(30)
    <3>4. acquiring'[c][l] = FALSE /\ SameElsewhere(acquiring, acquiring', c, l)
      BY <1>2, <3>1, RecordValue, ZenonT(30)
    <3> QED BY <2>2, <3>1, <3>2, <3>3, <3>4, Zenon DEF GiveBack
  <2> QED BY <2>1, <2>2, Zenon DEF release
<1>6. \A d \in Client : acquiring'[d][l] <=> acquiring[d][l]
  BY <1>3, <1>5, Zenon DEF SameElsewhere
<1>7. \A d \in Client : /\ Released(d, l) => FALSE
                        /\ Flushing(d, l) => FALSE
                        /\ d = c => ~ Retried(d, l) /\ ~ Answered(d, l)
                        /\ Asked(d, l) => d = c /\ ~ c_revoked[c][l]
  BY <1>1, <1>3, ZenonT(30) DEF LockInv, ReturnInv, GrantInv, RevokeInv
<1>8. SameMail(l)
  BY <1>1, ZenonT(30) DEF SameMail
<1>9. ASSUME NEW u \in Thread PROVE ThreadInv(u)'
  BY <1>1, <1>3, <1>4, <1>5, ZenonT(30) DEF ThreadInv
<1>10. ASSUME NEW k \in Lock \ {l} PROVE SameLock(k)
  <2>1. \A u \in Thread : /\ lid'[u] = k <=> lid[u] = k
                          /\ lid[u] = k => pc'[u] = pc[u]
                          /\ k \in held'[u] <=> k \in held[u]
    BY <1>1, <1>4, <1>5, <1>10, LockAssumption, ZenonT(60)
  <2>2. \A d \in Client : /\ owned'[d][k] = owned[d][k] /\ acquiring'[d][k] = acquiring[d][k]
                          /\ c_revoked'[d][k] = c_revoked[d][k] /\ c_holder'[d][k] = c_holder[d][k]
    BY <1>4, <1>5, <1>10, ZenonT(30) DEF SameElsewhere
  <2> QED BY <1>1, <2>1, <2>2, ZenonT(30) DEF SameLock
<1>11. \A d \in Client : Answered(d, l)' <=> Answered(d, l)
  <2>1. ret[t] = "none"
    BY <1>1, ZenonT(30) DEF ThreadInv, TypeOK
  <2> QED BY <1>1, <1>4, <2>1, ZenonT(30) DEF Answered
<1>12. \A d \in Client : Waiters(d, l)' = Waiters(d, l)
  BY <1>1, <1>4, <1>5, ZenonT(30) DEF Waiters, Waiting
<1>13. \A u \in Thread : /\ pc'[u] = "flush" /\ lid'[u] = l => u = t /\ Back
                         /\ Back => pc'[t] = "flush" /\ lid'[t] = l
  <2>1. \A u \in Thread : pc[u] = "flush" /\ lid[u] = l => FALSE
    BY <1>7, LockAssumption, ZenonT(30) DEF Flushing
  <2> QED BY <1>1, <1>4, <1>5, <2>1, ZenonT(30)
<1>14. \A d \in Client : Flushing(d, l)' <=> d = c /\ Back
  BY <1>13, Zenon DEF Flushing
<1>15. Back => \A u \in Thread : ClientOf[u] = c /\ lid[u] = l => ~ Waiting(u)
  BY NobodyWaits, Zenon
<1>16. ASSUME NEW u \in Thread PROVE WorkInv(u, l)'
  <2>1. WorkInv(u, l) /\ ClientOf[u] \in Client
    BY <1>1, LockAssumption, ZenonT(30) DEF LockInv
  <2>2. /\ lid'[u] = l => l \in lock_list[ClientOf[u]]
        /\ l \in held'[u] => c_holder'[ClientOf[u]][l] = u
    <3>1. l \in lock_list[c]
      BY <1>1, <1>3, ZenonT(30) DEF LockInv, RecordInv
    <3>2. CASE u = t
      BY <1>1, <1>4, <2>1, <3>1, <3>2, Zenon
    <3>3. CASE u # t
      <4>1. lid'[u] = lid[u] /\ held'[u] = held[u]
        BY <1>4, <3>3, Zenon
      <4>2. l \in held[u] => c_holder[ClientOf[u]][l] = u /\ ClientOf[u] # c
        BY <1>3, <2>1, <3>3, Zenon DEF WorkInv
      <4>3. l \in held[u] => c_holder'[ClientOf[u]][l] = u
        BY <1>4, <2>1, <4>2, Zenon DEF SameElsewhere
      <4> QED BY <2>1, <4>1, <4>3, Zenon DEF WorkInv
    <3> QED BY <3>2, <3>3, Zenon
  <2>3. CASE Keep
    <3>1. lid'[u] = lid[u] /\ pc'[u] = pc[u]
      BY <1>4, <2>3, ZenonT(30)
    <3> QED BY <1>1, <2>1, <2>2, <2>3, <3>1, ZenonT(30) DEF WorkInv
  <2>4. CASE Back
    <3>1. CASE ClientOf[u] = c
      BY <1>1, <1>4, <1>15, <2>1, <2>2, <2>4, <3>1, ZenonT(30) DEF WorkInv, Waiting
    <3>2. CASE ClientOf[u] # c
      BY <1>1, <1>4, <1>5, <2>1, <2>2, <2>4, <3>2, SMTT(30) DEF WorkInv, SameElsewhere
    <3> QED BY <3>1, <3>2, Zenon
  <2> QED BY <1>5, <2>3, <2>4, ZenonT(30)
<1>17. ASSUME NEW u \in Thread PROVE RequestInv(u, l)'
  <2>1. ClientOf[u] \in Client /\ (u # t => (Waiting(u)' <=> Waiting(u)))
    BY <1>4, LockAssumption, ZenonT(30) DEF Waiting
  <2>2. RequestInv(u, l) /\ RequestInv(t, l)
    BY <1>1, ZenonT(30) DEF LockInv
  <2>3. AcquireMsg(t, l) \notin msgs
    BY <1>3, <2>2, ZenonT(30) DEF RequestInv
  <2> QED BY <1>1, <1>4, <1>6, <1>8, <1>11, <2>1, <2>2, <2>3, MailFrame, ZenonT(30) DEF RequestInv
<1>18. ASSUME NEW u \in Thread, NEW w \in Thread PROVE AnswerInv(u, w, l)'
  BY <1>1, <1>4, <1>5, ZenonT(30) DEF LockInv, AnswerInv
<1>19. QueueInv(l)'
  BY <1>1, <1>6, <1>8, <1>11, MailFrame, QueueFrame, ZenonT(30)
<1>20. ASSUME NEW d \in Client
       PROVE  RecordInv(d, l)' /\ GrantInv(d, l)' /\ ReturnInv(d, l)' /\ RevokeInv(d, l)'
  <2>1. RecordInv(d, l) /\ GrantInv(d, l) /\ ReturnInv(d, l) /\ RevokeInv(d, l) /\ RecordInv(c, l)
    BY <1>1, ZenonT(30) DEF LockInv
  <2>2. /\ Retried(d, l)' <=> Retried(d, l)
        /\ Released(d, l)' <=> Released(d, l)
        /\ Asked(d, l)' <=> Asked(d, l)
    BY <1>1, <1>8, MailFrame, ZenonT(30)
  <2>3. RecordInv(d, l)'
    <3>1. awaiting_lock[d][l] = Cardinality(Waiters(d, l)')
      BY <1>12, <2>1, ZenonT(30) DEF RecordInv
    <3>2. CASE d = c
      BY <1>1, <1>3, <1>4, <1>5, <1>14, <2>1, <3>1, <3>2, ZenonT(30) DEF RecordInv
    <3>3. CASE d # c
      <4>1. c_holder'[d][l] = FREE
        BY <1>3, <1>4, <2>1, <3>3, ZenonT(30) DEF RecordInv, SameElsewhere
      <4> QED BY <1>1, <1>3, <1>5, <2>1, <3>1, <3>3, <4>1, ZenonT(30) DEF RecordInv, SameElsewhere
    <3> QED BY <3>2, <3>3, Zenon
  <2>4. GrantInv(d, l)'
    BY <1>1, <1>3, <1>6, <1>7, <1>11, <2>1, <2>2, ZenonT(30) DEF GrantInv
  <2>5. ReturnInv(d, l)'
    <3>1. Flushing(d, l)' \/ Released(d, l)' <=> d = c /\ Back
      BY <1>7, <1>14, <2>2, ZenonT(30)
    <3>2. \A m \in msgs : m.type = "release" => m.lid # l
      BY <1>1, <1>7, ReleaseByHolder, ZenonT(30)
    <3>3. Back => revoked[l]
      BY <2>1, ZenonT(30) DEF RecordInv
    <3> QED BY <1>1, <1>3, <1>7, <1>13, <2>2, <3>1, <3>2, <3>3, ZenonT(30) DEF ReturnInv
  <2>6. RevokeInv(d, l)'
    <3>1. RevokeMsg(d, l) \in msgs' <=> RevokeMsg(d, l) \in msgs
      BY <1>1, ZenonT(30)
    <3> QED BY <1>1, <1>5, <1>7, <1>14, <2>1, <2>2, <3>1, ZenonT(30) DEF RevokeInv
  <2> QED BY <2>3, <2>4, <2>5, <2>6, Zenon
<1> QED BY <1>9, <1>10, <1>16, <1>17, <1>18, <1>19, <1>20, Zenon DEF Kept, LockInv
=============================================================================
