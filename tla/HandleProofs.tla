---------------------------- MODULE HandleProofs ----------------------------
(***************************************************************************)
(* What module Handle promises, for all threads, hosts and bounds: no      *)
(* thread follows a deleted hinfo or client, a host has one hinfo, and a   *)
(* handle whose bind failed never gives out a client.                      *)
(*                                                                         *)
(* The safety properties support each other: refcnt counts the handles     *)
(* (HandlesAreCounted) only because done_handle, which deletes by name,    *)
(* finds its own hinfo under that name (OneInfoPerHost), and the other way *)
(* round.  Two facts on the threads are needed besides.                    *)
(***************************************************************************)
EXTENDS Handle, FiniteSetTheorems, TLAPS

USE HandleAssumption DEF NULL, Info

\* A thread without a handle points to no hinfo and remembers no answer.
IdleHasNothing ==
  \A t \in Thread : pc[t] = "none" => h[t] = NULL /\ ret[t] = "unknown"

\* A handle that has answered NULL is of no hinfo or of one that is marked.
NullIsMarked ==
  \A t \in Thread : ret[t] = "null" => pc[t] = "have" /\ (h[t] # NULL => del[h[t]])

Inv == /\ TypeOK /\ HandlesAreCounted /\ OneInfoPerHost /\ ClientOutlivesCall
       /\ IdleHasNothing /\ NullIsMarked

-----------------------------------------------------------------------------
(* Counting handles *)

\* The handles on an hinfo are finitely many.
LEMMA HoldersFinite ==
  ASSUME NEW i
  PROVE  IsFiniteSet(Holders(i)) /\ Cardinality(Holders(i)) \in Nat
<1>1. Holders(i) \subseteq Thread
  BY ZenonT(30) DEF Holders
<1>2. IsFiniteSet(Holders(i))
  BY <1>1, FS_Subset, ZenonT(30)
<1> QED
  BY <1>2, FS_CardinalityType, ZenonT(30)

\* A handle that get_handle gives out adds one to the handles of its hinfo,
\* and leaves those of the others.
LEMMA Gain ==
  ASSUME NEW t \in Thread, NEW i \in Info, h \in [Thread -> Info \cup {NULL}],
         h[t] = NULL, h' = [h EXCEPT ![t] = i]
  PROVE  /\ Cardinality(Holders(i)') = Cardinality(Holders(i)) + 1
         /\ \A j \in Info \ {i} : Holders(j)' = Holders(j)
<1>1. Holders(i)' = Holders(i) \cup {t} /\ t \notin Holders(i)
  BY DEF Holders
<1>2. \A j \in Info \ {i} : Holders(j)' = Holders(j)
  BY DEF Holders
<1> QED
  BY <1>1, <1>2, HoldersFinite, FS_AddElement, ZenonT(30)

\* A handle that is destroyed takes one from the handles of its hinfo.
LEMMA Lose ==
  ASSUME NEW t \in Thread, NEW i \in Info, h \in [Thread -> Info \cup {NULL}],
         h[t] = i, h' = [h EXCEPT ![t] = NULL]
  PROVE  /\ Cardinality(Holders(i)) # 0
         /\ Cardinality(Holders(i)') = Cardinality(Holders(i)) - 1
         /\ \A j \in Info \ {i} : Holders(j)' = Holders(j)
<1>1. Holders(i)' = Holders(i) \ {t} /\ t \in Holders(i)
  BY DEF Holders
<1>2. \A j \in Info \ {i} : Holders(j)' = Holders(j)
  BY DEF Holders
<1>3. Cardinality(Holders(i)') = Cardinality(Holders(i)) - 1
  BY <1>1, HoldersFinite, FS_RemoveElement, ZenonT(30)
<1>4. Cardinality(Holders(i)) # 0
  BY <1>1, HoldersFinite, FS_EmptySet, ZenonT(30)
<1> QED
  BY <1>2, <1>3, <1>4, ZenonT(30)

-----------------------------------------------------------------------------
(* The steps of handle_mgr *)

\* get_handle finds no entry: the new hinfo has no handle but this one.
LEMMA NewInfoStep ==
  ASSUME Inv, NEW t \in Thread, NEW m \in Host,
         Goto(t, "none", "have"), hmap[m] = NULL, NewInfo(t, m),
         UNCHANGED <<freed, ret, uses>>
  PROVE  Inv'
<1> USE DEF Inv, Goto, NewInfo
<1> PICK i \in Info : i = allocated + 1
  BY DEF TypeOK
<1>1. /\ i \notin 1 .. allocated
      /\ allocated' = i /\ h[t] = NULL /\ pc[t] = "none"
  BY DEF TypeOK, IdleHasNothing
<1>2. Live' = Live \cup {i} /\ i \notin Live /\ Live \subseteq Info
  BY <1>1 DEF TypeOK, Live
<1>3. \A u \in Thread : h[u] # i
  BY <1>1, <1>2 DEF TypeOK, HandlesAreCounted
<1>4. TypeOK'
  BY <1>1 DEF TypeOK
<1>5. Holders(i) = {}
  BY <1>3, ZenonT(30) DEF Holders
<1>6. /\ Cardinality(Holders(i)') = 1
      /\ \A j \in Info \ {i} : Holders(j)' = Holders(j)
  <2>1. Cardinality(Holders(i)) = 0
    BY <1>5, FS_EmptySet, ZenonT(30)
  <2>2. h' = [h EXCEPT ![t] = i]
    BY <1>1, ZenonT(30)
  <2>3. /\ Cardinality(Holders(i)') = Cardinality(Holders(i)) + 1
        /\ \A j \in Info \ {i} : Holders(j)' = Holders(j)
    BY <1>1, <2>2, Gain, ZenonT(30) DEF TypeOK
  <2> QED
    BY <2>1, <2>3
<1>7. HandlesAreCounted'
  <2>1. \A u \in Thread : h'[u] # NULL => h'[u] \in Live'
    BY <1>1, <1>2, ZenonT(30) DEF TypeOK, HandlesAreCounted
  <2>2. \A j \in Live' : refcnt'[j] = Cardinality(Holders(j)')
    BY <1>1, <1>2, <1>6, ZenonT(30) DEF TypeOK, HandlesAreCounted
  <2> QED
    BY <2>1, <2>2, ZenonT(30) DEF HandlesAreCounted, Holders
<1>8. OneInfoPerHost'
  BY <1>1, <1>2 DEF TypeOK, OneInfoPerHost
<1>9. ClientOutlivesCall'
  BY <1>1, <1>2, <1>3, ZenonT(30) DEF TypeOK, ClientOutlivesCall, Holders
<1>10. IdleHasNothing' /\ NullIsMarked'
  BY <1>1, <1>3 DEF TypeOK, IdleHasNothing, NullIsMarked
<1> QED
  BY <1>4, <1>7, <1>8, <1>9, <1>10, ZenonT(30)

\* get_handle shares the entry there is.
LEMMA ShareStep ==
  ASSUME Inv, NEW t \in Thread, NEW m \in Host,
         Goto(t, "none", "have"), hmap[m] # NULL, ~ del[hmap[m]],
         refcnt' = [refcnt EXCEPT ![hmap[m]] = @ + 1],
         h' = [h EXCEPT ![t] = hmap[m]],
         UNCHANGED <<allocated, hmap, m_, cl, del, freed, ret, uses>>
  PROVE  Inv'
<1> USE DEF Inv, Goto
<1> PICK i \in Info : i = hmap[m]
  BY ZenonT(30) DEF TypeOK
<1>1. i \in Live /\ h[t] = NULL /\ pc[t] = "none" /\ Live' = Live
  BY ZenonT(30) DEF TypeOK, IdleHasNothing, OneInfoPerHost, Live
<1>2. /\ Cardinality(Holders(i)') = Cardinality(Holders(i)) + 1
      /\ \A j \in Info \ {i} : Holders(j)' = Holders(j)
  BY <1>1, Gain, ZenonT(30) DEF TypeOK
<1>3. Live \subseteq Info
  BY DEF TypeOK, Live
<1>4. TypeOK'
  <2>1. refcnt' \in [Info -> Nat]
    BY DEF TypeOK
  <2>2. h' \in [Thread -> Info \cup {NULL}] /\ h'[t] # NULL
    BY ZenonT(30) DEF TypeOK
  <2>3. pc' \in [Thread -> {"none", "have", "bind", "call"}] /\ pc'[t] = "have"
    BY ZenonT(30) DEF TypeOK
  <2>4. ASSUME NEW u \in Thread, pc'[u] \in {"bind", "call"}
        PROVE  h'[u] # NULL
    <3>1. u # t /\ pc'[u] = pc[u] /\ h'[u] = h[u]
      BY <2>3, <2>4 DEF TypeOK
    <3> QED BY <2>4, <3>1, ZenonT(30) DEF TypeOK
  <2> QED BY <2>1, <2>2, <2>3, <2>4, ZenonT(30) DEF TypeOK
<1>5. HandlesAreCounted'
  <2>1. \A u \in Thread : h'[u] # NULL => h'[u] \in Live'
    BY <1>1, ZenonT(30) DEF TypeOK, HandlesAreCounted
  <2>2. \A j \in Live' : refcnt'[j] = Cardinality(Holders(j)')
    BY <1>1, <1>2, <1>3, ZenonT(30) DEF TypeOK, HandlesAreCounted
  <2> QED
    BY <2>1, <2>2, ZenonT(30) DEF HandlesAreCounted, Holders
<1>6. OneInfoPerHost'
  BY <1>1, ZenonT(30) DEF OneInfoPerHost
<1>7. ClientOutlivesCall'
  BY <1>1, ZenonT(30) DEF TypeOK, ClientOutlivesCall, Holders
<1>8. IdleHasNothing' /\ NullIsMarked'
  BY <1>1, ZenonT(30) DEF TypeOK, IdleHasNothing, NullIsMarked
<1> QED
  BY <1>4, <1>5, <1>6, <1>7, <1>8, ZenonT(30)

\* get_handle, in its three cases.
LEMMA GetHandleStep ==
  ASSUME Inv, NEW t \in Thread, NEW m \in Host, get_handle(t, m)
  PROVE  Inv'
<1>1. CASE hmap[m] = NULL
  BY <1>1, NewInfoStep, ZenonT(30) DEF get_handle
<1>2. CASE hmap[m] # NULL /\ ~ del[hmap[m]]
  BY <1>2, ShareStep, ZenonT(30) DEF get_handle
<1>3. CASE hmap[m] # NULL /\ del[hmap[m]]
  <2> USE DEF Inv
  <2>1. h' = h /\ UNCHANGED <<allocated, hmap, infoVars, freed, ret, uses>>
    BY <1>3 DEF get_handle, Goto, TypeOK, IdleHasNothing
  <2>2. pc[t] = "none" /\ pc' = [pc EXCEPT ![t] = "have"] /\ h[t] = NULL
    BY ZenonT(30) DEF get_handle, Goto, IdleHasNothing
  <2>3. TypeOK'
    BY <2>1, <2>2, ZenonT(30) DEF TypeOK, infoVars
  <2>4. HandlesAreCounted' /\ OneInfoPerHost'
    BY <2>1 DEF infoVars, HandlesAreCounted, OneInfoPerHost, Live, Holders
  <2>5. ClientOutlivesCall'
    BY <2>1, <2>2, ZenonT(30) DEF TypeOK, infoVars, ClientOutlivesCall, Live, Holders
  <2>6. IdleHasNothing' /\ NullIsMarked'
    BY <2>1, <2>2, ZenonT(30) DEF TypeOK, infoVars, IdleHasNothing, NullIsMarked
  <2> QED
    BY <2>3, <2>4, <2>5, <2>6, ZenonT(30)
<1> QED
  BY <1>1, <1>2, <1>3, ZenonT(30)

\* delete_handle_wo erases an entry that no handle points to, be it called by
\* delete_handle or, with refcnt and h as its caller leaves them, by
\* done_handle.
LEMMA EraseStep ==
  ASSUME TypeOK, OneInfoPerHost, HandlesAreCounted,
         NEW i \in Live, freed' = freed \cup {i},
         hmap' = [hmap EXCEPT ![m_[i]] = NULL], UNCHANGED <<m_, allocated>>
  PROVE  Live' = Live \ {i} /\ Live \subseteq Info /\ OneInfoPerHost'
<1>1. Live' = Live \ {i} /\ Live \subseteq Info
  BY DEF Live, TypeOK
<1>2. hmap[m_[i]] = i /\ m_[i] \in Host
  BY <1>1, ZenonT(30) DEF TypeOK, OneInfoPerHost
<1>3. \A j \in Live' : hmap'[m_'[j]] = j
  BY <1>1, <1>2, ZenonT(30) DEF TypeOK, OneInfoPerHost
<1>4. \A m \in Host : hmap'[m] # NULL => hmap'[m] \in Live' /\ m_'[hmap'[m]] = m
  BY <1>1, <1>2, ZenonT(30) DEF TypeOK, OneInfoPerHost
<1> QED
  BY <1>1, <1>3, <1>4, ZenonT(30) DEF OneInfoPerHost

\* delete_handle erases an unused entry and marks one in use.
LEMMA DeleteHandleStep ==
  ASSUME Inv, NEW t \in Thread, NEW m \in Host, delete_handle(t, m)
  PROVE  Inv'
<1> USE DEF Inv
<1>0. UNCHANGED <<m_, cl, refcnt, allocated, pc, h, ret, uses>>
  BY ZenonT(30) DEF delete_handle, threadVars
<1>1. CASE hmap[m] = NULL
  <2>1. UNCHANGED <<hmap, del, freed>>
    BY <1>1, ZenonT(30) DEF delete_handle, delete_handle_wo
  <2> QED
    BY <1>0, <2>1 DEF TypeOK, HandlesAreCounted, OneInfoPerHost, ClientOutlivesCall,
                      IdleHasNothing, NullIsMarked, Live, Holders
<1>2. CASE hmap[m] # NULL /\ refcnt[hmap[m]] = 0
  <2> PICK i \in Info : i = hmap[m]
    BY <1>2, ZenonT(30) DEF TypeOK
  <2>1. /\ hmap' = [hmap EXCEPT ![m] = NULL]
        /\ freed' = freed \cup {i} /\ UNCHANGED del
    BY <1>2, ZenonT(30) DEF delete_handle, delete_handle_wo
  <2>2. i \in Live /\ m_[i] = m
    BY <1>2, ZenonT(30) DEF OneInfoPerHost
  <2>3. Live' = Live \ {i} /\ Live \subseteq Info /\ OneInfoPerHost'
    BY <1>0, <2>1, <2>2, EraseStep, ZenonT(30)
  <2>4. Holders(i) = {}
    BY <1>2, <2>2, HoldersFinite, FS_EmptySet, ZenonT(30) DEF HandlesAreCounted
  <2>5. \A u \in Thread : h[u] # i
    BY <2>4, ZenonT(30) DEF Holders
  <2>6. TypeOK'
    <3>1. i \in 1 .. allocated
      BY <2>2, ZenonT(30) DEF Live
    <3> QED
      BY <1>0, <2>1, <3>1, ZenonT(30) DEF TypeOK
  <2>7. HandlesAreCounted'
    BY <1>0, <2>3, <2>5, ZenonT(30) DEF HandlesAreCounted, Holders
  <2>8. ClientOutlivesCall'
    BY <1>0, <2>3, <2>5, ZenonT(30) DEF ClientOutlivesCall, Holders
  <2>9. IdleHasNothing' /\ NullIsMarked'
    BY <1>0, <2>1, ZenonT(30) DEF IdleHasNothing, NullIsMarked
  <2> QED
    BY <2>3, <2>6, <2>7, <2>8, <2>9, ZenonT(30)
<1>3. CASE hmap[m] # NULL /\ refcnt[hmap[m]] # 0
  <2>1. del' = [del EXCEPT ![hmap[m]] = TRUE] /\ UNCHANGED <<hmap, freed>>
    BY <1>3, ZenonT(30) DEF delete_handle, delete_handle_wo
  <2>2. TypeOK'
    BY <1>0, <2>1, ZenonT(30) DEF TypeOK
  <2>3. HandlesAreCounted' /\ OneInfoPerHost' /\ ClientOutlivesCall' /\ IdleHasNothing'
    BY <1>0, <2>1 DEF HandlesAreCounted, OneInfoPerHost, ClientOutlivesCall,
                      IdleHasNothing, Live, Holders
  <2>4. NullIsMarked'
    BY <1>0, <2>1, ZenonT(30) DEF TypeOK, NullIsMarked
  <2> QED
    BY <2>2, <2>3, <2>4, ZenonT(30)
<1> QED
  BY <1>1, <1>2, <1>3, ZenonT(30)

\* done_handle: the last handle on a marked hinfo deletes that very hinfo.
LEMMA DoneHandleStep ==
  ASSUME Inv, NEW t \in Thread, done_handle(t)
  PROVE  Inv'
<1> USE DEF Inv
<1>0. /\ pc[t] = "have" /\ pc' = [pc EXCEPT ![t] = "none"]
      /\ h' = [h EXCEPT ![t] = NULL]
      /\ ret' = [ret EXCEPT ![t] = "unknown"]
      /\ uses' = [uses EXCEPT ![t] = 0]
      /\ UNCHANGED <<m_, cl, allocated>>
  BY ZenonT(30) DEF done_handle, Goto
<1>1. IdleHasNothing'
  BY <1>0, ZenonT(30) DEF TypeOK, IdleHasNothing
<1>2. /\ pc' \in [Thread -> {"none", "have", "bind", "call"}]
      /\ h' \in [Thread -> Info \cup {NULL}]
      /\ ret' \in [Thread -> {"unknown", "null", "client"}]
      /\ uses' \in [Thread -> 0 .. MaxUses]
      /\ \A u \in Thread : pc'[u] \in {"bind", "call"} => h'[u] # NULL
  BY <1>0 DEF TypeOK
<1>3. CASE h[t] = NULL
  <2>1. UNCHANGED <<hmap, refcnt, del, freed, h>>
    BY <1>0, <1>3, ZenonT(30) DEF done_handle, TypeOK
  <2>2. TypeOK'
    BY <1>0, <1>2, <2>1, ZenonT(30) DEF TypeOK
  <2>3. HandlesAreCounted' /\ OneInfoPerHost'
    BY <1>0, <2>1 DEF HandlesAreCounted, OneInfoPerHost, Live, Holders
  <2>4. ClientOutlivesCall' /\ NullIsMarked'
    BY <1>0, <1>3, <2>1, ZenonT(30) DEF TypeOK, ClientOutlivesCall, NullIsMarked, Live, Holders
  <2> QED
    BY <1>1, <2>2, <2>3, <2>4, ZenonT(30)
<1>4. CASE h[t] # NULL
  <2> PICK i \in Info : i = h[t]
    BY <1>4, ZenonT(30) DEF TypeOK
  <2>1. i \in Live /\ Live \subseteq Info /\ i \in 1 .. allocated
    BY <1>4 DEF HandlesAreCounted, Live, TypeOK
  <2>2. /\ refcnt[i] # 0 /\ Cardinality(Holders(i)') = refcnt[i] - 1
        /\ \A j \in Info \ {i} : Holders(j)' = Holders(j)
    BY <1>0, <2>1, Lose, ZenonT(30) DEF TypeOK, HandlesAreCounted
  <2>3. /\ refcnt' = [refcnt EXCEPT ![i] = @ - 1]
        /\ IF refcnt'[i] = 0 /\ del[i]
             THEN delete_handle_wo(m_[i], refcnt')
             ELSE UNCHANGED <<hmap, del, freed>>
    BY <1>4, ZenonT(30) DEF done_handle
  <2>4. hmap[m_[i]] = i /\ i # NULL
    BY <2>1 DEF OneInfoPerHost
  <2>5. UNCHANGED del
    BY <2>3, <2>4, ZenonT(30) DEF delete_handle_wo
  <2>6. NullIsMarked'
    BY <1>0, <2>5, ZenonT(30) DEF TypeOK, NullIsMarked
  <2>7. \A j \in Live : refcnt'[j] = Cardinality(Holders(j)')
    BY <2>1, <2>2, <2>3, ZenonT(30) DEF TypeOK, HandlesAreCounted
  <2>8. refcnt' \in [Info -> Nat]
    BY <2>2, <2>3 DEF TypeOK
  <2>9. CASE refcnt'[i] = 0 /\ del[i]
    <3>1. hmap' = [hmap EXCEPT ![m_[i]] = NULL] /\ freed' = freed \cup {i}
      BY <2>3, <2>4, <2>9, ZenonT(30) DEF delete_handle_wo
    <3>2. Live' = Live \ {i} /\ OneInfoPerHost'
      BY <1>0, <2>1, <3>1, EraseStep, ZenonT(30)
    <3>3. Holders(i)' = {}
      <4>1. IsFiniteSet({u \in Thread : h'[u] = i})
        BY FS_Subset, ZenonT(30)
      <4> QED
        BY <2>1, <2>7, <2>9, <4>1, FS_EmptySet, ZenonT(30) DEF Holders
    <3>4. \A u \in Thread : h'[u] # i
      BY <3>3, ZenonT(30) DEF Holders
    <3>5. TypeOK'
      <4>1. hmap' \in [Host -> Info \cup {NULL}] /\ freed' \subseteq 1 .. allocated'
        BY <1>0, <2>1, <3>1, ZenonT(30) DEF TypeOK
      <4> QED
        BY <1>0, <1>2, <2>5, <2>8, <4>1, ZenonT(30) DEF TypeOK
    <3>6. HandlesAreCounted'
      <4>1. \A u \in Thread : h'[u] # NULL => h'[u] \in Live'
        BY <1>0, <3>2, <3>4, ZenonT(30) DEF TypeOK, HandlesAreCounted
      <4>2. \A j \in Live' : refcnt'[j] = Cardinality(Holders(j)')
        BY <2>7, <3>2, ZenonT(30)
      <4> QED
        BY <4>1, <4>2, ZenonT(30) DEF HandlesAreCounted, Holders
    <3>7. ClientOutlivesCall'
      BY <1>0, <3>2, <3>4, ZenonT(30) DEF TypeOK, ClientOutlivesCall, Holders
    <3> QED
      BY <1>1, <2>6, <3>2, <3>5, <3>6, <3>7, ZenonT(30)
  <2>10. CASE ~ (refcnt'[i] = 0 /\ del[i])
    <3>1. UNCHANGED <<hmap, freed>> /\ Live' = Live
      BY <1>0, <2>3, <2>10, ZenonT(30) DEF Live
    <3>2. TypeOK'
      BY <1>0, <1>2, <2>5, <2>8, <3>1, ZenonT(30) DEF TypeOK
    <3>3. HandlesAreCounted'
      <4>1. \A u \in Thread : h'[u] # NULL => h'[u] \in Live'
        BY <1>0, <3>1, ZenonT(30) DEF TypeOK, HandlesAreCounted
      <4>2. \A j \in Live' : refcnt'[j] = Cardinality(Holders(j)')
        BY <2>7, <3>1, ZenonT(30)
      <4> QED
        BY <4>1, <4>2, ZenonT(30) DEF HandlesAreCounted, Holders
    <3>4. OneInfoPerHost' /\ ClientOutlivesCall'
      BY <1>0, <3>1, ZenonT(30) DEF TypeOK, OneInfoPerHost, ClientOutlivesCall, Holders
    <3> QED
      BY <1>1, <2>6, <3>2, <3>3, <3>4, ZenonT(30)
  <2> QED
    BY <2>9, <2>10, ZenonT(30)
<1> QED
  BY <1>3, <1>4, ZenonT(30)

-----------------------------------------------------------------------------
(* The steps of handle::safebind and of the call through the client *)

\* safebind returns, or starts to bind while no other handle is being used.
LEMMA SafebindStep ==
  ASSUME Inv, NEW t \in Thread, safebind(t)
  PROVE  Inv'
<1> USE DEF Inv
<1>0. /\ pc[t] = "have" /\ uses' = [uses EXCEPT ![t] = @ + 1] /\ uses[t] < MaxUses
      /\ UNCHANGED <<hmap, m_, cl, refcnt, del, allocated, freed, h>>
  BY ZenonT(30) DEF safebind, infoVars
<1>1. HandlesAreCounted' /\ OneInfoPerHost'
  BY <1>0 DEF HandlesAreCounted, OneInfoPerHost, Live, Holders
<1>2. uses' \in [Thread -> 0 .. MaxUses]
  BY <1>0 DEF TypeOK
<1>3. CASE /\ h[t] # NULL => del[h[t]]
           /\ Return(t, "null") /\ UNCHANGED pc
  <2>1. TypeOK'
    BY <1>0, <1>2, <1>3, ZenonT(30) DEF TypeOK, Return
  <2>2. ClientOutlivesCall'
    BY <1>0, <1>3, ZenonT(30) DEF ClientOutlivesCall, Live, Holders
  <2>3. IdleHasNothing' /\ NullIsMarked'
    BY <1>0, <1>3, ZenonT(30) DEF TypeOK, IdleHasNothing, NullIsMarked, Return
  <2> QED
    BY <1>1, <2>1, <2>2, <2>3, ZenonT(30)
<1>4. CASE /\ h[t] # NULL /\ ~ Binding(h[t]) /\ ~ del[h[t]] /\ cl[h[t]]
           /\ Return(t, "client") /\ Goto(t, "have", "call")
  <2>1. TypeOK'
    BY <1>0, <1>2, <1>4, ZenonT(30) DEF TypeOK, Return, Goto
  <2>2. h[t] \in Live /\ \A u \in Thread : h[u] = h[t] => pc[u] # "bind"
    BY <1>4, ZenonT(30) DEF HandlesAreCounted, Binding
  <2>3. ClientOutlivesCall'
    BY <1>0, <1>4, <2>2, ZenonT(30) DEF TypeOK, ClientOutlivesCall, Live, Holders, Goto
  <2>4. IdleHasNothing' /\ NullIsMarked'
    BY <1>0, <1>4, ZenonT(30) DEF TypeOK, IdleHasNothing, NullIsMarked, Return, Goto
  <2> QED
    BY <1>1, <2>1, <2>3, <2>4, ZenonT(30)
<1>5. CASE /\ h[t] # NULL /\ ~ Binding(h[t]) /\ ~ del[h[t]] /\ ~ cl[h[t]]
           /\ Goto(t, "have", "bind") /\ UNCHANGED ret
  <2>1. TypeOK'
    BY <1>0, <1>2, <1>5, ZenonT(30) DEF TypeOK, Goto
  <2>2. \A u \in Thread : h[u] = h[t] => pc[u] = "have"
    <3> SUFFICES ASSUME NEW u \in Thread, h[u] = h[t]
                 PROVE  pc[u] = "have"
      OBVIOUS
    <3>1. pc[u] # "none" /\ pc[u] # "bind" /\ pc[u] # "call"
      BY <1>5, ZenonT(30) DEF IdleHasNothing, Binding, ClientOutlivesCall
    <3> QED
      BY <3>1, ZenonT(30) DEF TypeOK
  <2>3. ClientOutlivesCall'
    BY <1>0, <1>5, <2>2, ZenonT(30) DEF TypeOK, ClientOutlivesCall, Live, Holders, Goto
  <2>4. IdleHasNothing' /\ NullIsMarked'
    BY <1>0, <1>5, ZenonT(30) DEF TypeOK, IdleHasNothing, NullIsMarked, Goto
  <2> QED
    BY <1>1, <2>1, <2>3, <2>4, ZenonT(30)
<1> QED
  BY <1>3, <1>4, <1>5, ZenonT(30) DEF safebind

\* rpcc::bind returns, with a client or without.
LEMMA BoundStep ==
  ASSUME Inv, NEW t \in Thread, Bound(t)
  PROVE  Inv'
<1> USE DEF Inv
<1>0. /\ pc[t] = "bind" /\ h[t] \in Info /\ h[t] \in Live
      /\ ret[t] # "null"
      /\ UNCHANGED <<hmap, m_, refcnt, allocated, freed, h, uses>>
  BY ZenonT(30) DEF Bound, BindSucceeds, BindFails, Goto, TypeOK, HandlesAreCounted, NullIsMarked
<1>1. HandlesAreCounted' /\ OneInfoPerHost'
  BY <1>0 DEF HandlesAreCounted, OneInfoPerHost, Live, Holders
<1>2. \A u \in Thread \ {t} : h[u] = h[t] => pc[u] = "have"
  BY <1>0, ZenonT(30) DEF ClientOutlivesCall, Holders
<1>3. CASE BindSucceeds(t)
  <2>1. /\ pc' = [pc EXCEPT ![t] = "call"] /\ cl' = [cl EXCEPT ![h[t]] = TRUE]
        /\ ret' = [ret EXCEPT ![t] = "client"] /\ UNCHANGED del
    BY <1>3, ZenonT(30) DEF BindSucceeds, Goto, Return
  <2>2. TypeOK'
    BY <1>0, <2>1, ZenonT(30) DEF TypeOK
  <2>3. ClientOutlivesCall'
    BY <1>0, <1>2, <2>1, ZenonT(30) DEF TypeOK, ClientOutlivesCall, Live, Holders
  <2>4. IdleHasNothing' /\ NullIsMarked'
    BY <1>0, <2>1, ZenonT(30) DEF TypeOK, IdleHasNothing, NullIsMarked
  <2> QED
    BY <1>1, <2>2, <2>3, <2>4, ZenonT(30)
<1>4. CASE BindFails(t)
  <2>1. /\ pc' = [pc EXCEPT ![t] = "have"] /\ del' = [del EXCEPT ![h[t]] = TRUE]
        /\ ret' = [ret EXCEPT ![t] = "null"] /\ UNCHANGED cl
    BY <1>4, ZenonT(30) DEF BindFails, Goto, Return
  <2>2. TypeOK'
    BY <1>0, <2>1, ZenonT(30) DEF TypeOK
  <2>3. ClientOutlivesCall'
    BY <1>0, <1>2, <2>1, ZenonT(30) DEF TypeOK, ClientOutlivesCall, Live, Holders
  <2>4. IdleHasNothing' /\ NullIsMarked'
    BY <1>0, <2>1, ZenonT(30) DEF TypeOK, IdleHasNothing, NullIsMarked
  <2> QED
    BY <1>1, <2>2, <2>3, <2>4, ZenonT(30)
<1> QED
  BY <1>3, <1>4, ZenonT(30) DEF Bound

\* A call that returns leaves its client in the cache.
LEMMA CallReturnsStep ==
  ASSUME Inv, NEW t \in Thread, CallReturns(t)
  PROVE  Inv'
<1> USE DEF Inv
<1>0. /\ pc[t] = "call" /\ pc' = [pc EXCEPT ![t] = "have"]
      /\ UNCHANGED <<hmap, m_, cl, refcnt, del, allocated, freed, h, ret, uses>>
  BY ZenonT(30) DEF CallReturns, Goto, infoVars
<1>1. TypeOK'
  BY <1>0, ZenonT(30) DEF TypeOK
<1>2. HandlesAreCounted' /\ OneInfoPerHost'
  BY <1>0 DEF HandlesAreCounted, OneInfoPerHost, Live, Holders
<1>3. ClientOutlivesCall'
  BY <1>0, ZenonT(30) DEF TypeOK, ClientOutlivesCall, Live, Holders
<1>4. IdleHasNothing' /\ NullIsMarked'
  BY <1>0, ZenonT(30) DEF TypeOK, IdleHasNothing, NullIsMarked
<1> QED
  BY <1>1, <1>2, <1>3, <1>4, ZenonT(30)

-----------------------------------------------------------------------------
(* The theorems *)

\* No handle, no entry, no hinfo: the invariant holds of a new process.
LEMMA InitInv == Init => Inv
<1> SUFFICES ASSUME Init
             PROVE  Inv
  OBVIOUS
<1>1. Live = {} /\ (CHOOSE m \in Host : TRUE) \in Host
  BY DEF Init, Live
<1>2. TypeOK
  BY <1>1 DEF Init, TypeOK
<1> QED
  BY <1>1, <1>2, ZenonT(30) DEF Init, Inv, HandlesAreCounted, OneInfoPerHost, ClientOutlivesCall,
                    IdleHasNothing, NullIsMarked

\* Every step of every thread keeps the invariant.
LEMMA NextInv == Inv /\ [Next]_vars => Inv'
<1> SUFFICES ASSUME Inv, [Next]_vars
             PROVE  Inv'
  OBVIOUS
<1>1. CASE UNCHANGED vars
  BY <1>1 DEF vars, infoVars, threadVars, Inv, TypeOK, HandlesAreCounted, OneInfoPerHost,
              ClientOutlivesCall, IdleHasNothing, NullIsMarked, Live, Holders
<1>2. ASSUME NEW t \in Thread, NEW m \in Host, get_handle(t, m) \/ delete_handle(t, m)
      PROVE  Inv'
  BY <1>2, GetHandleStep, DeleteHandleStep, ZenonT(30)
<1>3. ASSUME NEW t \in Thread,
             safebind(t) \/ Bound(t) \/ CallReturns(t) \/ done_handle(t)
      PROVE  Inv'
  BY <1>3, SafebindStep, BoundStep, CallReturnsStep, DoneHandleStep, ZenonT(30)
<1> QED
  BY <1>1, <1>2, <1>3, ZenonT(30) DEF Next

\* In every process that uses handles as handle.h describes, the cache of RPC
\* clients is safe: refcnt counts the handles, no thread is left with a deleted
\* hinfo, and a client outlives the calls through it.
THEOREM HandleSafety == Spec => []NoUseAfterFree
<1>1. Inv => NoUseAfterFree
  BY ZenonT(30) DEF Inv, NoUseAfterFree
<1> QED
  BY <1>1, InitInv, NextInv, PTL DEF Spec

\* Whatever the threads bind and delete, every hinfo that exists is the entry of
\* its host, so done_handle, which deletes by name, deletes its own hinfo, and a
\* host never has two clients.
THEOREM OneInfoPerHostAlways == Spec => []OneInfoPerHost
<1>1. Inv => OneInfoPerHost
  BY ZenonT(30) DEF Inv
<1> QED
  BY <1>1, InitInv, NextInv, PTL DEF Spec

\* A step that leaves a handle in use leaves its NULL.
LEMMA NullStep ==
  ASSUME Inv, [Next]_vars, NEW t \in Thread, ret[t] = "null", pc'[t] # "none"
  PROVE  ret'[t] = "null"
<1>0. pc[t] = "have" /\ (h[t] # NULL => del[h[t]])
  BY ZenonT(30) DEF Inv, NullIsMarked
<1>1. CASE UNCHANGED ret
  BY <1>1, ZenonT(30)
<1>2. ASSUME NEW u \in Thread, safebind(u)
      PROVE  ret'[t] = "null"
  BY <1>0, <1>2, ZenonT(30) DEF safebind, Return, Inv, TypeOK
<1>3. ASSUME NEW u \in Thread, Bound(u)
      PROVE  ret'[t] = "null"
  BY <1>0, <1>3, ZenonT(30) DEF Bound, BindSucceeds, BindFails, Return, Goto, Inv, TypeOK
<1>4. ASSUME NEW u \in Thread, done_handle(u)
      PROVE  ret'[t] = "null"
  BY <1>4, ZenonT(30) DEF done_handle, Goto, Inv, TypeOK
<1> QED
  BY <1>1, <1>2, <1>3, <1>4, ZenonT(30) DEF Next, get_handle, delete_handle, CallReturns, vars,
                                threadVars

\* handle.h's "otherwise, all later calls would return NULL" holds of every
\* handle, whatever the other threads bind or delete meanwhile.
THEOREM NullIsFinalAlways == Spec => NullIsFinal
<1>1. Inv /\ [Next]_vars =>
        [\A t \in Thread : ret[t] = "null" /\ pc'[t] # "none" => ret'[t] = "null"]_vars
  BY NullStep, ZenonT(30)
<1> QED
  BY <1>1, InitInv, NextInv, PTL DEF Spec, NullIsFinal
=============================================================================
