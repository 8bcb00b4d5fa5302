------------------------------- MODULE Handle -------------------------------
(***************************************************************************)
(* The cache of RPC clients that all threads of a process share            *)
(* (handle.cc).  A thread makes a handle for a host, calls safebind and    *)
(* the client it gets, and drops the handle; any thread may ask for the    *)
(* cached client of a host to be deleted, as config does when a node       *)
(* leaves the view.  handle_mutex makes get_handle, done_handle and        *)
(* delete_handle one step each; safebind keeps cl_mutex during the bind.   *)
(***************************************************************************)
EXTENDS Naturals, FiniteSets

CONSTANTS
  Thread, Host,
  MaxInfo,   \* bound: hinfo records ever allocated
  MaxUses    \* bound: calls of safebind on one handle

ASSUME HandleAssumption ==
  IsFiniteSet(Thread) /\ Host # {} /\ MaxInfo \in Nat /\ MaxUses \in Nat

NULL == 0
Info == 1 .. MaxInfo

VARIABLES
  hmap,                  \* handle_mgr::hmap, NULL where a host has no entry
  m_, cl, refcnt, del,   \* struct hinfo; cl is TRUE once a client is bound
  allocated, freed,      \* hinfo records made so far, and those deleted
  pc,                    \* what a thread does with its handle
  h,                     \* handle::h
  ret,                   \* what its last safebind returned
  uses

infoVars   == <<m_, cl, refcnt, del>>
threadVars == <<pc, h, ret, uses>>
vars == <<hmap, infoVars, allocated, freed, threadVars>>

Live == (1 .. allocated) \ freed

Init ==
  /\ hmap = [m \in Host |-> NULL]
  /\ m_ = [i \in Info |-> CHOOSE m \in Host : TRUE]
  /\ cl = [i \in Info |-> FALSE]
  /\ refcnt = [i \in Info |-> 0]
  /\ del = [i \in Info |-> FALSE]
  /\ allocated = 0
  /\ freed = {}
  /\ pc = [t \in Thread |-> "none"]
  /\ h = [t \in Thread |-> NULL]
  /\ ret = [t \in Thread |-> "unknown"]
  /\ uses = [t \in Thread |-> 0]

-----------------------------------------------------------------------------
(* handle_mgr *)

Goto(t, from, to) == pc[t] = from /\ pc' = [pc EXCEPT ![t] = to]

\* A new hinfo, as the entry of host m and in use by t.
NewInfo(t, m) ==
  /\ allocated < MaxInfo
  /\ allocated' = allocated + 1
  /\ hmap' = [hmap EXCEPT ![m] = allocated']
  /\ m_' = [m_ EXCEPT ![allocated'] = m]
  /\ cl' = [cl EXCEPT ![allocated'] = FALSE]
  /\ del' = [del EXCEPT ![allocated'] = FALSE]
  /\ refcnt' = [refcnt EXCEPT ![allocated'] = 1]
  /\ h' = [h EXCEPT ![t] = allocated']

\* Mutant: an entry that is waiting to be deleted is replaced.
get_handle_replaces(t, m) ==
  /\ Goto(t, "none", "have")
  /\ \/ /\ hmap[m] # NULL => del[hmap[m]]
        /\ NewInfo(t, m)
     \/ /\ hmap[m] # NULL /\ ~ del[hmap[m]]
        /\ refcnt' = [refcnt EXCEPT ![hmap[m]] = @ + 1]
        /\ h' = [h EXCEPT ![t] = hmap[m]]
        /\ UNCHANGED <<allocated, hmap, m_, cl, del>>
  /\ UNCHANGED <<freed, ret, uses>>

\* The constructor of handle: get_handle makes an hinfo, shares the one there
\* is, or returns NULL while that one is waiting to be deleted.
get_handle(t, m) ==
  /\ Goto(t, "none", "have")
  /\ \/ /\ hmap[m] = NULL
        /\ NewInfo(t, m)
     \/ /\ hmap[m] # NULL /\ ~ del[hmap[m]]
        /\ refcnt' = [refcnt EXCEPT ![hmap[m]] = @ + 1]
        /\ h' = [h EXCEPT ![t] = hmap[m]]
        /\ UNCHANGED <<allocated, hmap, m_, cl, del>>
     \/ /\ hmap[m] # NULL /\ del[hmap[m]]
        /\ h' = [h EXCEPT ![t] = NULL]
        /\ UNCHANGED <<allocated, hmap, infoVars>>
  /\ UNCHANGED <<freed, ret, uses>>

\* Mutant: an entry in use is erased.
delete_handle_wo_forced(m, counts) ==
  LET i == hmap[m] IN
  \/ /\ i = NULL
     /\ UNCHANGED <<hmap, del, freed>>
  \/ /\ i # NULL
     /\ hmap' = [hmap EXCEPT ![m] = NULL]
     /\ freed' = freed \cup {i}
     /\ UNCHANGED del

\* delete_handle_wo, with the reference counts the caller leaves: an entry in
\* use is only marked, another one is erased and its client deleted with it.
delete_handle_wo(m, counts) ==
  LET i == hmap[m] IN
  \/ /\ i = NULL
     /\ UNCHANGED <<hmap, del, freed>>
  \/ /\ i # NULL /\ counts[i] = 0
     /\ hmap' = [hmap EXCEPT ![m] = NULL]
     /\ freed' = freed \cup {i}
     /\ UNCHANGED del
  \/ /\ i # NULL /\ counts[i] # 0
     /\ del' = [del EXCEPT ![i] = TRUE]
     /\ UNCHANGED <<hmap, freed>>

\* Called by config with no handle of its own, or with one for the same host.
delete_handle(t, m) ==
  /\ pc[t] = "none" \/ (pc[t] = "have" /\ h[t] # NULL /\ m_[h[t]] = m)
  /\ delete_handle_wo(m, refcnt)
  /\ UNCHANGED <<m_, cl, refcnt, allocated, threadVars>>

\* Mutant: the last handle leaves a marked hinfo behind.
done_handle_keeps(t) ==
  /\ Goto(t, "have", "none")
  /\ refcnt' = IF h[t] = NULL THEN refcnt ELSE [refcnt EXCEPT ![h[t]] = @ - 1]
  /\ h' = [h EXCEPT ![t] = NULL]
  /\ ret' = [ret EXCEPT ![t] = "unknown"]
  /\ uses' = [uses EXCEPT ![t] = 0]
  /\ UNCHANGED <<hmap, m_, cl, del, allocated, freed>>

\* The destructor of handle.
done_handle(t) ==
  /\ Goto(t, "have", "none")
  /\ \/ /\ h[t] = NULL
        /\ UNCHANGED <<hmap, refcnt, del, freed>>
     \/ /\ h[t] # NULL
        /\ refcnt' = [refcnt EXCEPT ![h[t]] = @ - 1]
        /\ IF refcnt'[h[t]] = 0 /\ del[h[t]]
             THEN delete_handle_wo(m_[h[t]], refcnt')
             ELSE UNCHANGED <<hmap, del, freed>>
  /\ h' = [h EXCEPT ![t] = NULL]
  /\ ret' = [ret EXCEPT ![t] = "unknown"]
  /\ uses' = [uses EXCEPT ![t] = 0]
  /\ UNCHANGED <<m_, cl, allocated>>

-----------------------------------------------------------------------------
(* handle::safebind *)

\* Another thread holds the cl_mutex of hinfo i.
Binding(i) == \E t \in Thread : pc[t] = "bind" /\ h[t] = i

Return(t, r) == ret' = [ret EXCEPT ![t] = r]

\* Mutant: a failed bind is tried again.
safebind_retries(t) ==
  /\ pc[t] = "have" /\ uses[t] < MaxUses
  /\ uses' = [uses EXCEPT ![t] = @ + 1]
  /\ \/ /\ h[t] = NULL
        /\ Return(t, "null")
        /\ UNCHANGED pc
     \/ /\ h[t] # NULL /\ ~ Binding(h[t]) /\ cl[h[t]]
        /\ Return(t, "client")
        /\ Goto(t, "have", "call")
     \/ /\ h[t] # NULL /\ ~ Binding(h[t]) /\ ~ cl[h[t]]
        /\ Goto(t, "have", "bind")
        /\ UNCHANGED ret
  /\ UNCHANGED <<hmap, infoVars, allocated, freed, h>>

\* A client there is is returned, else one is bound, cl_mutex held.
safebind(t) ==
  /\ pc[t] = "have" /\ uses[t] < MaxUses
  /\ uses' = [uses EXCEPT ![t] = @ + 1]
  /\ \/ /\ h[t] = NULL
        /\ Return(t, "null")
        /\ UNCHANGED pc
     \/ /\ h[t] # NULL /\ ~ Binding(h[t]) /\ del[h[t]]
        /\ Return(t, "null")
        /\ UNCHANGED pc
     \/ /\ h[t] # NULL /\ ~ Binding(h[t]) /\ ~ del[h[t]] /\ cl[h[t]]
        /\ Return(t, "client")
        /\ Goto(t, "have", "call")
     \/ /\ h[t] # NULL /\ ~ Binding(h[t]) /\ ~ del[h[t]] /\ ~ cl[h[t]]
        /\ Goto(t, "have", "bind")
        /\ UNCHANGED ret
  /\ UNCHANGED <<hmap, infoVars, allocated, freed, h>>

\* rpcc::bind returns: the client is kept, or deleted and the hinfo marked.
BindSucceeds(t) ==
  /\ Goto(t, "bind", "call")
  /\ cl' = [cl EXCEPT ![h[t]] = TRUE]
  /\ Return(t, "client")
  /\ UNCHANGED <<hmap, m_, refcnt, del, allocated, freed, h, uses>>

BindFails(t) ==
  /\ Goto(t, "bind", "have")
  /\ del' = [del EXCEPT ![h[t]] = TRUE]
  /\ Return(t, "null")
  /\ UNCHANGED <<hmap, m_, cl, refcnt, allocated, freed, h, uses>>

\* The thread's call through the client ends.
CallReturns(t) ==
  /\ Goto(t, "call", "have")
  /\ UNCHANGED <<hmap, infoVars, allocated, freed, h, ret, uses>>

-----------------------------------------------------------------------------
Bound(t) == BindSucceeds(t) \/ BindFails(t)

Next == \E t \in Thread :
  \/ \E m \in Host : get_handle(t, m) \/ delete_handle(t, m)
  \/ safebind(t) \/ Bound(t) \/ CallReturns(t) \/ done_handle(t)

Spec == Init /\ [][Next]_vars

\* A bind and a call have deadlines, and a handle is a local of its caller.
FairSpec ==
  /\ Spec
  /\ \A t \in Thread : WF_vars(Bound(t)) /\ WF_vars(CallReturns(t)) /\ WF_vars(done_handle(t))

-----------------------------------------------------------------------------
(* Properties *)

\* Types; and a thread that binds or calls has an hinfo.
TypeOK ==
  /\ hmap \in [Host -> Info \cup {NULL}]
  /\ m_ \in [Info -> Host]
  /\ cl \in [Info -> BOOLEAN] /\ del \in [Info -> BOOLEAN]
  /\ refcnt \in [Info -> Nat]
  /\ allocated \in 0 .. MaxInfo
  /\ freed \subseteq 1 .. allocated
  /\ pc \in [Thread -> {"none", "have", "bind", "call"}]
  /\ h \in [Thread -> Info \cup {NULL}]
  /\ ret \in [Thread -> {"unknown", "null", "client"}]
  /\ uses \in [Thread -> 0 .. MaxUses]
  /\ \A t \in Thread : pc[t] \in {"bind", "call"} => h[t] # NULL

Holders(i) == {t \in Thread : h[t] = i}

\* refcnt counts the handles that point to an hinfo, and no hinfo is deleted
\* while a thread can still lock its cl_mutex.
HandlesAreCounted ==
  /\ \A t \in Thread : h[t] # NULL => h[t] \in Live
  /\ \A i \in Live : refcnt[i] = Cardinality(Holders(i))

\* Every hinfo that exists is the entry of its host: done_handle, which
\* deletes by name, deletes its own hinfo, and a host never has two clients.
OneInfoPerHost ==
  /\ \A i \in Live : hmap[m_[i]] = i
  /\ \A m \in Host : hmap[m] # NULL => hmap[m] \in Live /\ m_[hmap[m]] = m

\* While a thread's call is under way, its client exists; while one binds, the
\* hinfo has no client that the bind would overwrite.
ClientOutlivesCall ==
  \A t \in Thread : /\ pc[t] = "call" => h[t] \in Live /\ cl[h[t]]
                    /\ pc[t] = "bind" => ~ cl[h[t]] /\ \A u \in Holders(h[t]) \ {t} : pc[u] = "have"

\* No thread uses an hinfo, or a client, that has been deleted: the handles
\* are counted and a client outlives the calls through it.
NoUseAfterFree == TypeOK /\ HandlesAreCounted /\ ClientOutlivesCall

\* handle.h: once safebind has failed on a handle, all later calls return NULL.
NullIsFinal ==
  [][\A t \in Thread : ret[t] = "null" /\ pc'[t] # "none" => ret'[t] = "null"]_vars

\* handle.h: once safebind has succeeded on a handle, all later calls return
\* a client.
ClientIsFinal ==
  [][\A t \in Thread : ret[t] = "client" /\ pc'[t] # "none" => ret'[t] = "client"]_vars

\* A host whose bind failed, or whose client was to be deleted, is forgotten in
\* the end, so that a later handle binds anew.
StaleIsForgotten == \A i \in Info : del[i] ~> i \in freed
=============================================================================
