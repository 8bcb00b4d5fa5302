---------------------------- MODULE PaxosProofs ----------------------------
(***************************************************************************)
(* One node at a time, for every set of nodes, every view, every call      *)
(* order and all bounds: Paxos is well typed, what logread() rebuilds from *)
(* the log of an acceptor is what it had in memory, so that no crash takes *)
(* anything back, and config's view is one that its acceptor committed.    *)
(***************************************************************************)
EXTENDS Paxos, FiniteSetTheorems, TLAPS

-----------------------------------------------------------------------------
(* The log *)

\* A nonempty set of positions of a log has a last one.
LEMMA LastExists ==
  ASSUME NEW n \in Nat, NEW S \in SUBSET (1 .. n), S # {}
  PROVE  \E i \in S : \A j \in S : j <= i
<1> DEFINE Above(i) == {k \in S : k > i}
           T == {Above(i) : i \in S}
<1>1. IsFiniteSet(S)
  BY FS_BoundedSetOfNaturals
<1>2. T \subseteq FiniteSubsetsOf(S) /\ T # {}
  <2>1. FiniteSubsetsOf(S) = SUBSET S
    BY <1>1, FS_FiniteSubsetsOfFinite, Zenon
  <2>2. T \subseteq SUBSET S /\ T # {}
    BY ZenonT(30)
  <2> QED BY <2>1, <2>2, ZenonT(30)
<1>3. PICK x \in T : \A y \in T : <<y, x>> \notin StrictSubsetOrdering(S)
  BY <1>2, WFMin, FS_StrictSubsetOrderingWellFounded, Zenon
<1>4. PICK i \in S : x = Above(i)
  OBVIOUS
<1>5. SUFFICES ASSUME NEW j \in S, j > i PROVE FALSE
  BY <1>4
<1>6. i \in Nat /\ j \in Nat /\ S \subseteq Nat
  OBVIOUS
<1>7. Above(j) \subseteq Above(i) /\ j \in Above(i) /\ j \notin Above(j)
  <2>1. \A k \in S : k > j => k > i
    BY <1>5, <1>6
  <2>2. Above(j) \subseteq Above(i)
    BY <2>1, ZenonT(30)
  <2>3. j \in Above(i) /\ j \notin Above(j)
    BY <1>5, <1>6
  <2> QED BY <2>2, <2>3, Zenon
<1>8. <<Above(j), Above(i)>> \in StrictSubsetOrdering(S)
  BY <1>7, Zenon DEF StrictSubsetOrdering
<1> QED BY <1>3, <1>4, <1>8, ZenonT(30)

\* LastRecord is the position of the last record of the kind.
LEMMA LastRecordIsLast ==
  ASSUME NEW l \in Seq(LogRecord), NEW kind
  PROVE  /\ LastRecord(l, kind) \in 0 .. Len(l)
         /\ LastRecord(l, kind) # 0 => l[LastRecord(l, kind)].type = kind
         /\ \A i \in 1 .. Len(l) : l[i].type = kind => i <= LastRecord(l, kind)
<1> DEFINE I == {i \in DOMAIN l : l[i].type = kind}
<1>1. DOMAIN l = 1 .. Len(l) /\ Len(l) \in Nat
  OBVIOUS
<1>2. CASE I = {}
  BY <1>1, <1>2 DEF LastRecord
<1>3. CASE I # {}
  <2>1. \E i \in I : \A j \in I : j <= i
    BY <1>1, <1>3, LastExists, ZenonT(30)
  <2>2. /\ LastRecord(l, kind) \in I
        /\ \A j \in I : j <= LastRecord(l, kind)
    BY <2>1, <1>3, Zenon DEF LastRecord
  <2> QED BY <1>1, <2>2
<1> QED BY <1>2, <1>3, Zenon

\* The records of a log by type.
LEMMA RecordTypes ==
  /\ \A n \in prop_t : PropSeen(n) \in LogRecord
  /\ \A n \in prop_t, val \in Views : Accepted(n, val) \in LogRecord
  /\ \A i \in Instances, val \in Views : Done(i, val) \in LogRecord
  /\ \A r \in LogRecord : /\ r.type = "propseen" => r.n \in prop_t
                          /\ r.type = "accepted" => r.n \in prop_t /\ r.v \in Views
                          /\ r.type = "done" => r.instance \in Instances /\ r.v \in Views
BY Zenon DEF LogRecord, PropSeen, Accepted, Done

\* logread() yields an acceptor state, whatever the file holds.
LEMMA ReadTypes ==
  ASSUME NEW l \in Seq(LogRecord), NEW me \in Node
  PROVE  /\ ReadProp(l, "propseen", me) \in prop_t
         /\ ReadProp(l, "accepted", me) \in prop_t
         /\ ReadV_a(l) \in Views
         /\ ReadInstance_h(l) \in Instances \cup {0}
         /\ \A i : ReadValue(l, i) \in Views
<1>1. /\ \A k \in 1 .. Len(l) : l[k] \in LogRecord
      /\ DOMAIN l = 1 .. Len(l) /\ Len(l) \in Nat
  OBVIOUS
<1>2. \A kind : /\ LastRecord(l, kind) \in 0 .. Len(l)
                /\ LastRecord(l, kind) # 0 => l[LastRecord(l, kind)].type = kind
  BY LastRecordIsLast, Zenon
<1>3. \A kind \in {"propseen", "accepted"} : ReadProp(l, kind, me) \in prop_t
  BY <1>1, <1>2, RecordTypes, NodeAssumption DEF ReadProp, Prop, prop_t
<1>4. ReadV_a(l) \in Views
  BY <1>1, <1>2, RecordTypes DEF ReadV_a, NoView, Views
<1>5. ReadInstance_h(l) \in Instances \cup {0}
  BY <1>1, <1>2, RecordTypes DEF ReadInstance_h
<1>6. ASSUME NEW i PROVE ReadValue(l, i) \in Views
  <2> DEFINE D == {k \in DOMAIN l : l[k].type = "done" /\ l[k].instance = i}
  <2>1. CASE D = {}
    BY <2>1, Zenon DEF ReadValue, NoView, Views
  <2>2. CASE D # {}
    <3>1. \E k \in D : \A j \in D : j <= k
      BY <1>1, <2>2, LastExists, ZenonT(30)
    <3>2. PICK k \in D : ReadValue(l, i) = l[k].v
      BY <3>1, <2>2, Zenon DEF ReadValue
    <3> QED BY <1>1, <3>2, RecordTypes, Zenon
  <2> QED BY <2>1, <2>2, Zenon
<1> QED BY <1>3, <1>4, <1>5, <1>6, Zenon

-----------------------------------------------------------------------------
(* Type correctness *)

\* A run has an instance to propose for, and a response belongs to a call.
RunOK ==
  \A p \in Node : /\ phase[p] # "idle" => instance[p] \in Instances
                  /\ reply[p] # NoReply => call[p] # NoCall

TypeInv == TypeOK /\ RunOK

\* The acceptors, proposers and configs start well typed.
LEMMA TypeInvInit == Init => TypeInv
<1> SUFFICES ASSUME Init PROVE TypeInv
  OBVIOUS
<1>1. \A a \in Node : Prop(0, a) \in prop_t /\ Prop(0, 0) \in prop_t
  BY NodeAssumption, Zenon DEF Prop, prop_t
<1>2. <<Done(1, InitView)>> \in Seq(LogRecord)
  BY NodeAssumption, BoundAssumption, RecordTypes DEF Instances, Views
<1>3. TypeOK
  BY <1>1, <1>2, NodeAssumption, BoundAssumption
     DEF Init, TypeOK, Instances, Views, NoView, NoProp
<1>4. RunOK
  BY Zenon DEF Init, RunOK
<1> QED BY <1>3, <1>4, Zenon DEF TypeInv

\* The fields of a request.
LEMMA RequestTypes ==
  ASSUME NEW m \in Request
  PROVE  /\ m.type \in {"prepare", "accept", "decide"}
         /\ m.src \in Node /\ m.dst \in Node /\ m.instance \in Instances
         /\ m.n \in prop_t /\ m.v \in Views /\ m # NoCall
BY DEF Request, NoCall

\* The fields of a response, and the responses that the handlers make.
LEMMA ResponseTypes ==
  /\ \A r \in Response : /\ r.type \in {"oldinstance", "accept", "reject"}
                         /\ r.n_a \in prop_t /\ r.v_a \in Views /\ r # NoReply
  /\ \A t \in {"oldinstance", "accept", "reject"}, n \in prop_t, w \in Views :
       [type |-> t, n_a |-> n, v_a |-> w] \in Response
BY DEF Response, NoReply

\* acceptor::preparereq keeps the types.
LEMMA TypePrepare ==
  ASSUME TypeInv, NEW m \in reqs, preparereq(m)
  PROVE  TypeInv'
<1> DEFINE a == m.dst
<1>1. NoProp \in prop_t /\ NoView \in Views
  BY Zenon DEF NoProp, Prop, prop_t, NoView, Views
<1>2. /\ m \in Request /\ a \in Node /\ m.src \in Node /\ m.n \in prop_t
      /\ values[a][m.instance] \in Views /\ n_a[a] \in prop_t /\ v_a[a] \in Views
  BY RequestTypes DEF TypeInv, TypeOK
<1>3. Append(plog[a], PropSeen(m.n)) \in Seq(LogRecord)
  BY <1>2, RecordTypes DEF TypeInv, TypeOK
<1>4. n_h' \in [Node -> prop_t]
  BY <1>2, ZenonT(30) DEF preparereq, TypeInv, TypeOK
<1>5. plog' \in [Node -> Seq(LogRecord)]
  BY <1>2, <1>3, ZenonT(30) DEF preparereq, TypeInv, TypeOK, logprop
<1>6. \E r \in Response : Respond(m, r)
  BY <1>1, <1>2, ResponseTypes, Zenon DEF preparereq
<1>7. reply' \in [Node -> Response \cup {NoReply}]
  BY <1>2, <1>6, Zenon DEF TypeInv, TypeOK, Respond
<1>8. TypeOK'
  BY <1>4, <1>5, <1>7, Zenon DEF preparereq, TypeInv, TypeOK, configVars, runVars
<1>9. RunOK'
  BY <1>2, RequestTypes, ResponseTypes
     DEF preparereq, TypeInv, TypeOK, RunOK, configVars, runVars, Respond
<1> QED BY <1>8, <1>9, Zenon DEF TypeInv

\* acceptor::acceptreq keeps the types.
LEMMA TypeAccept ==
  ASSUME TypeInv, NEW m \in reqs, acceptreq(m)
  PROVE  TypeInv'
<1> DEFINE a == m.dst
<1>1. NoProp \in prop_t /\ NoView \in Views
  BY Zenon DEF NoProp, Prop, prop_t, NoView, Views
<1>2. m \in Request /\ a \in Node /\ m.src \in Node /\ m.n \in prop_t /\ m.v \in Views
  BY RequestTypes, Zenon DEF TypeInv, TypeOK
<1>3. Append(plog[a], Accepted(m.n, m.v)) \in Seq(LogRecord)
  BY <1>2, RecordTypes DEF TypeInv, TypeOK
<1>4. n_a' \in [Node -> prop_t] /\ v_a' \in [Node -> Views]
  BY <1>2, ZenonT(30) DEF acceptreq, TypeInv, TypeOK
<1>5. plog' \in [Node -> Seq(LogRecord)]
  <2>1. plog' = plog \/ plog' = [plog EXCEPT ![a] = Append(plog[a], Accepted(m.n, m.v))]
    BY Zenon DEF acceptreq, logaccept, TypeInv, TypeOK
  <2> QED BY <1>2, <1>3, <2>1, ZenonT(30) DEF TypeInv, TypeOK
<1>6. \E r \in Response : Respond(m, r)
  BY <1>1, <1>2, ResponseTypes, Zenon DEF acceptreq
<1>7. reply' \in [Node -> Response \cup {NoReply}]
  BY <1>2, <1>6, Zenon DEF TypeInv, TypeOK, Respond
<1>8. TypeOK'
  BY <1>4, <1>5, <1>7, Zenon DEF acceptreq, TypeInv, TypeOK, configVars, runVars
<1>9. RunOK'
  BY <1>2, RequestTypes, ResponseTypes
     DEF acceptreq, TypeInv, TypeOK, RunOK, configVars, runVars, Respond
<1> QED BY <1>8, <1>9, Zenon DEF TypeInv

\* commit_wo keeps the types of the acceptor, the log and the upcalls.
LEMMA TypeCommit ==
  ASSUME TypeInv, NEW a \in Node, NEW i \in Instances, NEW val \in Views,
         NEW req \in Request, commit_wo(a, i, val, req)
  PROVE  /\ values' \in [Node -> [Instances -> Views]]
         /\ plog' \in [Node -> Seq(LogRecord)]
         /\ instance_h' \in [Node -> Instances \cup {0}]
         /\ n_h' \in [Node -> prop_t] /\ n_a' \in [Node -> prop_t]
         /\ v_a' \in [Node -> Views]
         /\ upcalls' \in [Node -> SUBSET [instance : Instances, v : Views, req : Request]]
<1>1. Prop(0, a) \in prop_t /\ NoView \in Views
  BY NodeAssumption, Zenon DEF Prop, prop_t, NoView, Views
<1>2. Append(plog[a], Done(i, val)) \in Seq(LogRecord)
  BY RecordTypes DEF TypeInv, TypeOK
<1>3. plog' \in [Node -> Seq(LogRecord)]
  BY <1>2, Zenon DEF TypeInv, TypeOK, commit_wo, loginstance
<1>4. values' \in [Node -> [Instances -> Views]]
  BY Zenon DEF TypeInv, TypeOK, commit_wo
<1>5. instance_h' \in [Node -> Instances \cup {0}]
  BY Zenon DEF TypeInv, TypeOK, commit_wo
<1>6. /\ n_h' \in [Node -> prop_t] /\ n_a' \in [Node -> prop_t]
      /\ v_a' \in [Node -> Views]
  BY <1>1, Zenon DEF TypeInv, TypeOK, commit_wo
<1>7. upcalls' \in [Node -> SUBSET [instance : Instances, v : Views, req : Request]]
  BY DEF TypeInv, TypeOK, commit_wo
<1> QED BY <1>3, <1>4, <1>5, <1>6, <1>7, Zenon

\* What logread() rebuilds after a crash is well typed.
LEMMA TypeRestart ==
  ASSUME TypeInv, NEW a \in Node, RestartFrom(a), faults' \in Nat
  PROVE  TypeInv'
<1>1. /\ Prop(0, a) \in prop_t /\ NoProp \in prop_t /\ NoView \in Views
  BY NodeAssumption, Zenon DEF NoProp, Prop, prop_t, NoView, Views
<1>2. plog[a] \in Seq(LogRecord)
  BY Zenon DEF TypeInv, TypeOK
<1>3. /\ ReadProp(plog[a], "propseen", a) \in prop_t
      /\ ReadProp(plog[a], "accepted", a) \in prop_t
      /\ ReadV_a(plog[a]) \in Views
      /\ ReadInstance_h(plog[a]) \in Instances \cup {0}
      /\ \A i : ReadValue(plog[a], i) \in Views
  BY <1>2, ReadTypes, Zenon
<1>4. /\ n_h' \in [Node -> prop_t] /\ n_a' \in [Node -> prop_t]
      /\ v_a' \in [Node -> Views]
      /\ instance_h' \in [Node -> Instances \cup {0}]
      /\ values' \in [Node -> [Instances -> Views]]
      /\ plog' \in [Node -> Seq(LogRecord)]
  BY <1>3, Zenon DEF TypeInv, TypeOK, RestartFrom
<1>5. /\ myvid' \in [Node -> Instances \cup {0}] /\ mems' \in [Node -> Views]
      /\ upcalls' \in [Node -> SUBSET [instance : Instances, v : Views, req : Request]]
      /\ proposal' \in [Node -> Arguments \cup {NoProposal}]
  BY <1>3, Zenon DEF TypeInv, TypeOK, RestartFrom, reconstruct
<1>6. /\ my_n' \in [Node -> prop_t]
      /\ phase' \in [Node -> {"idle", "prepare", "accept", "decide"}]
      /\ instance' \in [Node -> Instances \cup {0}]
      /\ cur_nodes' \in [Node -> Views] /\ newv' \in [Node -> Views]
      /\ todo' \in [Node -> Views] /\ accepts' \in [Node -> Views]
      /\ v' \in [Node -> Views] /\ highest_seen' \in [Node -> prop_t]
  BY <1>1, Zenon DEF TypeInv, TypeOK, RestartFrom, NoView
<1>7. /\ call' \in [Node -> Request \cup {NoCall}]
      /\ reply' \in [Node -> Response \cup {NoReply}]
      /\ reqs' \subseteq Request
  BY Zenon DEF TypeInv, TypeOK, RestartFrom
<1>8. \A p \in Node : /\ phase'[p] = "prepare" => newv'[p] # NoView
                      /\ phase'[p] \in {"accept", "decide"} => v'[p] # NoView
  BY Zenon DEF TypeInv, TypeOK, RestartFrom
<1>9. RunOK'
  BY Zenon DEF TypeInv, TypeOK, RunOK, RestartFrom
<1> QED BY <1>4, <1>5, <1>6, <1>7, <1>8, <1>9, Zenon DEF TypeInv, TypeOK

\* acceptor::decidereq keeps the types.
LEMMA TypeDecide ==
  ASSUME TypeInv, NEW m \in reqs, decidereq(m)
  PROVE  TypeInv'
<1> DEFINE a == m.dst
<1>1. m \in Request /\ a \in Node /\ m.src \in Node /\ m.instance \in Instances
  BY RequestTypes, Zenon DEF TypeInv, TypeOK
<1>2. CASE RestartFrom(a)
  BY <1>1, <1>2, TypeRestart, ZenonT(30) DEF decidereq, TypeInv, TypeOK
<1>3. CASE /\ commit_wo(a, m.instance, v_a[a], m)
           /\ reqs' = reqs \ {m}
           /\ UNCHANGED <<myvid, mems, proposal, my_n, phase, runVars, call, reply>>
  <2>1. v_a[a] \in Views
    BY <1>1, ZenonT(30) DEF TypeInv, TypeOK
  <2>2. TypeOK'
    BY <1>1, <1>3, <2>1, TypeCommit, ZenonT(30) DEF decidereq, TypeInv, TypeOK, runVars
  <2>3. RunOK'
    BY <1>3, Zenon DEF TypeInv, TypeOK, RunOK, runVars
  <2> QED BY <2>2, <2>3, Zenon DEF TypeInv
<1>4. CASE /\ Respond(m, [type |-> "accept", n_a |-> NoProp, v_a |-> NoView])
           /\ reqs' = reqs \ {m}
           /\ UNCHANGED <<acceptorVars, configVars, my_n, phase, runVars, call>>
  <2>1. [type |-> "accept", n_a |-> NoProp, v_a |-> NoView] \in Response
    BY ResponseTypes, ZenonT(30) DEF NoProp, Prop, prop_t, NoView, Views
  <2>2. reply' \in [Node -> Response \cup {NoReply}]
    BY <1>1, <1>4, <2>1, Zenon DEF TypeInv, TypeOK, Respond
  <2>3. TypeOK'
    BY <1>4, <2>2, Zenon DEF decidereq, TypeInv, TypeOK, acceptorVars, configVars, runVars
  <2>4. RunOK'
    BY <1>1, <1>4, RequestTypes, Zenon DEF TypeInv, TypeOK, RunOK, runVars, Respond
  <2> QED BY <2>3, <2>4, Zenon DEF TypeInv
<1> QED BY <1>2, <1>3, <1>4, ZenonT(30) DEF decidereq

\* proposer::run leaves the proposer idle when it returns.
LEMMA TypeReturn ==
  ASSUME TypeInv, NEW p \in Node, ReturnFromRun(p)
  PROVE  /\ phase' \in [Node -> {"idle", "prepare", "accept", "decide"}]
         /\ instance' \in [Node -> Instances \cup {0}]
         /\ cur_nodes' \in [Node -> Views] /\ newv' \in [Node -> Views]
         /\ todo' \in [Node -> Views] /\ accepts' \in [Node -> Views]
         /\ v' \in [Node -> Views] /\ highest_seen' \in [Node -> prop_t]
         /\ \A q \in Node : /\ phase'[q] = "prepare" => newv'[q] # NoView
                            /\ phase'[q] \in {"accept", "decide"} => v'[q] # NoView
                            /\ phase'[q] # "idle" => instance'[q] \in Instances
<1>1. NoProp \in prop_t /\ NoView \in Views /\ {} \in Views
  BY Zenon DEF NoProp, Prop, prop_t, NoView, Views
<1>2. /\ phase' \in [Node -> {"idle", "prepare", "accept", "decide"}]
      /\ instance' \in [Node -> Instances \cup {0}]
      /\ cur_nodes' \in [Node -> Views] /\ newv' \in [Node -> Views]
      /\ todo' \in [Node -> Views] /\ accepts' \in [Node -> Views]
      /\ v' \in [Node -> Views] /\ highest_seen' \in [Node -> prop_t]
  BY <1>1, Zenon DEF TypeInv, TypeOK, ReturnFromRun
<1>3. \A q \in Node : /\ phase'[q] = "prepare" => newv'[q] # NoView
                      /\ phase'[q] \in {"accept", "decide"} => v'[q] # NoView
                      /\ phase'[q] # "idle" => instance'[q] \in Instances
  BY Zenon DEF TypeInv, TypeOK, RunOK, ReturnFromRun
<1> QED BY <1>2, <1>3, Zenon

\* paxos_commit and the two proposals of config keep the types.
LEMMA TypeConfig ==
  ASSUME TypeInv, NEW p \in Node, ConfigStep(p)
  PROVE  TypeInv'
<1>1. ASSUME NEW u \in upcalls[p], paxos_commit(p, u)
      PROVE  TypeInv'
  <2>1. u.instance \in Instances /\ u.v \in Views /\ u.req \in Request
    BY DEF TypeInv, TypeOK
  <2>2. /\ upcalls' \in [Node -> SUBSET [instance : Instances, v : Views, req : Request]]
        /\ mems' \in [Node -> Views] /\ myvid' \in [Node -> Instances \cup {0}]
    BY <1>1, <2>1, Zenon DEF paxos_commit, TypeInv, TypeOK
  <2>3. CASE /\ Respond(u.req, [type |-> "accept", n_a |-> NoProp, v_a |-> NoView])
             /\ UNCHANGED <<phase, runVars, call>>
    <3>1. [type |-> "accept", n_a |-> NoProp, v_a |-> NoView] \in Response
      BY ResponseTypes, Zenon DEF NoProp, Prop, prop_t, NoView, Views
    <3>2. reply' \in [Node -> Response \cup {NoReply}]
      BY <2>1, <2>3, <3>1, RequestTypes, Zenon DEF TypeInv, TypeOK, Respond
    <3>3. TypeOK'
      BY <1>1, <2>2, <2>3, <3>2, Zenon DEF paxos_commit, TypeInv, TypeOK, acceptorVars, runVars
    <3>4. RunOK'
      BY <2>1, <2>3, RequestTypes, Zenon DEF TypeInv, TypeOK, RunOK, runVars, Respond
    <3> QED BY <3>3, <3>4, Zenon DEF TypeInv
  <2>4. CASE /\ ReturnFromRun(p)
             /\ call' = [call EXCEPT ![p] = NoCall]
             /\ reply' = [reply EXCEPT ![p] = NoReply]
    <3>1. /\ call' \in [Node -> Request \cup {NoCall}]
          /\ reply' \in [Node -> Response \cup {NoReply}]
      BY <2>4, Zenon DEF TypeInv, TypeOK
    <3>2. TypeOK'
      BY <1>1, <2>2, <2>4, <3>1, TypeReturn, Zenon DEF paxos_commit, TypeInv, TypeOK, acceptorVars
    <3>3. RunOK'
      BY <2>4, TypeReturn, Zenon DEF TypeInv, TypeOK, RunOK
    <3> QED BY <3>2, <3>3, Zenon DEF TypeInv
  <2> QED BY <1>1, <2>3, <2>4, Zenon DEF paxos_commit
<1>2. ASSUME NEW view \in Views, view # NoView, Propose(p, view)
      PROVE  TypeInv'
  <2>1. myvid[p] \in Nat /\ myvid[p] + 1 \in Instances /\ mems[p] \in Views
    BY <1>2, BoundAssumption, SMTT(30) DEF Propose, TypeInv, TypeOK, Instances
  <2>2. proposal' \in [Node -> Arguments \cup {NoProposal}]
    BY <1>2, <2>1, ZenonT(30) DEF Propose, TypeInv, TypeOK, Arguments
  <2>3. TypeOK'
    BY <1>2, <2>2, ZenonT(30) DEF Propose, TypeInv, TypeOK, acceptorVars, runVars
  <2>4. RunOK'
    BY <1>2, ZenonT(30) DEF Propose, TypeInv, RunOK, runVars
  <2> QED BY <2>3, <2>4, Zenon DEF TypeInv
<1>3. ASSUME NEW m \in Node, remove_wo(p, m)
      PROVE  TypeInv'
  <2>1. mems[p] \ {m} \in Views /\ mems[p] \ {m} # NoView
    BY <1>3, Zenon DEF remove_wo, Propose, Pinged, TypeInv, TypeOK, Views, NoView
  <2> QED BY <1>2, <1>3, <2>1, Zenon DEF remove_wo
<1>4. ASSUME NEW m \in Node, add(p, m)
      PROVE  TypeInv'
  <2>1. mems[p] \cup {m} \in Views /\ mems[p] \cup {m} # NoView
    BY <1>4, Zenon DEF TypeInv, TypeOK, Views, NoView
  <2> QED BY <1>2, <1>4, <2>1, Zenon DEF add
<1> QED BY <1>1, <1>3, <1>4, Zenon DEF ConfigStep

\* The start of proposer::run keeps the types.
LEMMA TypeRun ==
  ASSUME TypeInv, NEW p \in Node, run(p)
  PROVE  TypeInv'
<1> DEFINE w == proposal[p]
<1>1. w.instance \in Instances /\ w.cur_nodes \in Views /\ w.newv \in Views /\ w.newv # NoView
  BY Zenon DEF run, TypeInv, TypeOK, Arguments
<1>2. Prop(setn(p), p) \in prop_t /\ NoProp \in prop_t /\ NoView \in Views
  BY NodeAssumption DEF setn, TypeInv, TypeOK, NoProp, Prop, prop_t, NoView, Views
<1>3. proposal' \in [Node -> Arguments \cup {NoProposal}]
  BY Zenon DEF run, TypeInv, TypeOK
<1>4. CASE phase[p] = "idle"
  <2>1. /\ my_n' \in [Node -> prop_t]
        /\ phase' \in [Node -> {"idle", "prepare", "accept", "decide"}]
        /\ instance' \in [Node -> Instances \cup {0}]
        /\ cur_nodes' \in [Node -> Views] /\ newv' \in [Node -> Views]
        /\ todo' \in [Node -> Views] /\ accepts' \in [Node -> Views]
        /\ v' \in [Node -> Views] /\ highest_seen' \in [Node -> prop_t]
    <3> DEFINE k == Prop(setn(p), p)
    <3>0. /\ my_n' = [my_n EXCEPT ![p] = k]
          /\ phase' = [phase EXCEPT ![p] = "prepare"]
          /\ instance' = [instance EXCEPT ![p] = w.instance]
          /\ todo' = [todo EXCEPT ![p] = w.cur_nodes]
          /\ accepts' = [accepts EXCEPT ![p] = NoView]
          /\ v' = [v EXCEPT ![p] = NoView]
          /\ highest_seen' = [highest_seen EXCEPT ![p] = NoProp]
          /\ k \in prop_t
      BY <1>2, <1>4, Zenon DEF run, NoView
    <3> HIDE DEF k, w
    <3>1. /\ my_n' \in [Node -> prop_t]
          /\ phase' \in [Node -> {"idle", "prepare", "accept", "decide"}]
          /\ instance' \in [Node -> Instances \cup {0}]
      BY <1>1, <3>0, Zenon DEF TypeInv, TypeOK
    <3>2. cur_nodes' \in [Node -> Views] /\ newv' \in [Node -> Views]
      BY <1>1, <1>4, ZenonT(30) DEF run, TypeInv, TypeOK, w
    <3>3. /\ todo' \in [Node -> Views] /\ accepts' \in [Node -> Views]
          /\ v' \in [Node -> Views] /\ highest_seen' \in [Node -> prop_t]
      BY <1>1, <1>2, <3>0, ZenonT(30) DEF TypeInv, TypeOK
    <3> QED BY <3>1, <3>2, <3>3, Zenon
  <2>2. \A q \in Node : /\ phase'[q] = "prepare" => newv'[q] # NoView
                        /\ phase'[q] \in {"accept", "decide"} => v'[q] # NoView
                        /\ phase'[q] # "idle" => instance'[q] \in Instances
    BY <1>1, <1>4, SMTT(30) DEF run, TypeInv, TypeOK, RunOK
  <2>3. TypeOK'
    BY <1>3, <2>1, <2>2, ZenonT(30) DEF run, TypeInv, TypeOK, acceptorVars
  <2>4. RunOK'
    BY <2>2, ZenonT(30) DEF run, TypeInv, RunOK
  <2> QED BY <2>3, <2>4, Zenon DEF TypeInv
<1>5. CASE phase[p] # "idle"
  BY <1>3, <1>5, ZenonT(30) DEF run, TypeInv, TypeOK, RunOK, acceptorVars, runVars
<1> QED BY <1>4, <1>5, Zenon

\* The next call of a phase keeps the types.
LEMMA TypeCall ==
  ASSUME TypeInv, NEW p \in Node, NEW a \in Node, CallNext(p, a)
  PROVE  TypeInv'
<1> DEFINE m == [type |-> phase[p], src |-> p, dst |-> a, instance |-> instance[p],
                 n |-> IF phase[p] = "decide" THEN NoProp ELSE my_n[p],
                 v |-> IF phase[p] = "prepare" THEN NoView ELSE v[p]]
<1>1. m \in Request
  <2>1. /\ phase[p] \in {"prepare", "accept", "decide"} /\ instance[p] \in Instances
        /\ my_n[p] \in prop_t /\ v[p] \in Views
    BY Zenon DEF CallNext, TypeInv, TypeOK, RunOK
  <2>2. NoProp \in prop_t /\ NoView \in Views
    BY Zenon DEF NoProp, Prop, prop_t, NoView, Views
  <2> QED BY <2>1, <2>2, ZenonT(30) DEF Request
<1>2. todo' \in [Node -> Views]
  BY Zenon DEF CallNext, TypeInv, TypeOK, Views
<1>3. /\ call' \in [Node -> Request \cup {NoCall}]
      /\ reqs' \subseteq Request /\ faults' \in Nat
  BY <1>1 DEF CallNext, TypeInv, TypeOK
<1>4. TypeOK'
  BY <1>2, <1>3, Zenon DEF CallNext, TypeInv, TypeOK, acceptorVars, configVars
<1>5. RunOK'
  BY Zenon DEF CallNext, TypeInv, TypeOK, RunOK
<1> QED BY <1>4, <1>5, Zenon DEF TypeInv

\* A call that times out keeps the types.
LEMMA TypeTimeOut ==
  ASSUME TypeInv, NEW p \in Node, TimeOut(p)
  PROVE  TypeInv'
<1>1. /\ call' \in [Node -> Request \cup {NoCall}]
      /\ reply' \in [Node -> Response \cup {NoReply}]
      /\ faults' \in Nat
  BY DEF TimeOut, TypeInv, TypeOK
<1>2. TypeOK'
  BY <1>1, Zenon DEF TimeOut, TypeInv, TypeOK, acceptorVars, configVars, runVars
<1>3. RunOK'
  BY Zenon DEF TimeOut, TypeInv, TypeOK, RunOK, runVars
<1> QED BY <1>2, <1>3, Zenon DEF TypeInv

\* What prepare() does with a response keeps the types.
LEMMA TypePrepareReply ==
  ASSUME TypeInv, NEW p \in Node, PrepareReply(p)
  PROVE  TypeInv'
<1> DEFINE r == reply[p]
<1>1. /\ r \in Response /\ r.n_a \in prop_t /\ r.v_a \in Views
      /\ call[p] \in Request /\ call[p].dst \in Node /\ instance[p] \in Instances
  BY ResponseTypes, RequestTypes, ZenonT(60) DEF PrepareReply, TypeInv, TypeOK, RunOK
<1>2. reply' \in [Node -> Response \cup {NoReply}]
  BY ZenonT(30) DEF PrepareReply, TypeInv, TypeOK
<1>3. CASE /\ commit_wo(p, instance[p], r.v_a, call[p])
           /\ UNCHANGED <<phase, runVars, call>>
  <2>1. TypeOK'
    BY <1>1, <1>2, <1>3, TypeCommit, ZenonT(30) DEF PrepareReply, TypeInv, TypeOK, runVars
  <2>2. RunOK'
    BY <1>3, ZenonT(30) DEF PrepareReply, TypeInv, TypeOK, RunOK, runVars
  <2> QED BY <2>1, <2>2, Zenon DEF TypeInv
<1>4. CASE /\ ReturnFromRun(p)
           /\ call' = [call EXCEPT ![p] = NoCall]
           /\ UNCHANGED <<acceptorVars, upcalls>>
  <2>1. call' \in [Node -> Request \cup {NoCall}]
    BY <1>4, Zenon DEF TypeInv, TypeOK
  <2>2. TypeOK'
    BY <1>2, <1>4, <2>1, TypeReturn, ZenonT(30) DEF PrepareReply, TypeInv, TypeOK, acceptorVars
  <2>3. RunOK'
    BY <1>4, TypeReturn, ZenonT(30) DEF PrepareReply, TypeInv, TypeOK, RunOK
  <2> QED BY <2>2, <2>3, Zenon DEF TypeInv
<1>5. CASE /\ accepts' = [accepts EXCEPT ![p] = @ \cup {call[p].dst}]
           /\ highest_seen' = [highest_seen EXCEPT ![p] = IF Gt(r.n_a, @) THEN r.n_a ELSE @]
           /\ v' = [v EXCEPT ![p] = IF Gt(r.n_a, highest_seen[p]) THEN r.v_a ELSE @]
           /\ call' = [call EXCEPT ![p] = NoCall]
           /\ UNCHANGED <<acceptorVars, upcalls, phase, instance, cur_nodes, newv, todo>>
  <2>1. accepts' \in [Node -> Views]
    BY <1>1, <1>5, ZenonT(30) DEF TypeInv, TypeOK, Views
  <2>2. highest_seen' \in [Node -> prop_t] /\ v' \in [Node -> Views]
    BY <1>1, <1>5, ZenonT(30) DEF TypeInv, TypeOK
  <2>3. call' \in [Node -> Request \cup {NoCall}]
    BY <1>5, Zenon DEF TypeInv, TypeOK
  <2>4. \A q \in Node : /\ phase'[q] = "prepare" => newv'[q] # NoView
                        /\ phase'[q] \in {"accept", "decide"} => v'[q] # NoView
    BY <1>5, ZenonT(30) DEF PrepareReply, TypeInv, TypeOK
  <2>5. TypeOK'
    BY <1>2, <1>5, <2>1, <2>2, <2>3, <2>4, ZenonT(30) DEF PrepareReply, TypeInv, TypeOK, acceptorVars
  <2>6. RunOK'
    BY <1>5, ZenonT(30) DEF PrepareReply, TypeInv, TypeOK, RunOK
  <2> QED BY <2>5, <2>6, Zenon DEF TypeInv
<1>6. CASE /\ call' = [call EXCEPT ![p] = NoCall]
           /\ UNCHANGED <<acceptorVars, upcalls, phase, runVars>>
  <2>1. call' \in [Node -> Request \cup {NoCall}]
    BY <1>6, Zenon DEF TypeInv, TypeOK
  <2>2. TypeOK'
    BY <1>2, <1>6, <2>1, ZenonT(30) DEF PrepareReply, TypeInv, TypeOK, acceptorVars, runVars
  <2>3. RunOK'
    BY <1>6, ZenonT(30) DEF PrepareReply, TypeInv, TypeOK, RunOK, runVars
  <2> QED BY <2>2, <2>3, Zenon DEF TypeInv
<1> QED BY <1>3, <1>4, <1>5, <1>6, Zenon DEF PrepareReply

\* A step that ends the run and leaves the rest alone.
LEMMA TypeEndOfRun ==
  ASSUME TypeInv, NEW p \in Node, ReturnFromRun(p),
         UNCHANGED <<acceptorVars, configVars, my_n, call, reply, reqs, faults>>
  PROVE  TypeInv'
<1>1. TypeOK'
  BY TypeReturn, Zenon DEF TypeInv, TypeOK, acceptorVars, configVars
<1>2. RunOK'
  BY TypeReturn, Zenon DEF TypeInv, TypeOK, RunOK
<1> QED BY <1>1, <1>2, Zenon DEF TypeInv

\* The end of the first phase keeps the types.
LEMMA TypeEndPrepare ==
  ASSUME TypeInv, NEW p \in Node, EndPrepare(p)
  PROVE  TypeInv'
<1>1. CASE ReturnFromRun(p)
  BY <1>1, TypeEndOfRun, ZenonT(30) DEF EndPrepare
<1>2. CASE /\ phase' = [phase EXCEPT ![p] = "accept"]
           /\ v' = [v EXCEPT ![p] = ValueToPropose(p)]
           /\ todo' = [todo EXCEPT ![p] = accepts[p]]
           /\ accepts' = [accepts EXCEPT ![p] = {}]
           /\ newv' = [newv EXCEPT ![p] = NoView]
           /\ highest_seen' = [highest_seen EXCEPT ![p] = NoProp]
           /\ UNCHANGED <<instance, cur_nodes>>
  <2>1. NoProp \in prop_t /\ NoView \in Views /\ {} \in Views
    BY Zenon DEF NoProp, Prop, prop_t, NoView, Views
  <2>2. ValueToPropose(p) \in Views /\ ValueToPropose(p) # NoView
    BY ZenonT(30) DEF EndPrepare, ValueToPropose, TypeInv, TypeOK
  <2>3. /\ phase' \in [Node -> {"idle", "prepare", "accept", "decide"}]
        /\ newv' \in [Node -> Views]
        /\ todo' \in [Node -> Views] /\ accepts' \in [Node -> Views]
        /\ highest_seen' \in [Node -> prop_t]
    BY <1>2, <2>1, Zenon DEF TypeInv, TypeOK
  <2>4. v' \in [Node -> Views]
    BY <1>2, <2>2, Zenon DEF TypeInv, TypeOK
  <2>5. \A q \in Node : /\ phase'[q] = "prepare" => newv'[q] # NoView
                        /\ phase'[q] \in {"accept", "decide"} => v'[q] # NoView
    BY <1>2, <2>2, Zenon DEF TypeInv, TypeOK
  <2>6. TypeOK'
    BY <1>2, <2>3, <2>4, <2>5, ZenonT(30) DEF EndPrepare, TypeInv, TypeOK, acceptorVars, configVars
  <2>7. RunOK'
    BY <1>2, ZenonT(30) DEF EndPrepare, TypeInv, TypeOK, RunOK
  <2> QED BY <2>6, <2>7, Zenon DEF TypeInv
<1> QED BY <1>1, <1>2, ZenonT(30) DEF EndPrepare

\* What accept() does with a response keeps the types.
LEMMA TypeAcceptReply ==
  ASSUME TypeInv, NEW p \in Node, AcceptReply(p)
  PROVE  TypeInv'
<1>1. call[p] \in Request /\ call[p].dst \in Node
  BY RequestTypes, Zenon DEF AcceptReply, TypeInv, TypeOK, RunOK
<1>2. accepts' \in [Node -> Views]
  BY <1>1, ZenonT(30) DEF AcceptReply, TypeInv, TypeOK, Views
<1>3. /\ call' \in [Node -> Request \cup {NoCall}]
      /\ reply' \in [Node -> Response \cup {NoReply}]
  BY Zenon DEF AcceptReply, TypeInv, TypeOK
<1>4. TypeOK'
  BY <1>2, <1>3, Zenon DEF AcceptReply, TypeInv, TypeOK, acceptorVars, configVars
<1>5. RunOK'
  BY Zenon DEF AcceptReply, TypeInv, TypeOK, RunOK
<1> QED BY <1>4, <1>5, Zenon DEF TypeInv

\* The end of the second phase keeps the types.
LEMMA TypeEndAccept ==
  ASSUME TypeInv, NEW p \in Node, EndAccept(p)
  PROVE  TypeInv'
<1>1. CASE ReturnFromRun(p)
  BY <1>1, TypeEndOfRun, ZenonT(30) DEF EndAccept
<1>2. CASE /\ phase' = [phase EXCEPT ![p] = "decide"]
           /\ todo' = [todo EXCEPT ![p] = accepts[p]]
           /\ UNCHANGED <<instance, cur_nodes, newv, accepts, v, highest_seen>>
  <2>1. /\ phase' \in [Node -> {"idle", "prepare", "accept", "decide"}]
        /\ todo' \in [Node -> Views]
    BY <1>2, Zenon DEF TypeInv, TypeOK
  <2>2. \A q \in Node : /\ phase'[q] = "prepare" => newv'[q] # NoView
                        /\ phase'[q] \in {"accept", "decide"} => v'[q] # NoView
    BY <1>2, Zenon DEF EndAccept, TypeInv, TypeOK
  <2>3. TypeOK'
    BY <1>2, <2>1, <2>2, Zenon DEF EndAccept, TypeInv, TypeOK, acceptorVars, configVars
  <2>4. RunOK'
    BY <1>2, Zenon DEF EndAccept, TypeInv, TypeOK, RunOK
  <2> QED BY <2>3, <2>4, Zenon DEF TypeInv
<1> QED BY <1>1, <1>2, ZenonT(30) DEF EndAccept

\* What decide() does with a response keeps the types.
LEMMA TypeDecideReply ==
  ASSUME TypeInv, NEW p \in Node, DecideReply(p)
  PROVE  TypeInv'
<1>1. /\ call' \in [Node -> Request \cup {NoCall}]
      /\ reply' \in [Node -> Response \cup {NoReply}]
  BY Zenon DEF DecideReply, TypeInv, TypeOK
<1>2. TypeOK'
  BY <1>1, Zenon DEF DecideReply, TypeInv, TypeOK, acceptorVars, configVars, runVars
<1>3. RunOK'
  BY Zenon DEF DecideReply, TypeInv, TypeOK, RunOK, runVars
<1> QED BY <1>2, <1>3, Zenon DEF TypeInv

\* Every step keeps the types.
LEMMA TypeNext == TypeInv /\ [Next]_vars => TypeInv'
<1> SUFFICES ASSUME TypeInv, [Next]_vars PROVE TypeInv'
  OBVIOUS
<1>1. CASE UNCHANGED vars
  BY <1>1, Zenon DEF TypeInv, TypeOK, RunOK, vars, acceptorVars, configVars, runVars
<1>2. ASSUME NEW m \in reqs, preparereq(m) \/ acceptreq(m) \/ decidereq(m)
      PROVE  TypeInv'
  BY <1>2, TypePrepare, TypeAccept, TypeDecide, Zenon
<1>3. ASSUME NEW p \in Node, ProposerStep(p)
      PROVE  TypeInv'
  BY <1>3, TypeRun, TypeCall, TypeTimeOut, TypePrepareReply, TypeEndPrepare, TypeAcceptReply,
     TypeEndAccept, TypeDecideReply, TypeEndOfRun, Zenon DEF ProposerStep, EndDecide
<1>4. ASSUME NEW p \in Node, Crash(p)
      PROVE  TypeInv'
  BY <1>4, TypeRestart, SMTT(30) DEF Crash, TypeInv, TypeOK
<1> QED BY <1>1, <1>2, <1>3, <1>4, TypeConfig, Zenon DEF Next

\* Every reachable state of the protocol is well typed, and no run ever
\* proposes the empty view.
THEOREM TypeCorrect == Spec => []TypeOK
<1>1. TypeInv => TypeOK
  BY Zenon DEF TypeInv
<1> QED BY <1>1, TypeInvInit, TypeNext, PTL DEF Spec

-----------------------------------------------------------------------------
(* One more record *)

\* What an appended record does to LastRecord.
LEMMA LastRecordOfAppend ==
  ASSUME NEW l \in Seq(LogRecord), NEW r \in LogRecord, NEW kind
  PROVE  LastRecord(Append(l, r), kind) =
           IF r.type = kind THEN Len(l) + 1 ELSE LastRecord(l, kind)
<1> DEFINE L == Append(l, r)
           k == LastRecord(L, kind)
           k0 == LastRecord(l, kind)
<1>1. /\ L \in Seq(LogRecord) /\ Len(L) = Len(l) + 1 /\ Len(l) \in Nat
      /\ L[Len(l) + 1] = r
      /\ \A i \in 1 .. Len(l) : L[i] = l[i]
  OBVIOUS
<1>2. /\ k \in 0 .. Len(L)
      /\ k # 0 => L[k].type = kind
      /\ \A i \in 1 .. Len(L) : L[i].type = kind => i <= k
  BY <1>1, LastRecordIsLast, ZenonT(30)
<1>3. /\ k0 \in 0 .. Len(l)
      /\ k0 # 0 => l[k0].type = kind
      /\ \A i \in 1 .. Len(l) : l[i].type = kind => i <= k0
  BY LastRecordIsLast, Zenon
<1> HIDE DEF k, k0, L
<1>4. k = IF r.type = kind THEN Len(l) + 1 ELSE k0
  BY <1>1, <1>2, <1>3
<1> QED BY <1>4, Zenon DEF k, k0, L

\* The view of an instance after one more record.
LEMMA ReadValueOfAppend ==
  ASSUME NEW l \in Seq(LogRecord), NEW r \in LogRecord, NEW i
  PROVE  ReadValue(Append(l, r), i) =
           IF r.type = "done" /\ r.instance = i THEN r.v ELSE ReadValue(l, i)
<1> DEFINE L == Append(l, r)
           D(f) == {k \in DOMAIN f : f[k].type = "done" /\ f[k].instance = i}
<1>1. /\ L \in Seq(LogRecord) /\ Len(L) = Len(l) + 1 /\ Len(l) \in Nat
      /\ L[Len(l) + 1] = r
      /\ \A k \in 1 .. Len(l) : L[k] = l[k]
      /\ DOMAIN l = 1 .. Len(l) /\ DOMAIN L = 1 .. Len(l) + 1
  OBVIOUS
<1>2. CASE r.type = "done" /\ r.instance = i
  <2>1. Len(l) + 1 \in D(L) /\ \A j \in D(L) : j <= Len(l) + 1
    BY <1>1, <1>2
  <2>2. \A k \in D(L) : (\A j \in D(L) : j <= k) => k = Len(l) + 1
    BY <1>1, <2>1
  <2>3. (CHOOSE k \in D(L) : \A j \in D(L) : j <= k) = Len(l) + 1
    BY <2>1, <2>2, Zenon
  <2> QED BY <1>1, <1>2, <2>1, <2>3, Zenon DEF ReadValue
<1>3. CASE ~ (r.type = "done" /\ r.instance = i)
  <2>1. D(L) = D(l)
    BY <1>1, <1>3
  <2>2. CASE D(l) = {}
    BY <2>1, <2>2, <1>3, Zenon DEF ReadValue
  <2>3. CASE D(l) # {}
    <3>1. \E k \in D(l) : \A j \in D(l) : j <= k
      BY <1>1, <2>3, LastExists, ZenonT(30)
    <3> DEFINE c == CHOOSE k \in D(l) : \A j \in D(l) : j <= k
    <3>2. c \in 1 .. Len(l)
      BY <3>1, <1>1, Zenon
    <3>3. ReadValue(l, i) = l[c].v
      BY <2>3, Zenon DEF ReadValue
    <3>4. ReadValue(L, i) = L[CHOOSE k \in D(L) : \A j \in D(L) : j <= k].v
      BY <2>1, <2>3, ZenonT(30) DEF ReadValue
    <3>5. ReadValue(L, i) = L[c].v
      BY <2>1, <3>4, ZenonT(30)
    <3> QED BY <1>1, <1>3, <3>2, <3>3, <3>5, Zenon
  <2> QED BY <2>2, <2>3, Zenon
<1> QED BY <1>2, <1>3, Zenon

\* What logread() rebuilds after one more record of each kind.
LEMMA ReadOfLogprop ==
  ASSUME NEW l \in Seq(LogRecord), NEW n \in prop_t, NEW me \in Node
  PROVE  LET L == Append(l, PropSeen(n)) IN
         /\ ReadProp(L, "propseen", me) = n
         /\ SameProp(ReadProp(L, "accepted", me), ReadProp(l, "accepted", me))
         /\ ReadV_a(L) = ReadV_a(l)
         /\ ReadInstance_h(L) = ReadInstance_h(l)
         /\ \A i : ReadValue(L, i) = ReadValue(l, i)
<1> DEFINE r == PropSeen(n)
           L == Append(l, r)
<1>1. r \in LogRecord /\ r.type = "propseen" /\ r.n = n
  BY RecordTypes, Zenon DEF PropSeen
<1>2. /\ \A k \in 1 .. Len(l) : L[k] = l[k]
      /\ L[Len(l) + 1] = r /\ Len(l) \in Nat
  BY <1>1
<1>3. /\ LastRecord(L, "propseen") = Len(l) + 1
      /\ LastRecord(L, "accepted") = LastRecord(l, "accepted")
      /\ LastRecord(L, "done") = LastRecord(l, "done")
  BY <1>1, LastRecordOfAppend, Zenon
<1>4. \A kind : LastRecord(l, kind) \in 0 .. Len(l)
  BY LastRecordIsLast, Zenon
<1>5. \A i : ReadValue(L, i) = ReadValue(l, i)
  BY <1>1, ReadValueOfAppend, Zenon
<1> HIDE DEF L, r
<1>6. ReadProp(L, "propseen", me) = n
  BY <1>1, <1>2, <1>3, <1>4 DEF ReadProp
<1>7. ReadProp(L, "accepted", me) = ReadProp(l, "accepted", me)
  BY <1>2, <1>3, <1>4 DEF ReadProp
<1>8. ReadV_a(L) = ReadV_a(l) /\ ReadInstance_h(L) = ReadInstance_h(l)
  BY <1>2, <1>3, <1>4 DEF ReadV_a, ReadInstance_h
<1> QED BY <1>5, <1>6, <1>7, <1>8, Zenon DEF L, r, SameProp

\* After logaccept: the accepted proposal and its view.
LEMMA ReadOfLogaccept ==
  ASSUME NEW l \in Seq(LogRecord), NEW n \in prop_t, NEW val \in Views, NEW me \in Node
  PROVE  LET L == Append(l, Accepted(n, val)) IN
         /\ SameProp(ReadProp(L, "propseen", me), ReadProp(l, "propseen", me))
         /\ ReadProp(L, "accepted", me) = n
         /\ ReadV_a(L) = val
         /\ ReadInstance_h(L) = ReadInstance_h(l)
         /\ \A i : ReadValue(L, i) = ReadValue(l, i)
<1> DEFINE r == Accepted(n, val)
           L == Append(l, r)
<1>1. r \in LogRecord /\ r.type = "accepted" /\ r.n = n /\ r.v = val
  BY RecordTypes, Zenon DEF Accepted
<1>2. /\ \A k \in 1 .. Len(l) : L[k] = l[k]
      /\ L[Len(l) + 1] = r /\ Len(l) \in Nat
  BY <1>1
<1>3. /\ LastRecord(L, "accepted") = Len(l) + 1
      /\ LastRecord(L, "propseen") = LastRecord(l, "propseen")
      /\ LastRecord(L, "done") = LastRecord(l, "done")
  BY <1>1, LastRecordOfAppend, Zenon
<1>4. \A kind : LastRecord(l, kind) \in 0 .. Len(l)
  BY LastRecordIsLast, Zenon
<1>5. \A i : ReadValue(L, i) = ReadValue(l, i)
  BY <1>1, ReadValueOfAppend, Zenon
<1> HIDE DEF L, r
<1>6. ReadProp(L, "accepted", me) = n /\ ReadV_a(L) = val
  BY <1>1, <1>2, <1>3, <1>4 DEF ReadProp, ReadV_a
<1>7. ReadProp(L, "propseen", me) = ReadProp(l, "propseen", me)
  BY <1>2, <1>3, <1>4 DEF ReadProp
<1>8. ReadInstance_h(L) = ReadInstance_h(l)
  BY <1>2, <1>3, <1>4 DEF ReadInstance_h
<1> QED BY <1>5, <1>6, <1>7, <1>8, Zenon DEF L, r, SameProp

\* After loginstance: the instance and its view, and no proposal.
LEMMA ReadOfLoginstance ==
  ASSUME NEW l \in Seq(LogRecord), NEW i \in Instances, NEW val \in Views, NEW me \in Node
  PROVE  LET L == Append(l, Done(i, val)) IN
         /\ ReadProp(L, "propseen", me).n = 0
         /\ ReadProp(L, "accepted", me).n = 0
         /\ ReadV_a(L) = NoView
         /\ ReadInstance_h(L) = i
         /\ ReadValue(L, i) = val
         /\ \A j : j # i => ReadValue(L, j) = ReadValue(l, j)
<1> DEFINE r == Done(i, val)
           L == Append(l, r)
<1>1. r \in LogRecord /\ r.type = "done" /\ r.instance = i /\ r.v = val
  BY RecordTypes, Zenon DEF Done
<1>2. /\ \A k \in 1 .. Len(l) : L[k] = l[k]
      /\ L[Len(l) + 1] = r /\ Len(l) \in Nat
  BY <1>1
<1>3. /\ LastRecord(L, "accepted") = LastRecord(l, "accepted")
      /\ LastRecord(L, "propseen") = LastRecord(l, "propseen")
      /\ LastRecord(L, "done") = Len(l) + 1
  BY <1>1, LastRecordOfAppend, Zenon
<1>4. \A kind : LastRecord(l, kind) \in 0 .. Len(l)
  BY LastRecordIsLast, Zenon
<1>5. \A j : ReadValue(L, j) = IF j = i THEN val ELSE ReadValue(l, j)
  BY <1>1, ReadValueOfAppend, ZenonT(30)
<1> HIDE DEF L, r
<1>6. ReadProp(L, "propseen", me).n = 0 /\ ReadProp(L, "accepted", me).n = 0
  BY <1>2, <1>3, <1>4 DEF ReadProp, Prop
<1>7. ReadV_a(L) = NoView /\ ReadInstance_h(L) = i
  BY <1>1, <1>2, <1>3, <1>4 DEF ReadV_a, ReadInstance_h
<1> QED BY <1>5, <1>6, <1>7, Zenon DEF L, r

-----------------------------------------------------------------------------
(* What a restart finds *)

\* The views a node knows are those of the instances up to instance_h.
KnownViews ==
  \A a \in Node, i \in Instances : values[a][i] # NoView => i <= instance_h[a]

LogInv == TypeInv /\ ReplayMatches /\ KnownViews

\* A new log holds the first view, and so does the new acceptor.
LEMMA LogInit == Init => LogInv
<1> SUFFICES ASSUME Init PROVE LogInv
  OBVIOUS
<1>1. TypeInv /\ 1 \in Instances /\ InitView \in Views
  BY TypeInvInit, NodeAssumption, BoundAssumption DEF Instances, Views
<1>2. ASSUME NEW a \in Node
      PROVE  /\ SameProp(ReadProp(plog[a], "propseen", a), n_h[a])
             /\ SameProp(ReadProp(plog[a], "accepted", a), n_a[a])
             /\ ReadV_a(plog[a]) = v_a[a]
             /\ ReadInstance_h(plog[a]) = instance_h[a]
             /\ \A i \in Instances : ReadValue(plog[a], i) = values[a][i]
  <2>1. plog[a] = Append(<<>>, Done(1, InitView)) /\ <<>> \in Seq(LogRecord)
    BY DEF Init
  <2>2. \A i : ReadValue(<<>>, i) = NoView
    BY DEF ReadValue
  <2>3. /\ ReadProp(plog[a], "propseen", a).n = 0
        /\ ReadProp(plog[a], "accepted", a).n = 0
        /\ ReadV_a(plog[a]) = NoView
        /\ ReadInstance_h(plog[a]) = 1
        /\ \A j : ReadValue(plog[a], j) = IF j = 1 THEN InitView ELSE NoView
    <3> DEFINE L == Append(<<>>, Done(1, InitView))
    <3>1. /\ ReadProp(L, "propseen", a).n = 0
          /\ ReadProp(L, "accepted", a).n = 0
          /\ ReadV_a(L) = NoView
          /\ ReadInstance_h(L) = 1
          /\ ReadValue(L, 1) = InitView
          /\ \A j : j # 1 => ReadValue(L, j) = ReadValue(<<>>, j)
      BY <1>1, <2>1, ReadOfLoginstance, ZenonT(60)
    <3> QED BY <2>1, <2>2, <3>1, Zenon
  <2> QED BY <2>3 DEF Init, SameProp, Prop
<1>3. KnownViews
  BY DEF Init, KnownViews, Instances
<1> QED BY <1>1, <1>2, <1>3, ZenonT(30) DEF LogInv, ReplayMatches

\* commit_wo of an instance the acceptor has not reached yet.
LEMMA LogCommit ==
  ASSUME LogInv, NEW a \in Node, NEW i \in Instances, NEW val \in Views, NEW req,
         i > instance_h[a], commit_wo(a, i, val, req)
  PROVE  ReplayMatches' /\ KnownViews'
<1>1. /\ plog[a] \in Seq(LogRecord)
      /\ plog' = [plog EXCEPT ![a] = Append(plog[a], Done(i, val))]
      /\ plog \in [Node -> Seq(LogRecord)]
  BY ZenonT(30) DEF LogInv, TypeInv, TypeOK, commit_wo, loginstance
<1>2. ASSUME NEW b \in Node
      PROVE  /\ SameProp(ReadProp(plog'[b], "propseen", b), n_h'[b])
             /\ SameProp(ReadProp(plog'[b], "accepted", b), n_a'[b])
             /\ ReadV_a(plog'[b]) = v_a'[b]
             /\ ReadInstance_h(plog'[b]) = instance_h'[b]
             /\ \A j \in Instances : ReadValue(plog'[b], j) = values'[b][j]
  <2>1. CASE b = a
    <3>1. /\ ReadProp(plog'[a], "propseen", a).n = 0
          /\ ReadProp(plog'[a], "accepted", a).n = 0
          /\ ReadV_a(plog'[a]) = NoView
          /\ ReadInstance_h(plog'[a]) = i
          /\ \A j : ReadValue(plog'[a], j) = IF j = i THEN val ELSE ReadValue(plog[a], j)
      <4> DEFINE L == Append(plog[a], Done(i, val))
      <4>1. /\ ReadProp(L, "propseen", a).n = 0
            /\ ReadProp(L, "accepted", a).n = 0
            /\ ReadV_a(L) = NoView
            /\ ReadInstance_h(L) = i
            /\ ReadValue(L, i) = val
            /\ \A j : j # i => ReadValue(L, j) = ReadValue(plog[a], j)
        BY <1>1, ReadOfLoginstance
      <4> QED BY <1>1, <4>1, Zenon
    <3>2. /\ n_h'[a] = Prop(0, a) /\ n_a'[a] = Prop(0, a)
          /\ v_a'[a] = NoView /\ instance_h'[a] = i
          /\ \A j \in Instances : values'[a][j] = IF j = i THEN val ELSE values[a][j]
      BY ZenonT(30) DEF LogInv, TypeInv, TypeOK, commit_wo
    <3> QED BY <2>1, <3>1, <3>2, SMTT(30) DEF LogInv, ReplayMatches, SameProp, Prop
  <2>2. CASE b # a
    <3>1. /\ plog'[b] = plog[b] /\ n_h'[b] = n_h[b] /\ n_a'[b] = n_a[b]
          /\ v_a'[b] = v_a[b] /\ instance_h'[b] = instance_h[b] /\ values'[b] = values[b]
      BY <1>1, <2>2, ZenonT(30) DEF LogInv, TypeInv, TypeOK, commit_wo
    <3> QED BY <3>1, ZenonT(30) DEF LogInv, ReplayMatches
  <2> QED BY <2>1, <2>2, ZenonT(30)
<1>3. KnownViews'
  <2>1. \A b \in Node : instance_h[b] \in Int /\ instance_h'[b] = IF b = a THEN i ELSE instance_h[b]
    BY BoundAssumption, SMTT(30) DEF LogInv, TypeInv, TypeOK, commit_wo, Instances
  <2>2. \A b \in Node, j \in Instances :
          values'[b][j] = IF b = a /\ j = i THEN val ELSE values[b][j]
    BY ZenonT(30) DEF LogInv, TypeInv, TypeOK, commit_wo
  <2>3. i \in Int /\ Instances \subseteq Int
    BY DEF Instances
  <2>4. ASSUME NEW b \in Node, NEW j \in Instances, values'[b][j] # NoView
        PROVE  j <= instance_h'[b]
    <3>1. CASE b = a /\ j = i
      BY <2>1, <2>3, <3>1
    <3>2. CASE ~ (b = a /\ j = i)
      <4>1. j <= instance_h[b]
        BY <2>2, <2>4, <3>2, Zenon DEF LogInv, KnownViews
      <4>2. /\ instance_h'[b] = (IF b = a THEN i ELSE instance_h[b])
            /\ instance_h[b] \in Int /\ i \in Int /\ j \in Int
        BY <2>1, <2>3, Zenon
      <4>3. CASE b = a
        BY <4>1, <4>2, <4>3
      <4>4. CASE b # a
        BY <4>1, <4>2, <4>4
      <4> QED BY <4>3, <4>4, Zenon
    <3> QED BY <3>1, <3>2, Zenon
  <2> QED BY <2>4, Zenon DEF KnownViews
<1> QED BY <1>2, <1>3, ZenonT(30) DEF ReplayMatches

\* A restart changes neither the numbers above 0, nor v_a, nor the views.
LEMMA LogRestart ==
  ASSUME LogInv, NEW a \in Node, RestartFrom(a)
  PROVE  /\ \A b \in Node : SameProp(n_h'[b], n_h[b]) /\ SameProp(n_a'[b], n_a[b])
         /\ v_a' = v_a /\ instance_h' = instance_h /\ values' = values /\ plog' = plog
<1>1. \A b \in Node : SameProp(n_h'[b], n_h[b]) /\ SameProp(n_a'[b], n_a[b])
  BY ZenonT(30) DEF LogInv, ReplayMatches, TypeInv, TypeOK, RestartFrom, SameProp
<1>2. v_a' = v_a /\ instance_h' = instance_h /\ plog' = plog
  BY ZenonT(30) DEF LogInv, ReplayMatches, TypeInv, TypeOK, RestartFrom
<1>3. values' = values
  <2>1. [i \in Instances |-> ReadValue(plog[a], i)] = values[a]
    BY Zenon DEF LogInv, ReplayMatches, TypeInv, TypeOK
  <2> QED BY <2>1, ZenonT(30) DEF LogInv, TypeInv, TypeOK, RestartFrom
<1> QED BY <1>1, <1>2, <1>3, Zenon

\* A promise: preparereq's logged step at acceptor a.
LEMMA LogPromise ==
  ASSUME LogInv, NEW a \in Node, NEW n \in prop_t,
         n_h' = [n_h EXCEPT ![a] = n],
         plog' = [plog EXCEPT ![a] = logprop(@, n)],
         UNCHANGED <<n_a, v_a, instance_h, values>>
  PROVE  ReplayMatches' /\ KnownViews'
<1>1. /\ plog[a] \in Seq(LogRecord)
      /\ plog'[a] = Append(plog[a], PropSeen(n))
      /\ n_h'[a] = n
      /\ \A b \in Node : b # a => plog'[b] = plog[b] /\ n_h'[b] = n_h[b]
  BY Zenon DEF LogInv, TypeInv, TypeOK, logprop
<1> DEFINE L == Append(plog[a], PropSeen(n))
<1>2. /\ ReadProp(L, "propseen", a) = n
      /\ SameProp(ReadProp(L, "accepted", a), ReadProp(plog[a], "accepted", a))
      /\ ReadV_a(L) = ReadV_a(plog[a])
      /\ ReadInstance_h(L) = ReadInstance_h(plog[a])
      /\ \A i : ReadValue(L, i) = ReadValue(plog[a], i)
  BY <1>1, ReadOfLogprop, Zenon
<1> HIDE DEF L
<1>3. ASSUME NEW b \in Node
      PROVE  /\ SameProp(ReadProp(plog'[b], "propseen", b), n_h'[b])
             /\ SameProp(ReadProp(plog'[b], "accepted", b), n_a'[b])
             /\ ReadV_a(plog'[b]) = v_a'[b]
             /\ ReadInstance_h(plog'[b]) = instance_h'[b]
             /\ \A j \in Instances : ReadValue(plog'[b], j) = values'[b][j]
  <2>1. CASE b = a
    <3>1. plog'[b] = L /\ n_h'[b] = n
      BY <1>1, <2>1, Zenon DEF L
    <3> QED BY <1>2, <2>1, <3>1, ZenonT(30) DEF LogInv, ReplayMatches, SameProp
  <2>2. CASE b # a
    BY <1>1, <2>2, SMTT(30) DEF LogInv, ReplayMatches
  <2> QED BY <2>1, <2>2, ZenonT(30)
<1>4. KnownViews'
  BY Zenon DEF LogInv, KnownViews
<1> QED BY <1>3, <1>4, Zenon DEF ReplayMatches

\* A vote: acceptreq's logged step at acceptor a.
LEMMA LogVote ==
  ASSUME LogInv, NEW a \in Node, NEW n \in prop_t, NEW w \in Views,
         n_a' = [n_a EXCEPT ![a] = n],
         v_a' = [v_a EXCEPT ![a] = w],
         plog' = [plog EXCEPT ![a] = logaccept(@, n, w)],
         UNCHANGED <<n_h, instance_h, values>>
  PROVE  ReplayMatches' /\ KnownViews'
<1>1. /\ plog[a] \in Seq(LogRecord)
      /\ plog'[a] = Append(plog[a], Accepted(n, w))
      /\ n_a'[a] = n /\ v_a'[a] = w
      /\ \A b \in Node : b # a => plog'[b] = plog[b] /\ n_a'[b] = n_a[b] /\ v_a'[b] = v_a[b]
  BY Zenon DEF LogInv, TypeInv, TypeOK, logaccept
<1> DEFINE L == Append(plog[a], Accepted(n, w))
<1>2. /\ SameProp(ReadProp(L, "propseen", a), ReadProp(plog[a], "propseen", a))
      /\ ReadProp(L, "accepted", a) = n
      /\ ReadV_a(L) = w
      /\ ReadInstance_h(L) = ReadInstance_h(plog[a])
      /\ \A i : ReadValue(L, i) = ReadValue(plog[a], i)
  BY <1>1, ReadOfLogaccept, Zenon
<1> HIDE DEF L
<1>3. ASSUME NEW b \in Node
      PROVE  /\ SameProp(ReadProp(plog'[b], "propseen", b), n_h'[b])
             /\ SameProp(ReadProp(plog'[b], "accepted", b), n_a'[b])
             /\ ReadV_a(plog'[b]) = v_a'[b]
             /\ ReadInstance_h(plog'[b]) = instance_h'[b]
             /\ \A j \in Instances : ReadValue(plog'[b], j) = values'[b][j]
  <2>1. CASE b = a
    <3>1. plog'[b] = L /\ n_a'[b] = n /\ v_a'[b] = w
      BY <1>1, <2>1, Zenon DEF L
    <3> QED BY <1>2, <2>1, <3>1, ZenonT(30) DEF LogInv, ReplayMatches, SameProp
  <2>2. CASE b # a
    BY <1>1, <2>2, SMTT(30) DEF LogInv, ReplayMatches
  <2> QED BY <2>1, <2>2, ZenonT(30)
<1>4. KnownViews'
  BY Zenon DEF LogInv, KnownViews
<1> QED BY <1>3, <1>4, ZenonT(30) DEF ReplayMatches

\* Every step as the acceptors and their logs see it.
AcceptorStep ==
  \/ UNCHANGED acceptorVars
  \/ \E a \in Node, n \in prop_t :
       /\ \E m \in reqs : m.dst = a /\ m.n = n /\ instance_h[a] < m.instance
       /\ Gt(n, n_h[a])
       /\ n_h' = [n_h EXCEPT ![a] = n]
       /\ plog' = [plog EXCEPT ![a] = logprop(@, n)]
       /\ UNCHANGED <<n_a, v_a, instance_h, values>>
  \/ \E a \in Node, n \in prop_t, w \in Views :
       /\ \E m \in reqs : m.type = "accept" /\ m.dst = a /\ m.n = n /\ m.v = w
       /\ Ge(n, n_h[a])
       /\ n_a' = [n_a EXCEPT ![a] = n]
       /\ v_a' = [v_a EXCEPT ![a] = w]
       /\ plog' = [plog EXCEPT ![a] = logaccept(@, n, w)]
       /\ UNCHANGED <<n_h, instance_h, values>>
  \/ \E a \in Node, i \in Instances, w \in Views, req \in Request :
       i > instance_h[a] /\ commit_wo(a, i, w, req)
  \/ \E a \in Node : RestartFrom(a)

\* What a step may do to an acceptor and its log: nothing, one of the three
\* handlers, a commit, or a restart.
LEMMA NextIsAcceptorStep ==
  ASSUME TypeInv, [Next]_vars
  PROVE  AcceptorStep
<1>1. CASE UNCHANGED vars
  BY <1>1, Zenon DEF AcceptorStep, vars
<1>2. ASSUME NEW m \in reqs, preparereq(m)
      PROVE  AcceptorStep
  <2>1. m.dst \in Node /\ m.n \in prop_t
    BY RequestTypes, ZenonT(30) DEF TypeInv, TypeOK
  <2> QED BY <1>2, <2>1, ZenonT(30) DEF preparereq, AcceptorStep, acceptorVars
<1>3. ASSUME NEW m \in reqs, acceptreq(m)
      PROVE  AcceptorStep
  <2>1. m.dst \in Node /\ m.n \in prop_t /\ m.v \in Views
    BY RequestTypes, ZenonT(30) DEF TypeInv, TypeOK
  <2> QED BY <1>3, <2>1, ZenonT(30) DEF acceptreq, AcceptorStep, acceptorVars
<1>4. ASSUME NEW m \in reqs, decidereq(m)
      PROVE  AcceptorStep
  <2>1. /\ m \in Request /\ m.dst \in Node /\ m.instance \in Instances
        /\ v_a[m.dst] \in Views /\ instance_h[m.dst] \in Int
    BY RequestTypes, BoundAssumption, SMTT(30) DEF TypeInv, TypeOK, Instances
  <2> QED BY <1>4, <2>1, SMTT(30) DEF decidereq, AcceptorStep, acceptorVars
<1>5. ASSUME NEW p \in Node, PrepareReply(p)
      PROVE  AcceptorStep
  <2>1. reply[p].v_a \in Views /\ call[p] \in Request /\ instance[p] \in Instances
    BY <1>5, ResponseTypes, ZenonT(30) DEF PrepareReply, TypeInv, TypeOK, RunOK
  <2> QED BY <1>5, <2>1, ZenonT(30) DEF PrepareReply, AcceptorStep
<1>6. ASSUME NEW p \in Node, ProposerStep(p), ~ PrepareReply(p)
      PROVE  AcceptorStep
  BY <1>6, ZenonT(30) DEF ProposerStep, run, CallNext, TimeOut, EndPrepare, AcceptReply, EndAccept,
              DecideReply, EndDecide, AcceptorStep
<1>7. ASSUME NEW p \in Node, ConfigStep(p)
      PROVE  AcceptorStep
  BY <1>7, ZenonT(30) DEF ConfigStep, paxos_commit, remove_wo, add, Propose, AcceptorStep
<1>8. ASSUME NEW p \in Node, Crash(p)
      PROVE  AcceptorStep
  BY <1>8, Zenon DEF Crash, AcceptorStep
<1> QED BY <1>1, <1>2, <1>3, <1>4, <1>5, <1>6, <1>7, <1>8, Zenon DEF Next

\* Every step keeps memory and log in agreement.
LEMMA LogNext == LogInv /\ [Next]_vars => LogInv'
<1> SUFFICES ASSUME LogInv, [Next]_vars PROVE LogInv'
  OBVIOUS
<1>1. TypeInv' /\ AcceptorStep
  BY TypeNext, NextIsAcceptorStep, Zenon DEF LogInv
<1>2. CASE UNCHANGED acceptorVars
  BY <1>1, <1>2, ZenonT(30) DEF LogInv, ReplayMatches, KnownViews, acceptorVars
<1>3. CASE \E a \in Node : RestartFrom(a)
  <2>1. PICK a \in Node : RestartFrom(a)
    BY <1>3, Zenon
  <2>2. KnownViews'
    BY <2>1, LogRestart, ZenonT(30) DEF LogInv, KnownViews
  <2>3. ReplayMatches'
    <3>1. \A b \in Node : /\ SameProp(n_h'[b], n_h[b]) /\ SameProp(n_a'[b], n_a[b])
                          /\ v_a' = v_a /\ instance_h' = instance_h
                          /\ values' = values /\ plog' = plog
      BY <2>1, LogRestart, ZenonT(30)
    <3> QED BY <3>1, SMTT(30) DEF LogInv, ReplayMatches, SameProp
  <2> QED BY <1>1, <2>2, <2>3, Zenon DEF LogInv
<1>4. ASSUME NEW a \in Node, NEW n \in prop_t,
             n_h' = [n_h EXCEPT ![a] = n],
             plog' = [plog EXCEPT ![a] = logprop(@, n)],
             UNCHANGED <<n_a, v_a, instance_h, values>>
      PROVE  LogInv'
  BY <1>1, <1>4, LogPromise, ZenonT(30) DEF LogInv
<1>5. ASSUME NEW a \in Node, NEW n \in prop_t, NEW w \in Views,
             n_a' = [n_a EXCEPT ![a] = n],
             v_a' = [v_a EXCEPT ![a] = w],
             plog' = [plog EXCEPT ![a] = logaccept(@, n, w)],
             UNCHANGED <<n_h, instance_h, values>>
      PROVE  LogInv'
  BY <1>1, <1>5, LogVote, ZenonT(30) DEF LogInv
<1>6. ASSUME NEW a \in Node, NEW i \in Instances, NEW w \in Views, NEW req \in Request,
             i > instance_h[a], commit_wo(a, i, w, req)
      PROVE  LogInv'
  BY <1>1, <1>6, LogCommit, Zenon DEF LogInv
<1> QED BY <1>1, <1>2, <1>3, <1>4, <1>5, <1>6, ZenonT(30) DEF AcceptorStep

\* What logread() rebuilds after a crash is the state the acceptor had: every
\* promise, vote and view it ever acknowledged is in the file.
THEOREM ReplayFaithful == Spec => []ReplayMatches
<1>1. LogInv => ReplayMatches
  BY Zenon DEF LogInv
<1> QED BY <1>1, LogInit, LogNext, PTL DEF Spec

\* The order of proposals is reflexive (operator>= of prop_t).
LEMMA GeReflexive == \A x, y \in prop_t : x = y \/ Gt(x, y) => Ge(x, y)
BY DEF prop_t, Gt, Ge

\* One step of NothingTakenBack.
LEMMA StepTakesNothingBack ==
  ASSUME LogInv, [Next]_vars, NEW a \in Node
  PROVE  /\ instance_h'[a] >= instance_h[a]
         /\ instance_h'[a] = instance_h[a] /\ n_h[a].n > 0 => Ge(n_h'[a], n_h[a])
         /\ \A i \in Instances : values[a][i] # NoView => values'[a][i] = values[a][i]
<1>1. AcceptorStep /\ TypeInv'
  BY TypeNext, NextIsAcceptorStep, Zenon DEF LogInv
<1>2. /\ instance_h[a] \in Int /\ n_h[a] \in prop_t /\ n_h'[a] \in prop_t
      /\ instance_h'[a] \in Int
  BY <1>1, BoundAssumption DEF LogInv, TypeInv, TypeOK, Instances
<1>3. CASE UNCHANGED acceptorVars
  BY <1>2, <1>3, GeReflexive, SMTT(30) DEF acceptorVars
<1>4. ASSUME NEW b \in Node, NEW n \in prop_t, Gt(n, n_h[b]), n_h' = [n_h EXCEPT ![b] = n],
             UNCHANGED <<n_a, v_a, instance_h, values>>
      PROVE  instance_h'[a] = instance_h[a] /\ values' = values /\ Ge(n_h'[a], n_h[a])
  BY <1>2, <1>4, GeReflexive, Zenon DEF LogInv, TypeInv, TypeOK
<1>5. CASE UNCHANGED <<n_h, instance_h, values>>
  BY <1>2, <1>5, GeReflexive, SMTT(30)
<1>6. ASSUME NEW b \in Node, NEW i \in Instances, NEW w \in Views, NEW req \in Request,
             i > instance_h[b], commit_wo(b, i, w, req)
      PROVE  /\ instance_h'[a] >= instance_h[a]
             /\ instance_h'[a] = instance_h[a] => n_h'[a] = n_h[a]
             /\ \A j \in Instances : values[a][j] # NoView => values'[a][j] = values[a][j]
  <2>1. instance_h'[a] = (IF b = a THEN i ELSE instance_h[a]) /\ i \in Int
    BY <1>6 DEF LogInv, TypeInv, TypeOK, commit_wo, Instances
  <2>2. b # a => n_h'[a] = n_h[a] /\ values'[a] = values[a]
    BY <1>6, Zenon DEF LogInv, TypeInv, TypeOK, commit_wo
  <2>3. b = a => \A j \in Instances : values'[a][j] = IF j = i THEN w ELSE values[a][j]
    BY <1>6, Zenon DEF LogInv, TypeInv, TypeOK, commit_wo
  <2>4. b = a => values[a][i] = NoView
    BY <1>2, <1>6, <2>1, SMTT(30) DEF LogInv, KnownViews
  <2> QED BY <1>2, <1>6, <2>1, <2>2, <2>3, <2>4
<1>7. ASSUME NEW b \in Node, RestartFrom(b)
      PROVE  /\ instance_h' = instance_h /\ values' = values
             /\ n_h[a].n > 0 => n_h'[a] = n_h[a]
  <2>1. SameProp(n_h'[a], n_h[a]) /\ instance_h' = instance_h /\ values' = values
    BY <1>7, LogRestart, Zenon
  <2> QED BY <1>2, <2>1, SMTT(30) DEF SameProp, prop_t
<1> QED BY <1>1, <1>2, <1>3, <1>4, <1>5, <1>6, <1>7, GeReflexive, SMTT(30) DEF AcceptorStep

\* No step of the program, a crash and the restart from the log included,
\* takes back a promise, an instance or a committed view.
THEOREM NothingIsTakenBack == Spec => NothingTakenBack
<1>1. LogInv /\ [Next]_vars =>
        [\A a \in Node :
           /\ instance_h'[a] >= instance_h[a]
           /\ instance_h'[a] = instance_h[a] /\ n_h[a].n > 0 => Ge(n_h'[a], n_h[a])
           /\ \A i \in Instances : values[a][i] # NoView => values'[a][i] = values[a][i]]_vars
  BY StepTakesNothingBack, Zenon
<1> QED BY <1>1, LogInit, LogNext, PTL DEF Spec, NothingTakenBack

-----------------------------------------------------------------------------
(* What config knows *)

\* Config's view, and the views that upcalls are still to bring it, are those
\* the acceptor has under their instances.
ConfigKnows(a) ==
  /\ myvid[a] \in 1 .. instance_h[a] /\ mems[a] = values[a][myvid[a]]
  /\ \A u \in upcalls[a] :
       u.instance \in 1 .. instance_h[a] /\ u.v = values[a][u.instance]

ConfigInv == LogInv /\ \A a \in Node : ConfigKnows(a)

\* The instances an acceptor has reached keep their views, even where it was
\* told none.
LEMMA ReachedStays ==
  ASSUME LogInv, [Next]_vars, NEW a \in Node, NEW i \in 1 .. instance_h[a]
  PROVE  i \in 1 .. instance_h'[a] /\ values'[a][i] = values[a][i]
<1>1. AcceptorStep /\ instance_h'[a] >= instance_h[a] /\ TypeInv /\ TypeInv'
  BY StepTakesNothingBack, TypeNext, NextIsAcceptorStep, Zenon DEF LogInv
<1>2. instance_h[a] \in Int /\ instance_h'[a] \in Int /\ i \in Instances
  BY <1>1, BoundAssumption DEF TypeInv, TypeOK, Instances
<1>3. values' = values \/
        \E b \in Node, j \in Instances, w \in Views, req \in Request :
          j > instance_h[b] /\ commit_wo(b, j, w, req)
  BY <1>1, LogRestart, Zenon DEF AcceptorStep, acceptorVars
<1>4. ASSUME NEW b \in Node, NEW j \in Instances, NEW w \in Views, NEW req \in Request,
             j > instance_h[b], commit_wo(b, j, w, req)
      PROVE  values'[a][i] = values[a][i]
  <2>1. b = a => i # j
    BY <1>2, <1>4 DEF Instances
  <2>2. values'[a] = IF b = a THEN [values[a] EXCEPT ![j] = w] ELSE values[a]
    BY <1>1, <1>4, ZenonT(30) DEF TypeInv, TypeOK, commit_wo
  <2>3. values[a] \in [Instances -> Views]
    BY <1>1, Zenon DEF TypeInv, TypeOK
  <2> QED BY <1>2, <2>1, <2>2, <2>3, ZenonT(30)
<1> QED BY <1>1, <1>2, <1>3, <1>4

\* A step that leaves a config alone, or only ends upcalls, keeps it right.
LEMMA ConfigKnowsFrame ==
  ASSUME ConfigInv, [Next]_vars, NEW a \in Node,
         myvid'[a] = myvid[a], mems'[a] = mems[a], upcalls'[a] \subseteq upcalls[a]
  PROVE  ConfigKnows(a)'
<1>1. myvid'[a] \in 1 .. instance_h'[a] /\ mems'[a] = values'[a][myvid'[a]]
  BY ReachedStays, Zenon DEF ConfigInv, ConfigKnows
<1>2. \A u \in upcalls'[a] : u.instance \in 1 .. instance_h'[a] /\ u.v = values'[a][u.instance]
  BY ReachedStays, Zenon DEF ConfigInv, ConfigKnows
<1> QED BY <1>1, <1>2, Zenon DEF ConfigKnows

\* commit_wo leaves an upcall for a view its acceptor has.
LEMMA ConfigKnowsCommit ==
  ASSUME ConfigInv, [Next]_vars, NEW a \in Node, NEW i \in Instances, NEW w \in Views,
         NEW req \in Request, commit_wo(a, i, w, req), UNCHANGED <<myvid, mems>>,
         NEW b \in Node
  PROVE  ConfigKnows(b)'
<1>1. TypeInv
  BY Zenon DEF ConfigInv, LogInv
<1>2. CASE b # a
  <2>1. upcalls'[b] = upcalls[b]
    BY <1>1, <1>2, Zenon DEF TypeInv, TypeOK, commit_wo
  <2> QED BY <2>1, ConfigKnowsFrame, Zenon
<1>3. CASE b = a
  <2>1. /\ upcalls'[a] = upcalls[a] \cup {[instance |-> i, v |-> w, req |-> req]}
        /\ instance_h'[a] = i /\ values'[a][i] = w
    BY <1>1, Zenon DEF TypeInv, TypeOK, commit_wo
  <2>2. myvid'[a] \in 1 .. instance_h'[a] /\ mems'[a] = values'[a][myvid'[a]]
    BY ReachedStays, Zenon DEF ConfigInv, ConfigKnows
  <2>3. ASSUME NEW u \in upcalls[a]
        PROVE  u.instance \in 1 .. instance_h'[a] /\ u.v = values'[a][u.instance]
    <3>1. u.instance \in 1 .. instance_h[a] /\ u.v = values[a][u.instance]
      BY Zenon DEF ConfigInv, ConfigKnows
    <3> QED BY <3>1, ReachedStays, Zenon DEF ConfigInv
  <2>4. i \in 1 .. i
    BY DEF Instances
  <2>5. ASSUME NEW u \in upcalls'[a], u \notin upcalls[a]
        PROVE  u.instance = i /\ u.v = w
    <3>1. u = [instance |-> i, v |-> w, req |-> req]
      BY <2>1, <2>5, Zenon
    <3> QED BY <3>1
  <2>6. \A u \in upcalls'[a] : u.instance \in 1 .. instance_h'[a] /\ u.v = values'[a][u.instance]
    BY <2>1, <2>3, <2>4, <2>5, Zenon
  <2> QED BY <1>3, <2>2, <2>6, Zenon DEF ConfigKnows
<1> QED BY <1>2, <1>3, Zenon

\* reconstruct takes the view of the last instance in the log.
LEMMA ConfigKnowsRestart ==
  ASSUME ConfigInv, [Next]_vars, NEW a \in Node, RestartFrom(a), NEW b \in Node
  PROVE  ConfigKnows(b)'
<1>1. TypeInv /\ LogInv
  BY Zenon DEF ConfigInv, LogInv
<1>2. CASE b # a
  <2>1. upcalls'[b] = upcalls[b] /\ myvid'[b] = myvid[b] /\ mems'[b] = mems[b]
    BY <1>1, <1>2, Zenon DEF TypeInv, TypeOK, RestartFrom
  <2> QED BY <2>1, ConfigKnowsFrame, Zenon
<1>3. CASE b = a
  <2>1. /\ upcalls'[a] = {}
        /\ myvid'[a] = ReadInstance_h(plog[a])
        /\ mems'[a] = ReadValue(plog[a], ReadInstance_h(plog[a]))
    BY <1>1, Zenon DEF TypeInv, TypeOK, RestartFrom, reconstruct
  <2>2. ReadInstance_h(plog[a]) = instance_h[a] /\ instance_h' = instance_h /\ values' = values
    BY <1>1, LogRestart, Zenon DEF LogInv, ReplayMatches
  <2>3. myvid[a] \in 1 .. instance_h[a] /\ instance_h[a] \in Instances \cup {0}
    BY <1>1, Zenon DEF ConfigInv, ConfigKnows, TypeInv, TypeOK
  <2>4. instance_h[a] \in 1 .. instance_h[a] /\ instance_h[a] \in Instances
    BY <2>3 DEF Instances
  <2>5. ReadValue(plog[a], instance_h[a]) = values[a][instance_h[a]]
    BY <1>1, <2>4, Zenon DEF LogInv, ReplayMatches
  <2> QED BY <1>3, <2>1, <2>2, <2>4, <2>5, Zenon DEF ConfigKnows
<1> QED BY <1>2, <1>3, Zenon

\* Every step keeps config's view one of its acceptor's.
LEMMA ConfigNext == ConfigInv /\ [Next]_vars => ConfigInv'
<1> SUFFICES ASSUME ConfigInv, [Next]_vars PROVE \A a \in Node : ConfigKnows(a)'
  BY LogNext, Zenon DEF ConfigInv
<1>1. TypeInv /\ LogInv
  BY Zenon DEF ConfigInv, LogInv
<1>2. CASE UNCHANGED <<myvid, mems, upcalls>>
  BY <1>2, ConfigKnowsFrame, ZenonT(30)
<1>3. ASSUME NEW m \in reqs, decidereq(m) PROVE \A a \in Node : ConfigKnows(a)'
  <2>1. m \in Request /\ m.dst \in Node /\ m.instance \in Instances /\ v_a[m.dst] \in Views
    BY <1>1, RequestTypes, ZenonT(30) DEF TypeInv, TypeOK
  <2> QED BY <1>2, <1>3, <2>1, ConfigKnowsCommit, ConfigKnowsRestart, ZenonT(60)
          DEF decidereq, configVars
<1>4. ASSUME NEW p \in Node, PrepareReply(p) PROVE \A a \in Node : ConfigKnows(a)'
  <2>1. reply[p].v_a \in Views /\ call[p] \in Request /\ instance[p] \in Instances
    BY <1>1, <1>4, ResponseTypes, ZenonT(30) DEF PrepareReply, TypeInv, TypeOK, RunOK
  <2> QED BY <1>2, <1>4, <2>1, ConfigKnowsCommit, ZenonT(30) DEF PrepareReply
<1>5. ASSUME NEW p \in Node, NEW u \in upcalls[p], paxos_commit(p, u)
      PROVE  \A a \in Node : ConfigKnows(a)'
  <2> SUFFICES ASSUME NEW a \in Node PROVE ConfigKnows(a)'
    OBVIOUS
  <2>1. CASE a # p
    <3>1. upcalls'[a] = upcalls[a] /\ myvid'[a] = myvid[a] /\ mems'[a] = mems[a]
      BY <1>1, <1>5, <2>1, Zenon DEF TypeInv, TypeOK, paxos_commit
    <3> QED BY <3>1, ConfigKnowsFrame, Zenon
  <2>2. CASE a = p
    <3>1. /\ upcalls'[p] \subseteq upcalls[p] /\ myvid'[p] = u.instance /\ mems'[p] = u.v
      BY <1>1, <1>5, Zenon DEF TypeInv, TypeOK, paxos_commit
    <3>2. ASSUME NEW x \in upcalls[p]
          PROVE  x.instance \in 1 .. instance_h'[p] /\ x.v = values'[p][x.instance]
      <4>1. x.instance \in 1 .. instance_h[p] /\ x.v = values[p][x.instance]
        BY Zenon DEF ConfigInv, ConfigKnows
      <4> QED BY <4>1, ReachedStays, Zenon DEF ConfigInv
    <3> QED BY <1>5, <2>2, <3>1, <3>2, Zenon DEF ConfigKnows
  <2> QED BY <2>1, <2>2, Zenon
<1>6. ASSUME NEW p \in Node, ConfigStep(p) PROVE \A a \in Node : ConfigKnows(a)'
  BY <1>2, <1>5, <1>6, ZenonT(30) DEF ConfigStep, remove_wo, add, Propose
<1>7. ASSUME NEW p \in Node, ProposerStep(p) PROVE \A a \in Node : ConfigKnows(a)'
  BY <1>2, <1>4, <1>7, ZenonT(30) DEF ProposerStep, run, CallNext, TimeOut, EndPrepare,
     AcceptReply, EndAccept, DecideReply, EndDecide, configVars
<1>8. ASSUME NEW m \in reqs, preparereq(m) \/ acceptreq(m)
      PROVE  \A a \in Node : ConfigKnows(a)'
  BY <1>2, <1>8, Zenon DEF preparereq, acceptreq, configVars
<1>9. ASSUME NEW p \in Node, Crash(p) PROVE \A a \in Node : ConfigKnows(a)'
  BY <1>9, ConfigKnowsRestart, Zenon DEF Crash
<1>10. CASE UNCHANGED vars
  BY <1>2, <1>10, Zenon DEF vars, configVars
<1> QED BY <1>3, <1>6, <1>7, <1>8, <1>9, <1>10, Zenon DEF Next

\* Every node starts in the first view.
LEMMA ConfigInit == Init => ConfigInv
<1> SUFFICES ASSUME Init PROVE \A a \in Node : ConfigKnows(a)
  BY LogInit, Zenon DEF ConfigInv
<1>1. 1 \in Instances /\ 1 \in 1 .. 1
  BY BoundAssumption DEF Instances
<1> QED BY <1>1 DEF Init, ConfigKnows

\* The view a node works in is always one its acceptor committed, numbered as
\* Paxos numbers it, upcalls that arrive out of order and restarts included.
THEOREM ConfigViewsAreCommitted == Spec => []ConfigViewIsCommitted
<1>1. ConfigInv => ConfigViewIsCommitted
  <2>1. \A a \in Node : myvid[a] \in 1 .. instance_h[a] => myvid[a] > 0
    OBVIOUS
  <2> QED BY <2>1, Zenon DEF ConfigInv, ConfigKnows, ConfigViewIsCommitted
<1> QED BY <1>1, ConfigInit, ConfigNext, PTL DEF Spec

=============================================================================
