-------------------------- MODULE PaxosViewProofs --------------------------
(***************************************************************************)
(* A committed view has a majority of the view before it behind it, for    *)
(* every set of nodes and any number of instances.                         *)
(***************************************************************************)
EXTENDS PaxosProofs

-----------------------------------------------------------------------------
(* Majorities *)

\* What proposer::majority computes is more than half.
LEMMA Halves == \A n, k \in Nat : k >= (n \div 2) + 1 => 2 * k > n
OBVIOUS

\* Views are finite.
LEMMA ViewsAreFinite == \A V \in Views : IsFiniteSet(V) /\ Cardinality(V) \in Nat
<1> SUFFICES ASSUME NEW V \in Views PROVE IsFiniteSet(V) /\ Cardinality(V) \in Nat
  OBVIOUS
<1>1. IsFiniteSet(V)
  BY NodeAssumption, FS_Subset, ZenonT(30) DEF Views
<1> QED BY <1>1, FS_CardinalityType, Zenon

\* A set that contains a majority is one.
LEMMA MajorityGrows ==
  ASSUME NEW V \in Views, NEW Q, NEW R, Q \subseteq R, IsMajority(Q, V)
  PROVE  IsMajority(R, V)
<1>1. R \cap V \in Views /\ (Q \cap V) \in SUBSET (R \cap V)
  BY Zenon DEF Views
<1>2. IsFiniteSet(R \cap V) /\ Cardinality(R \cap V) \in Nat
  BY <1>1, ViewsAreFinite, Zenon
<1>3. Cardinality(Q \cap V) <= Cardinality(R \cap V) /\ IsFiniteSet(Q \cap V)
  BY <1>1, <1>2, FS_Subset, Zenon
<1>4. Cardinality(V) \in Nat /\ Cardinality(Q \cap V) \in Nat
  BY <1>3, ViewsAreFinite, FS_CardinalityType, Zenon
<1> QED BY <1>2, <1>3, <1>4 DEF IsMajority

\* What proposer::majority accepts is a majority.
LEMMA CountedMajority ==
  ASSUME NEW V \in Views, NEW A \in Views, majority(V, A)
  PROVE  IsMajority(A, V)
<1>1. V \cap A = A \cap V /\ A \cap V \in Views
  BY Zenon DEF Views
<1>2. Cardinality(V) \in Nat /\ Cardinality(A \cap V) \in Nat
  BY <1>1, ViewsAreFinite, Zenon
<1> QED BY <1>1, <1>2, Halves, ZenonT(30) DEF majority, IsMajority

\* A majority has a member.
LEMMA MajorityNotEmpty ==
  ASSUME NEW V \in Views, NEW Q, IsMajority(Q, V)
  PROVE  \E a \in V : a \in Q
<1>1. Cardinality(V) \in Nat
  BY ViewsAreFinite, Zenon
<1>2. Q \cap V # {}
  BY <1>1, FS_EmptySet DEF IsMajority
<1> QED BY <1>2, Zenon

-----------------------------------------------------------------------------
(* The inductive invariant *)

\* V was the view before instance i, at some node.
Ruled(i, V) ==
  \E q \in Node : i - 1 \in Instances /\ values[q][i - 1] = V /\ V # NoView

\* A majority of the view before instance i accepted w under one number.
Backed(i, w) ==
  \E q \in Node, n \in prop_t :
    /\ i - 1 \in Instances
    /\ values[q][i - 1] # NoView
    /\ IsMajority({b \in Node : EverAccepted(b, n, w)}, values[q][i - 1])

\* The call a proposer waits for is one of its current phase.
CallOf(p) ==
  call[p] # NoCall =>
    /\ call[p].src = p
    /\ call[p].type = phase[p]
    /\ call[p].instance = instance[p]
    /\ phase[p] # "decide" => call[p].n = my_n[p]
    /\ phase[p] # "prepare" => call[p].v = v[p]

\* The view whose members a run asks was committed by some acceptor.
ViewOf(p) ==
  /\ proposal[p] # NoProposal => Ruled(proposal[p].instance, proposal[p].cur_nodes)
  /\ phase[p] # "idle" => Ruled(instance[p], cur_nodes[p])

\* The nodes a proposer counts in the accept phase did accept.
CountOf(p) ==
  phase[p] = "accept" =>
    /\ \A a \in accepts[p] : EverAccepted(a, my_n[p], v[p])
    /\ reply[p] # NoReply /\ reply[p].type = "accept"
         => EverAccepted(call[p].dst, my_n[p], v[p])

\* What it decides, or is told was decided, is backed.
DecisionOf(p) ==
  /\ phase[p] = "decide" => Backed(instance[p], v[p])
  /\ reply[p] # NoReply /\ reply[p].type = "oldinstance" =>
       \/ reply[p].v_a = NoView
       \/ instance[p] = 1
       \/ Backed(instance[p], reply[p].v_a)

RunOf(p) == CallOf(p) /\ ViewOf(p) /\ CountOf(p) /\ DecisionOf(p)

\* Config's view and the views on their way to it were committed here.
ConfigOf(p) ==
  /\ mems[p] # NoView => myvid[p] \in Instances /\ values[p][myvid[p]] = mems[p]
  /\ \A u \in upcalls[p] : u.v # NoView => values[p][u.instance] = u.v

\* Decisions on their way, and committed views, are backed.
DecisionInv ==
  /\ \A m \in reqs : m.type = "decide" => Backed(m.instance, m.v)
  /\ \A a \in Node, i \in Instances \ {1} :
       values[a][i] # NoView => Backed(i, values[a][i])

BackInv == LogInv /\ DecisionInv /\ \A p \in Node : RunOf(p) /\ ConfigOf(p)

\* The first view needs no majority.
LEMMA BackInit == Init => BackInv
<1> SUFFICES ASSUME Init PROVE BackInv
  OBVIOUS
<1>1. LogInv
  BY LogInit, Zenon
<1>2. DecisionInv
  BY Zenon DEF Init, DecisionInv
<1>3. ASSUME NEW p \in Node PROVE RunOf(p) /\ ConfigOf(p)
  BY BoundAssumption
     DEF Init, RunOf, CallOf, ViewOf, CountOf, DecisionOf, ConfigOf, Instances
<1> QED BY <1>1, <1>2, <1>3, Zenon DEF BackInv

\* A log never loses a record.
LEMMA AcceptedStays ==
  ASSUME LogInv, [Next]_vars, NEW b \in Node, NEW n \in prop_t, NEW w \in Views,
         EverAccepted(b, n, w)
  PROVE  EverAccepted(b, n, w)'
<1>1. AcceptorStep
  BY NextIsAcceptorStep, Zenon DEF LogInv
<1>2. plog'[b] = plog[b] \/ \E r \in LogRecord : plog'[b] = Append(plog[b], r)
  <2>0. plog \in [Node -> Seq(LogRecord)]
    BY Zenon DEF LogInv, TypeInv, TypeOK
  <2>1. CASE UNCHANGED plog
    BY <2>1, Zenon
  <2>2. ASSUME NEW a \in Node, NEW r \in LogRecord, plog' = [plog EXCEPT ![a] = Append(@, r)]
        PROVE  plog'[b] = plog[b] \/ plog'[b] = Append(plog[b], r)
    BY <2>0, <2>2, Zenon
  <2>3. UNCHANGED plog \/ \E a \in Node, r \in LogRecord : plog' = [plog EXCEPT ![a] = Append(@, r)]
    BY <1>1, RecordTypes, Zenon
       DEF AcceptorStep, acceptorVars, logprop, logaccept, commit_wo, loginstance, RestartFrom
  <2> QED BY <2>1, <2>2, <2>3, Zenon
<1>3. plog[b] \in Seq(LogRecord)
  BY Zenon DEF LogInv, TypeInv, TypeOK
<1>4. \A k \in DOMAIN plog[b] : k \in DOMAIN plog'[b] /\ plog'[b][k] = plog[b][k]
  BY <1>2, <1>3
<1> QED BY <1>4, Zenon DEF EverAccepted

\* The view that rules an instance does not change.
LEMMA RuledStays ==
  ASSUME LogInv, [Next]_vars, NEW i, NEW V, Ruled(i, V)
  PROVE  Ruled(i, V)'
BY StepTakesNothingBack, Zenon DEF Ruled

\* A view that has a majority behind it keeps it: logs only grow.
LEMMA BackedStays ==
  ASSUME LogInv, [Next]_vars, NEW i, NEW w \in Views, Backed(i, w)
  PROVE  Backed(i, w)'
<1>1. PICK q \in Node, n \in prop_t :
        /\ i - 1 \in Instances
        /\ values[q][i - 1] # NoView
        /\ IsMajority({b \in Node : EverAccepted(b, n, w)}, values[q][i - 1])
  BY Zenon DEF Backed
<1> DEFINE Q == {b \in Node : EverAccepted(b, n, w)}
           R == {b \in Node : EverAccepted(b, n, w)'}
<1>2. values'[q][i - 1] = values[q][i - 1] /\ values[q][i - 1] \in Views
  BY <1>1, StepTakesNothingBack, ZenonT(30) DEF LogInv, TypeInv, TypeOK
<1>3. Q \subseteq R
  BY AcceptedStays, Zenon
<1>4. IsMajority(R, values[q][i - 1])
  BY <1>1, <1>2, <1>3, MajorityGrows, Zenon
<1>5. IsMajority({b \in Node : EverAccepted(b, n, w)'}, values'[q][i - 1])
  BY <1>2, <1>4, Zenon
<1> QED BY <1>1, <1>2, <1>5, ZenonT(30) DEF Backed, IsMajority

-----------------------------------------------------------------------------
(* Every action preserves it *)

\* The three facts as a step uses them.
Stable ==
  /\ \A b \in Node, n \in prop_t, w \in Views : EverAccepted(b, n, w) => EverAccepted(b, n, w)'
  /\ \A i \in Instances, V \in Views : Ruled(i, V) => Ruled(i, V)'
  /\ \A i \in Instances, w \in Views : Backed(i, w) => Backed(i, w)'
  /\ \A a \in Node, i \in Instances : values[a][i] # NoView => values'[a][i] = values[a][i]

\* No step takes back a vote, a rule, a majority or a committed view.
LEMMA StepIsStable ==
  ASSUME LogInv, [Next]_vars
  PROVE  Stable /\ LogInv'
<1>1. \A b \in Node, n \in prop_t, w \in Views : EverAccepted(b, n, w) => EverAccepted(b, n, w)'
  BY AcceptedStays, Zenon
<1>2. \A i \in Instances, V \in Views : Ruled(i, V) => Ruled(i, V)'
  BY RuledStays, Zenon
<1>3. \A i \in Instances, w \in Views : Backed(i, w) => Backed(i, w)'
  BY BackedStays, Zenon
<1>4. \A a \in Node, i \in Instances : values[a][i] # NoView => values'[a][i] = values[a][i]
  BY StepTakesNothingBack, Zenon
<1> QED BY <1>1, <1>2, <1>3, <1>4, LogNext, Zenon DEF Stable

\* A step that leaves p's run alone.
SamePhase(p) ==
  /\ my_n'[p] = my_n[p] /\ phase'[p] = phase[p] /\ instance'[p] = instance[p]
  /\ cur_nodes'[p] = cur_nodes[p] /\ accepts'[p] = accepts[p] /\ v'[p] = v[p]
  /\ call'[p] = call[p]

SameRun(p) == SamePhase(p) /\ proposal'[p] = proposal[p]

SameConfig(p) ==
  mems'[p] = mems[p] /\ myvid'[p] = myvid[p] /\ upcalls'[p] = upcalls[p]

\* A step that leaves the phase of a run alone keeps what it knows.
LEMMA PhaseFrame ==
  ASSUME BackInv, Stable, NEW p \in Node, SamePhase(p)
  PROVE  /\ CallOf(p)'
         /\ phase'[p] # "idle" => Ruled(instance[p], cur_nodes[p])'
         /\ reply'[p] = reply[p] \/ reply'[p] = NoReply => CountOf(p)' /\ DecisionOf(p)'
<1>1. /\ TypeInv /\ accepts[p] \subseteq Node /\ my_n[p] \in prop_t /\ v[p] \in Views
      /\ cur_nodes[p] \in Views
      /\ instance[p] \in Instances \/ phase[p] = "idle"
  BY Zenon DEF BackInv, LogInv, TypeInv, TypeOK, RunOK, Views
<1>2. CallOf(p)'
  BY Zenon DEF BackInv, RunOf, CallOf, SamePhase
<1>3. phase'[p] # "idle" => Ruled(instance[p], cur_nodes[p])'
  BY <1>1, Zenon DEF BackInv, RunOf, ViewOf, SamePhase, Stable
<1>4. CASE reply'[p] = reply[p]
  <2>1. reply[p] # NoReply => /\ reply[p].v_a \in Views /\ call[p].dst \in Node
                              /\ phase[p] # "idle"
    <3> SUFFICES ASSUME reply[p] # NoReply
                 PROVE  /\ reply[p].v_a \in Views /\ call[p].dst \in Node
                        /\ phase[p] # "idle"
      OBVIOUS
    <3>1. reply[p] \in Response /\ call[p] \in Request
      BY <1>1, Zenon DEF TypeInv, TypeOK, RunOK
    <3>2. reply[p].v_a \in Views
      BY <3>1, ResponseTypes, Zenon
    <3>3. call[p].dst \in Node /\ call[p].type # "idle" /\ call[p] # NoCall
      BY <3>1, RequestTypes, Zenon
    <3> QED BY <3>2, <3>3, Zenon DEF BackInv, RunOf, CallOf
  <2>2. CountOf(p)'
    BY <1>1, <1>4, <2>1, ZenonT(30) DEF BackInv, RunOf, CountOf, SamePhase, Stable
  <2>3. DecisionOf(p)'
    BY <1>1, <1>4, <2>1, Zenon DEF BackInv, RunOf, DecisionOf, SamePhase, Stable
  <2> QED BY <1>2, <1>3, <2>2, <2>3, Zenon
<1>5. CASE reply'[p] = NoReply
  <2>1. CountOf(p)'
    BY <1>1, <1>5, ZenonT(30) DEF BackInv, RunOf, CountOf, SamePhase, Stable
  <2>2. DecisionOf(p)'
    BY <1>1, <1>5, Zenon DEF BackInv, RunOf, DecisionOf, SamePhase, Stable
  <2> QED BY <1>2, <1>3, <2>1, <2>2, Zenon
<1> QED BY <1>2, <1>3, <1>4, <1>5, Zenon

\* A step that leaves a run alone keeps all that is said of it.
LEMMA RunFrame ==
  ASSUME BackInv, Stable, NEW p \in Node, SameRun(p)
  PROVE  /\ CallOf(p)' /\ ViewOf(p)'
         /\ reply'[p] = reply[p] \/ reply'[p] = NoReply => RunOf(p)'
<1>1. proposal[p] \in Arguments \cup {NoProposal}
  BY Zenon DEF BackInv, LogInv, TypeInv, TypeOK
<1>2. ViewOf(p)'
  BY <1>1, PhaseFrame, Zenon DEF BackInv, RunOf, ViewOf, SameRun, Stable, Arguments
<1> QED BY <1>2, PhaseFrame, Zenon DEF RunOf, SameRun

\* A step that leaves a config alone keeps what is said of it.
LEMMA ConfigFrame ==
  ASSUME BackInv, Stable, NEW p \in Node, SameConfig(p)
  PROVE  ConfigOf(p)'
<1>1. TypeInv
  BY Zenon DEF BackInv, LogInv
<1> QED BY <1>1 DEF BackInv, ConfigOf, SameConfig, Stable, TypeInv, TypeOK

\* Values and decisions that do not change stay backed.
LEMMA DecisionFrame ==
  ASSUME BackInv, Stable
  PROVE  /\ values' = values => \A a \in Node, i \in Instances \ {1} :
              values'[a][i] # NoView => Backed(i, values[a][i])'
         /\ \A m \in reqs : m.type = "decide" => Backed(m.instance, m.v)'
         /\ values' = values /\ (\A m \in reqs' : m \in reqs \/ m.type # "decide")
              => DecisionInv'
<1>1. TypeInv
  BY Zenon DEF BackInv, LogInv
<1>2. values' = values => \A a \in Node, i \in Instances \ {1} :
              values'[a][i] # NoView => Backed(i, values[a][i])'
  BY <1>1 DEF BackInv, DecisionInv, Stable, TypeInv, TypeOK
<1>3. \A m \in reqs : m.type = "decide" => Backed(m.instance, m.v)'
  BY <1>1, RequestTypes, Zenon DEF BackInv, DecisionInv, Stable, TypeInv, TypeOK
<1> QED BY <1>2, <1>3, Zenon DEF DecisionInv

\* A response reaches the run that made the call, or nobody.
LEMMA ReplyOf ==
  ASSUME TypeInv, NEW m \in Request, NEW r, Respond(m, r), NEW p \in Node,
         reply'[p] # reply[p]
  PROVE  p = m.src /\ call[p] = m /\ reply'[p] = r
BY RequestTypes, Zenon DEF Respond, TypeInv, TypeOK

\* preparereq may answer with a vote in the log or with a committed view.
LEMMA BackPrepare ==
  ASSUME BackInv, Stable, NEW m \in reqs, preparereq(m)
  PROVE  DecisionInv' /\ \A p \in Node : RunOf(p)' /\ ConfigOf(p)'
<1>1. TypeInv /\ m \in Request /\ m.dst \in Node /\ m.instance \in Instances
  BY RequestTypes, Zenon DEF BackInv, LogInv, TypeInv, TypeOK
<1>2. DecisionInv'
  BY DecisionFrame, Zenon DEF preparereq
<1>3. ASSUME NEW p \in Node PROVE RunOf(p)' /\ ConfigOf(p)'
  <2>1. SameRun(p) /\ SameConfig(p)
    BY Zenon DEF preparereq, SameRun, SamePhase, SameConfig, runVars, configVars
  <2>2. CASE reply'[p] = reply[p]
    BY <2>1, <2>2, RunFrame, ConfigFrame, Zenon
  <2>3. CASE reply'[p] # reply[p]
    <3>1. PICK r : /\ Respond(m, r)
                   /\ r.type = "oldinstance" => r.v_a = values[m.dst][m.instance]
      BY DEF preparereq
    <3>2. call[p] = m /\ reply'[p] = r
      BY <1>1, <2>3, <3>1, ReplyOf, Zenon
    <3>3. phase[p] = "prepare" /\ instance[p] = m.instance
      BY <1>1, <3>2, RequestTypes, Zenon DEF BackInv, RunOf, CallOf, preparereq
    <3>4. CountOf(p)'
      BY <2>1, <3>3, Zenon DEF CountOf, SameRun, SamePhase
    <3>5. values' = values /\ values[m.dst][m.instance] \in Views
      BY <1>1, Zenon DEF preparereq, TypeInv, TypeOK
    <3>6. values[m.dst][m.instance] # NoView /\ m.instance # 1
            => Backed(m.instance, values[m.dst][m.instance])'
      BY <1>1, <3>5, DecisionFrame, Zenon
    <3>7. DecisionOf(p)'
      BY <2>1, <3>1, <3>2, <3>3, <3>5, <3>6, Zenon DEF DecisionOf, SameRun, SamePhase
    <3> QED BY <2>1, <3>4, <3>7, RunFrame, ConfigFrame, Zenon DEF RunOf
  <2> QED BY <2>2, <2>3, Zenon
<1> QED BY <1>2, <1>3, Zenon

\* acceptreq writes the vote into the log before it answers.
LEMMA BackAccept ==
  ASSUME BackInv, Stable, LogInv', NEW m \in reqs, acceptreq(m)
  PROVE  DecisionInv' /\ \A p \in Node : RunOf(p)' /\ ConfigOf(p)'
<1>1. /\ TypeInv /\ m \in Request /\ m.dst \in Node /\ m.n \in prop_t /\ m.v \in Views
      /\ plog[m.dst] \in Seq(LogRecord) /\ plog \in [Node -> Seq(LogRecord)]
  BY RequestTypes, Zenon DEF BackInv, LogInv, TypeInv, TypeOK
<1>2. DecisionInv'
  BY DecisionFrame, ZenonT(30) DEF acceptreq
<1>3. ASSUME NEW p \in Node PROVE RunOf(p)' /\ ConfigOf(p)'
  <2>1. SameRun(p) /\ SameConfig(p)
    BY Zenon DEF acceptreq, SameRun, SamePhase, SameConfig, runVars, configVars
  <2>2. CASE reply'[p] = reply[p]
    BY <2>1, <2>2, RunFrame, ConfigFrame, Zenon
  <2>3. CASE reply'[p] # reply[p]
    <3>1. PICK r : /\ Respond(m, r)
                   /\ r.type # "oldinstance"
                   /\ r.type = "accept" => plog' = [plog EXCEPT ![m.dst] = logaccept(@, m.n, m.v)]
      BY DEF acceptreq
    <3>2. call[p] = m /\ reply'[p] = r
      BY <1>1, <2>3, <3>1, ReplyOf
    <3>3. phase[p] = "accept" /\ my_n[p] = m.n /\ v[p] = m.v
      BY <1>1, <3>2, RequestTypes, Zenon DEF BackInv, RunOf, CallOf, acceptreq
    <3>4. r.type = "accept" => EverAccepted(m.dst, m.n, m.v)'
      <4>1. r.type = "accept" => plog'[m.dst] = Append(plog[m.dst], Accepted(m.n, m.v))
        BY <1>1, <3>1, Zenon DEF logaccept
      <4>2. r.type = "accept" => /\ Len(plog[m.dst]) + 1 \in DOMAIN plog'[m.dst]
                                 /\ plog'[m.dst][Len(plog[m.dst]) + 1] = Accepted(m.n, m.v)
        BY <1>1, <4>1
      <4> QED BY <4>2, Zenon DEF EverAccepted
    <3>5. accepts[p] \subseteq Node
      BY <1>1, Zenon DEF TypeInv, TypeOK, Views
    <3>6. \A a \in accepts[p] : EverAccepted(a, m.n, m.v)'
      BY <1>1, <3>3, <3>5, Zenon DEF BackInv, RunOf, CountOf, Stable
    <3>7. CountOf(p)'
      BY <2>1, <3>2, <3>3, <3>4, <3>6, Zenon DEF CountOf, SameRun, SamePhase
    <3>8. DecisionOf(p)'
      BY <2>1, <3>1, <3>2, <3>3, Zenon DEF DecisionOf, SameRun, SamePhase
    <3> QED BY <2>1, <3>7, <3>8, RunFrame, ConfigFrame, Zenon DEF RunOf
  <2> QED BY <2>2, <2>3, Zenon
<1> QED BY <1>2, <1>3, Zenon

\* commit_wo with a backed view.
LEMMA BackCommit ==
  ASSUME BackInv, Stable, NEW a \in Node, NEW i \in Instances, NEW w \in Views,
         NEW req \in Request, commit_wo(a, i, w, req),
         w # NoView /\ i # 1 => Backed(i, w),
         UNCHANGED <<mems, myvid>>
  PROVE  /\ \A b \in Node, j \in Instances \ {1} :
              values'[b][j] # NoView => Backed(j, values[b][j])'
         /\ \A p \in Node : ConfigOf(p)'
<1>1. TypeInv
  BY Zenon DEF BackInv, LogInv
<1>2. \A b \in Node, j \in Instances :
        values'[b][j] = IF b = a /\ j = i THEN w ELSE values[b][j]
  BY <1>1, Zenon DEF commit_wo, TypeInv, TypeOK
<1>3. \A b \in Node, j \in Instances : values[b][j] \in Views
  BY <1>1, Zenon DEF TypeInv, TypeOK
<1>4. ASSUME NEW b \in Node, NEW j \in Instances \ {1}, values'[b][j] # NoView
      PROVE  Backed(j, values[b][j])'
  <2>1. CASE b = a /\ j = i
    BY <1>2, <1>4, <2>1, Zenon DEF Stable
  <2>2. CASE ~ (b = a /\ j = i)
    BY <1>2, <1>3, <1>4, <2>2, Zenon DEF Stable, BackInv, DecisionInv
  <2> QED BY <2>1, <2>2, Zenon
<1>5. ASSUME NEW p \in Node PROVE ConfigOf(p)'
  <2>1. CASE p # a
    <3>1. SameConfig(p)
      BY <1>1, <2>1, Zenon DEF commit_wo, SameConfig, TypeInv, TypeOK
    <3> QED BY <3>1, ConfigFrame, Zenon
  <2>2. CASE p = a
    <3>1. upcalls'[p] = upcalls[p] \cup {[instance |-> i, v |-> w, req |-> req]}
      BY <1>1, <2>2, Zenon DEF commit_wo, TypeInv, TypeOK
    <3>2. \A u \in upcalls[p] : u.instance \in Instances
      BY <1>1 DEF TypeInv, TypeOK
    <3>3. \A u \in upcalls[p] : u.v # NoView => values'[p][u.instance] = u.v
      BY <3>2, SMTT(30) DEF BackInv, ConfigOf, Stable
    <3>4. values'[p][i] = w
      BY <1>2, <2>2, Zenon
    <3>5. mems'[p] # NoView => myvid'[p] \in Instances /\ values'[p][myvid'[p]] = mems'[p]
      BY Zenon DEF BackInv, ConfigOf, Stable
    <3> QED BY <3>1, <3>3, <3>4, <3>5 DEF ConfigOf
  <2> QED BY <2>1, <2>2, Zenon
<1> QED BY <1>4, <1>5, Zenon

\* A restart: the run is gone, config has the last committed view.
LEMMA BackRestart ==
  ASSUME BackInv, Stable, NEW a \in Node, RestartFrom(a)
  PROVE  DecisionInv' /\ \A p \in Node : RunOf(p)' /\ ConfigOf(p)'
<1>1. TypeInv /\ LogInv /\ values' = values
  BY LogRestart, Zenon DEF BackInv, LogInv
<1>2. DecisionInv'
  BY <1>1, DecisionFrame, ZenonT(30) DEF RestartFrom
<1>3. ASSUME NEW p \in Node PROVE RunOf(p)' /\ ConfigOf(p)'
  <2>1. CASE p # a
    <3>1. SameRun(p) /\ SameConfig(p) /\ reply'[p] = reply[p]
      BY <1>1, <2>1, Zenon DEF RestartFrom, SameRun, SamePhase, SameConfig, TypeInv, TypeOK
    <3> QED BY <3>1, RunFrame, ConfigFrame, Zenon
  <2>2. CASE p = a
    <3>1. /\ phase'[p] = "idle" /\ call'[p] = NoCall /\ reply'[p] = NoReply
          /\ proposal'[p] = NoProposal /\ upcalls'[p] = {}
          /\ myvid'[p] = instance_h[p] /\ mems'[p] = ReadValue(plog[p], instance_h[p])
      BY <1>1, <2>2, ZenonT(60) DEF RestartFrom, reconstruct, LogInv, ReplayMatches, TypeInv, TypeOK
    <3>2. RunOf(p)'
      BY <3>1, ZenonT(30) DEF RunOf, CallOf, ViewOf, CountOf, DecisionOf
    <3>3. instance_h[p] \in Instances => mems'[p] = values[p][instance_h[p]]
      BY <1>1, <3>1, ZenonT(30) DEF LogInv, ReplayMatches
    <3>4. ReadValue(plog[p], 0) = NoView
      <4>1. plog[p] \in Seq(LogRecord)
        BY <1>1, Zenon DEF TypeInv, TypeOK
      <4>2. \A k \in DOMAIN plog[p] : plog[p][k].type = "done" => plog[p][k].instance # 0
        BY <4>1, RecordTypes DEF Instances
      <4> QED BY <4>2, Zenon DEF ReadValue
    <3>5. instance_h[p] \in Instances \cup {0}
      BY <1>1, Zenon DEF TypeInv, TypeOK
    <3> QED BY <1>1, <3>1, <3>2, <3>3, <3>4, <3>5, ZenonT(30) DEF ConfigOf
  <2> QED BY <2>1, <2>2, Zenon
<1> QED BY <1>2, <1>3, Zenon

\* decidereq commits a view that had a majority when it was sent.
LEMMA BackDecide ==
  ASSUME BackInv, Stable, NEW m \in reqs, decidereq(m)
  PROVE  DecisionInv' /\ \A p \in Node : RunOf(p)' /\ ConfigOf(p)'
<1>1. TypeInv /\ m \in Request /\ m.dst \in Node /\ m.instance \in Instances
  BY RequestTypes, Zenon DEF BackInv, LogInv, TypeInv, TypeOK
<1>2. CASE RestartFrom(m.dst)
  BY <1>1, <1>2, BackRestart, Zenon
<1>3. CASE /\ v_a[m.dst] = m.v
           /\ commit_wo(m.dst, m.instance, v_a[m.dst], m)
           /\ reqs' = reqs \ {m}
           /\ UNCHANGED <<myvid, mems, proposal, my_n, phase, runVars, call, reply>>
  <2>1. Backed(m.instance, m.v) /\ m.v \in Views
    BY <1>1, RequestTypes, Zenon DEF BackInv, DecisionInv, decidereq
  <2>2. /\ \A b \in Node, j \in Instances \ {1} :
              values'[b][j] # NoView => Backed(j, values[b][j])'
        /\ \A p \in Node : ConfigOf(p)'
    BY <1>1, <1>3, <2>1, BackCommit, Zenon
  <2>3. DecisionInv'
    BY <1>3, <2>2, DecisionFrame, Zenon DEF DecisionInv
  <2>4. ASSUME NEW p \in Node PROVE RunOf(p)'
    BY <1>3, RunFrame, Zenon DEF SameRun, SamePhase, runVars
  <2> QED BY <2>2, <2>3, <2>4, Zenon
<1>4. CASE /\ Respond(m, [type |-> "accept", n_a |-> NoProp, v_a |-> NoView])
           /\ reqs' = reqs \ {m}
           /\ UNCHANGED <<acceptorVars, configVars, my_n, phase, runVars, call>>
  <2>1. DecisionInv'
    BY <1>4, DecisionFrame, Zenon DEF acceptorVars
  <2>2. ASSUME NEW p \in Node PROVE RunOf(p)' /\ ConfigOf(p)'
    <3>1. SameRun(p) /\ SameConfig(p)
      BY <1>4, Zenon DEF SameRun, SamePhase, SameConfig, runVars, configVars
    <3>2. CASE reply'[p] = reply[p]
      BY <3>1, <3>2, RunFrame, ConfigFrame, Zenon
    <3>3. CASE reply'[p] # reply[p]
      <4>1. call[p] = m /\ reply'[p].type = "accept"
        BY <1>1, <1>4, <3>3, ReplyOf
      <4>2. phase[p] = "decide" /\ instance[p] \in Instances /\ v[p] \in Views
        BY <1>1, <4>1, RequestTypes, ZenonT(30) DEF BackInv, RunOf, CallOf, decidereq, TypeInv, TypeOK, RunOK
      <4>3. CountOf(p)'
        BY <3>1, <4>2, ZenonT(30) DEF CountOf, SameRun, SamePhase
      <4>4. DecisionOf(p)'
        BY <3>1, <4>1, <4>2, ZenonT(30) DEF DecisionOf, SameRun, SamePhase, BackInv, RunOf, Stable
      <4> QED BY <3>1, <4>3, <4>4, RunFrame, ConfigFrame, Zenon DEF RunOf
    <3> QED BY <3>2, <3>3, Zenon
  <2> QED BY <2>1, <2>2, Zenon
<1> QED BY <1>2, <1>3, <1>4, ZenonT(30) DEF decidereq

\* p's run has returned: nothing is left of it.
LEMMA BackReturn ==
  ASSUME BackInv, Stable, NEW p \in Node, ReturnFromRun(p), call'[p] = NoCall,
         reply'[p] = NoReply, UNCHANGED proposal
  PROVE  RunOf(p)'
<1>1. TypeInv
  BY Zenon DEF BackInv, LogInv
<1>2. phase'[p] = "idle"
  BY <1>1, Zenon DEF ReturnFromRun, TypeInv, TypeOK
<1>3. proposal[p] # NoProposal =>
        proposal[p].instance \in Instances /\ proposal[p].cur_nodes \in Views
  BY <1>1, Zenon DEF TypeInv, TypeOK, Arguments
<1>4. ViewOf(p)'
  BY <1>2, <1>3, ZenonT(30) DEF ViewOf, BackInv, RunOf, Stable
<1> QED BY <1>2, <1>4, ZenonT(30) DEF RunOf, CallOf, CountOf, DecisionOf

\* The end of a run leaves the runs of other nodes alone.
LEMMA OtherRun ==
  ASSUME BackInv, NEW p \in Node, NEW q \in Node, q # p, ReturnFromRun(p),
         UNCHANGED <<my_n, proposal>>, call'[q] = call[q]
  PROVE  SameRun(q)
BY Zenon DEF ReturnFromRun, SameRun, SamePhase, BackInv, LogInv, TypeInv, TypeOK

\* The view that paxos_commit gives to config is a committed one.
LEMMA BackConfig ==
  ASSUME BackInv, Stable, NEW p \in Node, ConfigStep(p)
  PROVE  DecisionInv' /\ \A q \in Node : RunOf(q)' /\ ConfigOf(q)'
<1>1. TypeInv
  BY Zenon DEF BackInv, LogInv
<1>2. ASSUME NEW u \in upcalls[p], paxos_commit(p, u)
      PROVE  DecisionInv' /\ \A q \in Node : RunOf(q)' /\ ConfigOf(q)'
  <2>1. u.req \in Request /\ u.instance \in Instances
    BY <1>1 DEF TypeInv, TypeOK
  <2>2. DecisionInv'
    BY <1>2, DecisionFrame, ZenonT(30) DEF paxos_commit, acceptorVars
  <2>3. ASSUME NEW q \in Node PROVE ConfigOf(q)'
    <3>1. CASE q # p
      BY <1>1, <1>2, <3>1, ConfigFrame, Zenon DEF paxos_commit, SameConfig, TypeInv, TypeOK
    <3>2. CASE q = p
      <4>1. upcalls'[p] \subseteq upcalls[p] /\ mems'[p] = u.v /\ myvid'[p] = u.instance
            /\ values' = values
        BY <1>1, <1>2, Zenon DEF paxos_commit, TypeInv, TypeOK, acceptorVars
      <4> QED BY <1>2, <2>1, <3>2, <4>1, ZenonT(30) DEF ConfigOf, BackInv
    <3> QED BY <3>1, <3>2, Zenon
  <2>4. CASE /\ u.req.type = "decide"
             /\ Respond(u.req, [type |-> "accept", n_a |-> NoProp, v_a |-> NoView])
             /\ UNCHANGED <<phase, runVars, call>>
    <3>1. ASSUME NEW q \in Node PROVE RunOf(q)'
      <4>1. SameRun(q)
        BY <1>2, <2>4, ZenonT(30) DEF paxos_commit, SameRun, SamePhase, runVars
      <4>2. CASE reply'[q] = reply[q]
        BY <4>1, <4>2, RunFrame, Zenon
      <4>3. CASE reply'[q] # reply[q]
        <5>1. call[q] = u.req /\ reply'[q].type = "accept"
          BY <1>1, <2>1, <2>4, <4>3, ReplyOf, SMTT(30)
        <5>2. phase[q] = "decide" /\ instance[q] \in Instances /\ v[q] \in Views
          BY <1>1, <2>1, <2>4, <5>1, RequestTypes, ZenonT(60)
             DEF BackInv, RunOf, CallOf, TypeInv, TypeOK, RunOK
        <5>3. CountOf(q)'
          BY <4>1, <5>2, ZenonT(30) DEF CountOf, SameRun, SamePhase
        <5>4. DecisionOf(q)'
          BY <4>1, <5>1, <5>2, ZenonT(30) DEF DecisionOf, SameRun, SamePhase, BackInv, RunOf, Stable
        <5> QED BY <4>1, <5>3, <5>4, RunFrame, ZenonT(30) DEF RunOf
      <4> QED BY <4>2, <4>3, Zenon
    <3> QED BY <2>2, <2>3, <3>1, ZenonT(30)
  <2>5. CASE /\ ReturnFromRun(p)
             /\ call' = [call EXCEPT ![p] = NoCall]
             /\ reply' = [reply EXCEPT ![p] = NoReply]
    <3>1. ASSUME NEW q \in Node PROVE RunOf(q)'
      <4>1. CASE q # p
        <5>1. call'[q] = call[q] /\ reply'[q] = reply[q]
          BY <1>1, <2>5, <4>1, Zenon DEF TypeInv, TypeOK
        <5>2. SameRun(q)
          BY <1>2, <2>5, <4>1, <5>1, OtherRun, ZenonT(30) DEF paxos_commit
        <5> QED BY <5>1, <5>2, RunFrame, Zenon
      <4>2. CASE q = p
        <5>1. call'[p] = NoCall /\ reply'[p] = NoReply
          BY <1>1, <2>5, Zenon DEF TypeInv, TypeOK
        <5> QED BY <1>2, <2>5, <4>2, <5>1, BackReturn, Zenon DEF paxos_commit
      <4> QED BY <4>1, <4>2, Zenon
    <3> QED BY <2>2, <2>3, <3>1, Zenon
  <2> QED BY <1>2, <2>4, <2>5, ZenonT(30) DEF paxos_commit
<1>3. ASSUME NEW view, Propose(p, view)
      PROVE  DecisionInv' /\ \A q \in Node : RunOf(q)' /\ ConfigOf(q)'
  <2>1. DecisionInv'
    BY <1>3, DecisionFrame, ZenonT(30) DEF Propose, acceptorVars
  <2>2. ASSUME NEW q \in Node PROVE RunOf(q)' /\ ConfigOf(q)'
    <3>1. SameConfig(q)
      BY <1>3, ZenonT(30) DEF Propose, SameConfig
    <3>2. CASE q # p
      <4>1. SameRun(q) /\ reply'[q] = reply[q]
        BY <1>1, <1>3, <3>2, Zenon DEF Propose, SameRun, SamePhase, runVars, TypeInv, TypeOK
      <4> QED BY <3>1, <4>1, RunFrame, ConfigFrame, Zenon
    <3>3. CASE q = p
      <4>1. /\ myvid[p] \in Instances /\ myvid[p] + 1 - 1 = myvid[p]
            /\ mems[p] # NoView /\ values[p][myvid[p]] = mems[p]
        BY <1>3, BoundAssumption DEF Propose, NoView, BackInv, ConfigOf, Instances
      <4>2. Ruled(myvid[p] + 1, mems[p])
        <5> DEFINE i == myvid[p] + 1
        <5>1. i - 1 = myvid[p]
          <6>1. myvid[p] \in Int
            BY <4>1 DEF Instances
          <6> QED BY <6>1
        <5> HIDE DEF i
        <5>2. Ruled(i, mems[p])
          BY <4>1, <5>1, Zenon DEF Ruled
        <5> QED BY <5>2, Zenon DEF i
      <4>3. /\ proposal'[p].instance = myvid[p] + 1 /\ proposal'[p].cur_nodes = mems[p]
            /\ myvid[p] + 1 \in Instances /\ mems[p] \in Views
        BY <1>1, <1>3, <4>1, BoundAssumption DEF Propose, TypeInv, TypeOK, Instances
      <4>4. Ruled(proposal[p].instance, proposal[p].cur_nodes)'
        BY <4>2, <4>3, ZenonT(30) DEF Stable
      <4>5. SamePhase(p) /\ reply'[p] = reply[p]
        BY <1>3, ZenonT(30) DEF Propose, runVars, SamePhase
      <4> QED BY <3>1, <3>3, <4>4, <4>5, PhaseFrame, ConfigFrame, Zenon DEF RunOf, ViewOf
    <3> QED BY <3>2, <3>3, Zenon
  <2> QED BY <2>1, <2>2, Zenon
<1> QED BY <1>2, <1>3, ZenonT(30) DEF ConfigStep, remove_wo, add

\* proposer::run starts with the members of a view that rules its instance.
LEMMA BackRun ==
  ASSUME BackInv, Stable, NEW p \in Node, run(p)
  PROVE  DecisionInv' /\ \A q \in Node : RunOf(q)' /\ ConfigOf(q)'
<1>1. TypeInv
  BY Zenon DEF BackInv, LogInv
<1>2. DecisionInv'
  BY DecisionFrame, ZenonT(30) DEF run, acceptorVars
<1>3. ASSUME NEW q \in Node PROVE RunOf(q)' /\ ConfigOf(q)'
  <2>1. SameConfig(q)
    BY ZenonT(30) DEF run, SameConfig
  <2>2. CASE q # p
    <3>1. SameRun(q) /\ reply'[q] = reply[q]
      BY <1>1, <2>2, ZenonT(60) DEF run, SameRun, SamePhase, runVars, TypeInv, TypeOK
    <3> QED BY <2>1, <3>1, RunFrame, ConfigFrame, Zenon
  <2>3. CASE q = p /\ phase[p] # "idle"
    <3>1. SamePhase(p) /\ reply'[p] = reply[p] /\ proposal'[p] = NoProposal
      BY <1>1, <2>3, ZenonT(30) DEF run, SamePhase, runVars, TypeInv, TypeOK
    <3> QED BY <2>1, <2>3, <3>1, PhaseFrame, ConfigFrame, ZenonT(30) DEF RunOf, ViewOf
  <2>4. CASE q = p /\ phase[p] = "idle"
    <3>1. call[p] = NoCall /\ reply[p] = NoReply
      <4>1. call[p] # NoCall => call[p].type # "idle"
        BY <1>1, RequestTypes, ZenonT(30) DEF TypeInv, TypeOK
      <4>2. call[p] = NoCall
        BY <2>4, <4>1, ZenonT(30) DEF BackInv, RunOf, CallOf
      <4> QED BY <1>1, <4>2, Zenon DEF TypeInv, RunOK
    <3>2. /\ phase'[p] = "prepare" /\ instance'[p] = proposal[p].instance
          /\ cur_nodes'[p] = proposal[p].cur_nodes /\ proposal'[p] = NoProposal
          /\ call'[p] = NoCall /\ reply'[p] = NoReply /\ proposal[p] # NoProposal
      BY <1>1, <2>4, <3>1, ZenonT(30) DEF run, TypeInv, TypeOK
    <3>3. proposal[p].instance \in Instances /\ proposal[p].cur_nodes \in Views
      BY <1>1, <3>2, ZenonT(30) DEF TypeInv, TypeOK, Arguments
    <3>4. ViewOf(p)'
      BY <3>2, <3>3, ZenonT(30) DEF ViewOf, BackInv, RunOf, Stable
    <3>5. CallOf(p)' /\ CountOf(p)' /\ DecisionOf(p)'
      BY <3>2, ZenonT(30) DEF CallOf, CountOf, DecisionOf
    <3> QED BY <2>1, <2>4, <3>4, <3>5, ConfigFrame, Zenon DEF RunOf
  <2> QED BY <2>2, <2>3, <2>4, Zenon
<1> QED BY <1>2, <1>3, Zenon

\* A call carries what its phase knows; a decision has a majority behind it.
LEMMA BackCall ==
  ASSUME BackInv, Stable, NEW p \in Node, NEW a \in Node, CallNext(p, a)
  PROVE  DecisionInv' /\ \A q \in Node : RunOf(q)' /\ ConfigOf(q)'
<1> DEFINE m == [type |-> phase[p], src |-> p, dst |-> a, instance |-> instance[p],
                 n |-> IF phase[p] = "decide" THEN NoProp ELSE my_n[p],
                 v |-> IF phase[p] = "prepare" THEN NoView ELSE v[p]]
<1>1. TypeInv /\ reply[p] = NoReply
  BY ZenonT(30) DEF BackInv, LogInv, TypeInv, RunOK, CallNext
<1>2. DecisionInv'
  <2>1. values' = values /\ \A x \in reqs' : x \in reqs \/ x = m
    BY Zenon DEF CallNext, acceptorVars
  <2>2. m.type = "decide" => Backed(m.instance, m.v)'
    BY <1>1, ZenonT(30) DEF CallNext, BackInv, RunOf, DecisionOf, Stable, TypeInv, TypeOK, RunOK
  <2>3. \A x \in reqs : x.type = "decide" => Backed(x.instance, x.v)'
    BY DecisionFrame, ZenonT(30)
  <2>4. \A b \in Node, i \in Instances \ {1} :
          values'[b][i] # NoView => Backed(i, values[b][i])'
    BY <2>1, DecisionFrame, ZenonT(30)
  <2>5. ASSUME NEW x \in reqs', x.type = "decide" PROVE Backed(x.instance, x.v)'
    <3>1. CASE x \in reqs
      BY <2>3, <2>5, <3>1, Zenon
    <3>2. CASE x = m
      BY <2>2, <2>5, <3>2, ZenonT(30) DEF CallNext
    <3> QED BY <2>1, <3>1, <3>2, Zenon
  <2> QED BY <2>4, <2>5, ZenonT(30) DEF DecisionInv
<1>3. ASSUME NEW q \in Node PROVE RunOf(q)' /\ ConfigOf(q)'
  <2>1. SameConfig(q)
    BY ZenonT(30) DEF CallNext, SameConfig, configVars
  <2>2. CASE call'[q] = call[q]
    <3>1. SameRun(q) /\ reply'[q] = reply[q]
      BY <2>2, ZenonT(30) DEF CallNext, SameRun, SamePhase, configVars
    <3> QED BY <2>1, <3>1, RunFrame, ConfigFrame, ZenonT(30)
  <2>3. CASE call'[q] # call[q]
    <3>1. q = p /\ call' = [call EXCEPT ![p] = m] /\ call'[p] = m
      BY <1>1, <2>3, ZenonT(30) DEF CallNext, TypeInv, TypeOK
    <3>2. /\ my_n'[p] = my_n[p] /\ phase'[p] = phase[p] /\ instance'[p] = instance[p]
          /\ cur_nodes'[p] = cur_nodes[p] /\ accepts'[p] = accepts[p] /\ v'[p] = v[p]
          /\ reply'[p] = NoReply /\ proposal'[p] = proposal[p]
      BY <1>1, ZenonT(30) DEF CallNext, configVars
    <3>3. CallOf(p)'
      BY <3>1, <3>2, SMTT(30) DEF CallOf
    <3>4. /\ accepts[p] \subseteq Node /\ my_n[p] \in prop_t /\ v[p] \in Views
          /\ cur_nodes[p] \in Views /\ phase[p] # "idle" /\ instance[p] \in Instances
          /\ proposal[p] # NoProposal =>
               proposal[p].instance \in Instances /\ proposal[p].cur_nodes \in Views
      BY <1>1, ZenonT(30) DEF CallNext, TypeInv, TypeOK, RunOK, Views, Arguments
    <3>5. ViewOf(p)'
      BY <3>2, <3>4, ZenonT(30) DEF ViewOf, BackInv, RunOf, Stable
    <3>6. CountOf(p)' /\ DecisionOf(p)'
      BY <3>2, <3>4, ZenonT(30) DEF CountOf, DecisionOf, BackInv, RunOf, Stable
    <3> QED BY <2>1, <3>1, <3>3, <3>5, <3>6, ConfigFrame, ZenonT(30) DEF RunOf
  <2> QED BY <2>2, <2>3, Zenon
<1> QED BY <1>2, <1>3, Zenon

\* A step that ends p's call, without counting an answer.
LEMMA BackEndOfCall ==
  ASSUME BackInv, Stable, NEW p \in Node,
         call' = [call EXCEPT ![p] = NoCall], reply' = [reply EXCEPT ![p] = NoReply],
         UNCHANGED <<values, configVars, my_n, phase, runVars, reqs>>
  PROVE  DecisionInv' /\ \A q \in Node : RunOf(q)' /\ ConfigOf(q)'
<1>1. TypeInv
  BY Zenon DEF BackInv, LogInv
<1>2. DecisionInv'
  BY DecisionFrame, Zenon
<1>3. ASSUME NEW q \in Node PROVE RunOf(q)' /\ ConfigOf(q)'
  <2>1. SameConfig(q)
    BY Zenon DEF SameConfig, configVars
  <2>2. CASE q # p
    <3>1. SameRun(q) /\ reply'[q] = reply[q]
      BY <1>1, <2>2, Zenon DEF SameRun, SamePhase, configVars, runVars, TypeInv, TypeOK
    <3> QED BY <2>1, <3>1, RunFrame, ConfigFrame, Zenon
  <2>3. CASE q = p
    <3>1. call'[p] = NoCall /\ reply'[p] = NoReply
      BY <1>1, Zenon DEF TypeInv, TypeOK
    <3>2. /\ my_n'[p] = my_n[p] /\ phase'[p] = phase[p] /\ instance'[p] = instance[p]
          /\ cur_nodes'[p] = cur_nodes[p] /\ accepts'[p] = accepts[p] /\ v'[p] = v[p]
          /\ proposal'[p] = proposal[p]
      BY ZenonT(30) DEF configVars, runVars
    <3>3. /\ accepts[p] \subseteq Node /\ my_n[p] \in prop_t /\ v[p] \in Views
          /\ cur_nodes[p] \in Views /\ (phase[p] # "idle" => instance[p] \in Instances)
          /\ proposal[p] # NoProposal =>
               proposal[p].instance \in Instances /\ proposal[p].cur_nodes \in Views
      BY <1>1, Zenon DEF TypeInv, TypeOK, RunOK, Views, Arguments
    <3>4. CallOf(p)' /\ ViewOf(p)'
      BY <3>1, <3>2, <3>3, ZenonT(30) DEF CallOf, ViewOf, BackInv, RunOf, Stable
    <3>5. CountOf(p)' /\ DecisionOf(p)'
      BY <3>1, <3>2, <3>3, ZenonT(30) DEF CountOf, DecisionOf, BackInv, RunOf, Stable
    <3> QED BY <2>1, <2>3, <3>4, <3>5, ConfigFrame, Zenon DEF RunOf
  <2> QED BY <2>2, <2>3, Zenon
<1> QED BY <1>2, <1>3, Zenon

\* A step that ends p's run.
LEMMA BackEndOfRun ==
  ASSUME BackInv, Stable, NEW p \in Node, ReturnFromRun(p),
         call' = [call EXCEPT ![p] = NoCall], reply' = [reply EXCEPT ![p] = NoReply],
         UNCHANGED <<values, configVars, my_n, reqs>>
  PROVE  DecisionInv' /\ \A q \in Node : RunOf(q)' /\ ConfigOf(q)'
<1>1. TypeInv
  BY Zenon DEF BackInv, LogInv
<1>2. DecisionInv'
  BY DecisionFrame, ZenonT(30)
<1>3. ASSUME NEW q \in Node PROVE RunOf(q)' /\ ConfigOf(q)'
  <2>1. SameConfig(q)
    BY Zenon DEF SameConfig, configVars
  <2>2. CASE q # p
    <3>1. call'[q] = call[q] /\ reply'[q] = reply[q]
      BY <1>1, <2>2, Zenon DEF TypeInv, TypeOK
    <3>2. SameRun(q)
      BY <2>2, <3>1, OtherRun, Zenon DEF configVars
    <3> QED BY <2>1, <3>1, <3>2, RunFrame, ConfigFrame, Zenon
  <2>3. CASE q = p
    <3>1. call'[p] = NoCall /\ reply'[p] = NoReply
      BY <1>1, Zenon DEF TypeInv, TypeOK
    <3> QED BY <2>1, <2>3, <3>1, BackReturn, ConfigFrame, Zenon DEF configVars
  <2> QED BY <2>2, <2>3, Zenon
<1> QED BY <1>2, <1>3, Zenon

\* A view found in an oldinstance answer has a majority behind it.
LEMMA BackPrepareReply ==
  ASSUME BackInv, Stable, NEW p \in Node, PrepareReply(p)
  PROVE  DecisionInv' /\ \A q \in Node : RunOf(q)' /\ ConfigOf(q)'
<1> DEFINE r == reply[p]
<1>1. /\ TypeInv /\ r \in Response /\ r.v_a \in Views /\ call[p] \in Request
      /\ instance[p] \in Instances
  BY ResponseTypes, ZenonT(30) DEF PrepareReply, BackInv, LogInv, TypeInv, TypeOK, RunOK
<1>2. CASE /\ r.type = "oldinstance"
           /\ commit_wo(p, instance[p], r.v_a, call[p])
           /\ UNCHANGED <<phase, runVars, call>>
  <2>1. r.v_a # NoView /\ instance[p] # 1 => Backed(instance[p], r.v_a)
    BY <1>1, <1>2, ResponseTypes, ZenonT(30) DEF BackInv, RunOf, DecisionOf
  <2>2. /\ \A b \in Node, j \in Instances \ {1} :
              values'[b][j] # NoView => Backed(j, values[b][j])'
        /\ \A q \in Node : ConfigOf(q)'
    BY <1>1, <1>2, <2>1, BackCommit, ZenonT(30) DEF PrepareReply
  <2>3. DecisionInv'
    BY <2>2, DecisionFrame, ZenonT(30) DEF DecisionInv, PrepareReply
  <2>4. ASSUME NEW q \in Node PROVE RunOf(q)'
    <3>1. SameRun(q)
      BY <1>2, ZenonT(30) DEF SameRun, SamePhase, runVars, PrepareReply
    <3>2. reply'[q] = reply[q] \/ reply'[q] = NoReply
      BY <1>1, ZenonT(30) DEF PrepareReply, TypeInv, TypeOK
    <3> QED BY <3>1, <3>2, RunFrame, ZenonT(30)
  <2> QED BY <2>2, <2>3, <2>4, ZenonT(30)
<1>3. CASE /\ ReturnFromRun(p)
           /\ call' = [call EXCEPT ![p] = NoCall]
           /\ UNCHANGED <<acceptorVars, upcalls>>
  BY <1>3, BackEndOfRun, ZenonT(30) DEF PrepareReply, acceptorVars, configVars
<1>4. CASE /\ accepts' = [accepts EXCEPT ![p] = @ \cup {call[p].dst}]
           /\ v' = [v EXCEPT ![p] = IF Gt(r.n_a, highest_seen[p]) THEN r.v_a ELSE @]
           /\ call' = [call EXCEPT ![p] = NoCall]
           /\ UNCHANGED <<acceptorVars, upcalls, phase, instance, cur_nodes, newv, todo>>
  <2>1. DecisionInv'
    BY <1>4, DecisionFrame, ZenonT(30) DEF PrepareReply, acceptorVars
  <2>2. ASSUME NEW q \in Node PROVE RunOf(q)' /\ ConfigOf(q)'
    <3>1. SameConfig(q)
      BY <1>4, ZenonT(30) DEF SameConfig, PrepareReply
    <3>2. CASE q # p
      <4>1. SameRun(q) /\ reply'[q] = reply[q]
        BY <1>1, <1>4, <3>2, ZenonT(30) DEF SameRun, SamePhase, PrepareReply, TypeInv, TypeOK
      <4> QED BY <3>1, <4>1, RunFrame, ConfigFrame, Zenon
    <3>3. CASE q = p
      <4>1. /\ phase'[p] = "prepare" /\ instance'[p] = instance[p]
            /\ cur_nodes'[p] = cur_nodes[p] /\ proposal'[p] = proposal[p]
            /\ call'[p] = NoCall /\ reply'[p] = NoReply
        BY <1>1, <1>4, ZenonT(30) DEF PrepareReply, TypeInv, TypeOK
      <4>2. /\ cur_nodes[p] \in Views
            /\ proposal[p] # NoProposal =>
                 proposal[p].instance \in Instances /\ proposal[p].cur_nodes \in Views
        BY <1>1, Zenon DEF TypeInv, TypeOK, Arguments
      <4>3. ViewOf(p)'
        BY <1>1, <4>1, <4>2, ZenonT(30) DEF ViewOf, BackInv, RunOf, Stable, PrepareReply
      <4>4. CallOf(p)' /\ CountOf(p)' /\ DecisionOf(p)'
        BY <4>1, ZenonT(30) DEF CallOf, CountOf, DecisionOf
      <4> QED BY <3>1, <3>3, <4>3, <4>4, ConfigFrame, Zenon DEF RunOf
    <3> QED BY <3>2, <3>3, Zenon
  <2> QED BY <2>1, <2>2, Zenon
<1>5. CASE /\ call' = [call EXCEPT ![p] = NoCall]
           /\ UNCHANGED <<acceptorVars, upcalls, phase, runVars>>
  BY <1>5, BackEndOfCall, ZenonT(30) DEF PrepareReply, acceptorVars, configVars
<1> QED BY <1>2, <1>3, <1>4, <1>5, ZenonT(30) DEF PrepareReply

\* The end of a phase: on to the next one, or the end of the run.
LEMMA BackEndOfPhase ==
  ASSUME BackInv, Stable, NEW p \in Node, EndPrepare(p) \/ EndAccept(p)
  PROVE  DecisionInv' /\ \A q \in Node : RunOf(q)' /\ ConfigOf(q)'
<1>1. /\ TypeInv /\ call[p] = NoCall /\ reply[p] = NoReply /\ phase[p] # "idle"
      /\ call' = call /\ reply' = reply /\ values' = values
      /\ my_n' = my_n /\ reqs' = reqs /\ UNCHANGED configVars
  BY ZenonT(30) DEF EndPrepare, EndAccept, BackInv, LogInv, TypeInv, RunOK, acceptorVars
<1>2. CASE ReturnFromRun(p)
  <2>1. call' = [call EXCEPT ![p] = NoCall] /\ reply' = [reply EXCEPT ![p] = NoReply]
    BY <1>1, Zenon DEF TypeInv, TypeOK
  <2> QED BY <1>1, <1>2, <2>1, BackEndOfRun, ZenonT(30)
<1>3. CASE ~ ReturnFromRun(p)
  <2>1. DecisionInv'
    BY <1>1, DecisionFrame, Zenon
  <2>2. ASSUME NEW q \in Node PROVE RunOf(q)' /\ ConfigOf(q)'
    <3>1. SameConfig(q)
      BY <1>1, Zenon DEF SameConfig, configVars
    <3>2. CASE q # p
      <4>1. SameRun(q) /\ reply'[q] = reply[q]
        BY <1>1, <1>3, <3>2, ZenonT(30)
           DEF SameRun, SamePhase, EndPrepare, EndAccept, configVars, TypeInv, TypeOK
      <4> QED BY <3>1, <4>1, RunFrame, ConfigFrame, Zenon
    <3>3. CASE q = p
      <4>1. /\ instance'[p] = instance[p] /\ cur_nodes'[p] = cur_nodes[p]
            /\ proposal'[p] = proposal[p] /\ call'[p] = NoCall /\ reply'[p] = NoReply
        BY <1>1, <1>3, ZenonT(30) DEF EndPrepare, EndAccept, configVars
      <4>2. /\ cur_nodes[p] \in Views /\ instance[p] \in Instances /\ accepts[p] \in Views
            /\ my_n[p] \in prop_t /\ v[p] \in Views
            /\ proposal[p] # NoProposal =>
                 proposal[p].instance \in Instances /\ proposal[p].cur_nodes \in Views
        BY <1>1, Zenon DEF TypeInv, TypeOK, RunOK, Arguments
      <4>3. ViewOf(p)'
        BY <1>1, <4>1, <4>2, ZenonT(30) DEF ViewOf, BackInv, RunOf, Stable
      <4>4. CASE EndPrepare(p)
        <5>1. phase'[p] = "accept" /\ accepts'[p] = {}
          BY <1>1, <1>3, <4>4, ZenonT(30) DEF EndPrepare, TypeInv, TypeOK
        <5> QED BY <3>1, <3>3, <4>1, <4>3, <5>1, ConfigFrame, ZenonT(30)
                DEF RunOf, CallOf, CountOf, DecisionOf
      <4>5. CASE EndAccept(p)
        <5>1. phase'[p] = "decide" /\ v'[p] = v[p] /\ majority(cur_nodes[p], accepts[p])
          BY <1>1, <1>3, <4>5, Zenon DEF EndAccept, TypeInv, TypeOK
        <5>2. IsMajority(accepts[p], cur_nodes[p])
          BY <4>2, <5>1, CountedMajority, ZenonT(30)
        <5> DEFINE Q == {b \in Node : EverAccepted(b, my_n[p], v[p])}
        <5>3. accepts[p] \subseteq Q
          BY <4>2, <4>5, ZenonT(30) DEF EndAccept, BackInv, RunOf, CountOf, Views
        <5>4. IsMajority(Q, cur_nodes[p])
          BY <4>2, <5>2, <5>3, MajorityGrows, ZenonT(30)
        <5>5. Ruled(instance[p], cur_nodes[p])
          BY <1>1, Zenon DEF BackInv, RunOf, ViewOf
        <5>6. Backed(instance[p], v[p])
          BY <4>2, <5>4, <5>5, ZenonT(30) DEF Backed, Ruled
        <5>7. DecisionOf(p)'
          BY <4>1, <4>2, <5>1, <5>6, ZenonT(30) DEF DecisionOf, Stable
        <5> QED BY <3>1, <3>3, <4>1, <4>3, <5>1, <5>7, ConfigFrame, ZenonT(30) DEF RunOf, CallOf, CountOf
      <4> QED BY <4>4, <4>5, Zenon
    <3> QED BY <3>2, <3>3, Zenon
  <2> QED BY <2>1, <2>2, Zenon
<1> QED BY <1>2, <1>3, Zenon

\* accept() counts a node after its vote is in the log.
LEMMA BackAcceptReply ==
  ASSUME BackInv, Stable, NEW p \in Node, AcceptReply(p)
  PROVE  DecisionInv' /\ \A q \in Node : RunOf(q)' /\ ConfigOf(q)'
<1>1. TypeInv
  BY Zenon DEF BackInv, LogInv
<1>2. DecisionInv'
  BY DecisionFrame, ZenonT(30) DEF AcceptReply, acceptorVars
<1>3. ASSUME NEW q \in Node PROVE RunOf(q)' /\ ConfigOf(q)'
  <2>1. SameConfig(q)
    BY Zenon DEF SameConfig, AcceptReply, configVars
  <2>2. CASE q # p
    <3>1. SameRun(q) /\ reply'[q] = reply[q]
      BY <1>1, <2>2, Zenon DEF SameRun, SamePhase, AcceptReply, configVars, TypeInv, TypeOK
    <3> QED BY <2>1, <3>1, RunFrame, ConfigFrame, Zenon
  <2>3. CASE q = p
    <3>1. /\ phase'[p] = "accept" /\ instance'[p] = instance[p]
          /\ cur_nodes'[p] = cur_nodes[p] /\ proposal'[p] = proposal[p]
          /\ call'[p] = NoCall /\ reply'[p] = NoReply /\ my_n'[p] = my_n[p] /\ v'[p] = v[p]
          /\ phase[p] = "accept"
      BY <1>1, Zenon DEF AcceptReply, configVars, TypeInv, TypeOK
    <3>2. /\ cur_nodes[p] \in Views /\ instance[p] \in Instances /\ my_n[p] \in prop_t
          /\ v[p] \in Views /\ accepts[p] \subseteq Node
          /\ proposal[p] # NoProposal =>
               proposal[p].instance \in Instances /\ proposal[p].cur_nodes \in Views
      BY <1>1, <3>1, ZenonT(30) DEF TypeInv, TypeOK, RunOK, Arguments, Views
    <3>3. ViewOf(p)'
      BY <3>1, <3>2, ZenonT(30) DEF ViewOf, BackInv, RunOf, Stable
    <3>4. call[p].dst \in Node /\ reply[p] # NoReply
      BY <1>1, RequestTypes, ZenonT(30) DEF AcceptReply, TypeInv, TypeOK, RunOK
    <3>5. accepts'[p] = IF reply[p].type = "accept" THEN accepts[p] \cup {call[p].dst}
                        ELSE accepts[p]
      BY <1>1, Zenon DEF AcceptReply, TypeInv, TypeOK
    <3>6. \A a \in accepts'[p] : a \in Node /\ EverAccepted(a, my_n[p], v[p])
      BY <3>1, <3>2, <3>4, <3>5, Zenon DEF BackInv, RunOf, CountOf
    <3>7. \A a \in accepts'[p] : EverAccepted(a, my_n[p], v[p])'
      BY <3>1, <3>2, <3>6, ZenonT(30) DEF Stable
    <3>8. CallOf(p)' /\ CountOf(p)' /\ DecisionOf(p)'
      BY <3>1, <3>7, ZenonT(30) DEF CallOf, CountOf, DecisionOf
    <3> QED BY <2>1, <2>3, <3>3, <3>8, ConfigFrame, Zenon DEF RunOf
  <2> QED BY <2>2, <2>3, Zenon
<1> QED BY <1>2, <1>3, Zenon

\* Every step keeps a majority behind each committed view.
LEMMA BackNext == BackInv /\ [Next]_vars => BackInv'
<1> SUFFICES ASSUME BackInv, [Next]_vars PROVE DecisionInv' /\ \A q \in Node : RunOf(q)' /\ ConfigOf(q)'
  BY StepIsStable, Zenon DEF BackInv
<1>1. Stable /\ LogInv' /\ LogInv /\ TypeInv
  BY StepIsStable, Zenon DEF BackInv, LogInv
<1>2. CASE UNCHANGED vars
  <2>1. ASSUME NEW q \in Node PROVE SameRun(q) /\ SameConfig(q) /\ reply'[q] = reply[q]
    BY <1>2, ZenonT(30) DEF SameRun, SamePhase, SameConfig, vars, configVars, runVars
  <2>2. DecisionInv'
    BY <1>1, <1>2, DecisionFrame, ZenonT(30) DEF vars, acceptorVars
  <2> QED BY <1>1, <2>1, <2>2, RunFrame, ConfigFrame, ZenonT(30)
<1>3. ASSUME NEW m \in reqs, preparereq(m) \/ acceptreq(m) \/ decidereq(m)
      PROVE  DecisionInv' /\ \A q \in Node : RunOf(q)' /\ ConfigOf(q)'
  BY <1>1, <1>3, BackPrepare, BackAccept, BackDecide, Zenon
<1>4. ASSUME NEW p \in Node, TimeOut(p) \/ DecideReply(p)
      PROVE  DecisionInv' /\ \A q \in Node : RunOf(q)' /\ ConfigOf(q)'
  BY <1>1, <1>4, BackEndOfCall, Zenon DEF TimeOut, DecideReply, acceptorVars
<1>5. ASSUME NEW p \in Node, EndDecide(p)
      PROVE  DecisionInv' /\ \A q \in Node : RunOf(q)' /\ ConfigOf(q)'
  <2>1. call' = [call EXCEPT ![p] = NoCall] /\ reply' = [reply EXCEPT ![p] = NoReply]
    BY <1>1, <1>5, Zenon DEF EndDecide, TypeInv, TypeOK, RunOK
  <2> QED BY <1>1, <1>5, <2>1, BackEndOfRun, ZenonT(30) DEF EndDecide, acceptorVars
<1>6. ASSUME NEW p \in Node, ProposerStep(p)
      PROVE  DecisionInv' /\ \A q \in Node : RunOf(q)' /\ ConfigOf(q)'
  BY <1>1, <1>4, <1>5, <1>6, BackRun, BackCall, BackPrepareReply, BackEndOfPhase,
     BackAcceptReply, Zenon DEF ProposerStep
<1>7. ASSUME NEW p \in Node, ConfigStep(p) \/ Crash(p)
      PROVE  DecisionInv' /\ \A q \in Node : RunOf(q)' /\ ConfigOf(q)'
  BY <1>1, <1>7, BackConfig, BackRestart, Zenon DEF Crash
<1> QED BY <1>2, <1>3, <1>6, <1>7, Zenon DEF Next

\* Behind every view any node ever commits stand a majority of the members
\* of a committed previous view, all of which accepted it under the same
\* proposal number.
THEOREM CommittedViewsAreBacked == Spec => []MajorityBehindView
<1>1. BackInv => MajorityBehindView
  <2> SUFFICES ASSUME BackInv, NEW a \in Node, NEW i \in Instances \ {1}, values[a][i] # NoView
               PROVE  \E p \in Node, x \in AcceptedRecords :
                        /\ values[p][i - 1] # NoView
                        /\ x.v = values[a][i]
                        /\ IsMajority({b \in Node : EverAccepted(b, x.n, x.v)}, values[p][i - 1])
    BY Zenon DEF MajorityBehindView
  <2> DEFINE w == values[a][i]
  <2>1. PICK p \in Node, n \in prop_t :
          /\ i - 1 \in Instances
          /\ values[p][i - 1] # NoView
          /\ IsMajority({b \in Node : EverAccepted(b, n, w)}, values[p][i - 1])
    BY ZenonT(30) DEF BackInv, DecisionInv, Backed
  <2>2. values[p][i - 1] \in Views
    BY <2>1, SMTT(30) DEF BackInv, LogInv, TypeInv, TypeOK
  <2>3. PICK b \in Node : EverAccepted(b, n, w)
    BY <2>1, <2>2, MajorityNotEmpty, SMTT(30) DEF Views
  <2>4. PICK k \in DOMAIN plog[b] : plog[b][k] = Accepted(n, w)
    BY <2>3, Zenon DEF EverAccepted
  <2>5. Accepted(n, w) \in AcceptedRecords /\ Accepted(n, w).n = n /\ Accepted(n, w).v = w
    BY <2>4, SMTT(30) DEF AcceptedRecords, Accepted
  <2> QED BY <2>1, <2>5, ZenonT(30)
<1> QED BY <1>1, BackInit, BackNext, PTL DEF Spec

=============================================================================
