------------------------------- MODULE Paxos -------------------------------
(***************************************************************************)
(* The view-agreement layer: proposer and acceptor of paxos.cc, the        *)
(* durable log of log.cc and the part of config.cc that starts proposals   *)
(* and receives committed views.                                           *)
(*                                                                         *)
(* A value is a view: the set of its members, {} being the empty string.   *)
(* A node is a positive number, ordered as the code orders the strings in  *)
(* prop_t; 0 is the empty string.  Instance 1 stands for the view every    *)
(* node has already reached; the instances up to LastInstance are          *)
(* contested.                                                              *)
(***************************************************************************)
EXTENDS Integers, Sequences, FiniteSets

CONSTANTS
  Node,          \* all nodes, positive numbers
  InitView,      \* the members of the view in force initially
  Proposer,      \* the nodes whose heartbeater or join handler acts
  CallOrder,     \* pairs <<a, b>>: the view vectors list a before b
  LastInstance,  \* bound: no proposal is started for a later instance
  MaxN,          \* bound: on the counter of a proposal number
  MaxFaults      \* bound: crashes, failed binds and timed-out calls

ASSUME NodeAssumption ==
  /\ Node \subseteq Nat \ {0}
  /\ IsFiniteSet(Node)
  /\ InitView \subseteq Node
  /\ InitView # {}
  /\ Proposer \subseteq Node
  /\ CallOrder \subseteq Node \X Node

ASSUME BoundAssumption ==
  /\ LastInstance \in Nat \ {0}
  /\ MaxN \in Nat
  /\ MaxFaults \in Nat

VARIABLES
  n_h, n_a, v_a, instance_h, values,  \* class acceptor
  plog,                               \* the file paxos-<me>.log
  myvid, mems,                        \* class config
  upcalls,    \* threads between commit_wo's unlock and config::paxos_commit
  proposal,   \* the arguments of a thread about to enter proposer::run
  my_n, phase,                        \* class proposer; stable is phase = "idle"
  instance, cur_nodes, newv,          \* the arguments of run()
  todo, accepts, v, highest_seen,     \* locals of run() and of its phases
  call, reply,                        \* the RPC run() is waiting for
  reqs,                               \* requests sent and not yet handled
  faults

acceptorVars == <<n_h, n_a, v_a, instance_h, values, plog>>
configVars   == <<myvid, mems, upcalls, proposal>>
runVars      == <<instance, cur_nodes, newv, todo, accepts, v, highest_seen>>
vars == <<acceptorVars, configVars, my_n, phase, runVars, call, reply, reqs, faults>>

-----------------------------------------------------------------------------
(* Proposal numbers, views, messages, log records *)

Views   == SUBSET Node
NoView  == {}
Instances == 1 .. LastInstance

prop_t == [n : Nat, m : Nat]
Prop(n, m) == [n |-> n, m |-> m]
NoProp == Prop(0, 0)

Gt(a, b) == a.n > b.n \/ (a.n = b.n /\ a.m > b.m)
Ge(a, b) == a.n > b.n \/ (a.n = b.n /\ a.m >= b.m)

\* check if the servers in l2 contain a majority of the servers in l1
majority_half(l1, l2) == Cardinality(l1 \cap l2) >= Cardinality(l1) \div 2
majority(l1, l2) == Cardinality(l1 \cap l2) >= (Cardinality(l1) \div 2) + 1

Request == [type : {"prepare", "accept", "decide"}, src : Node, dst : Node,
            instance : Instances, n : prop_t, v : Views]
NoCall  == [type |-> "none"]

Response == [type : {"oldinstance", "accept", "reject"}, n_a : prop_t, v_a : Views]
NoReply  == [type |-> "none"]

Arguments  == [instance : Instances, cur_nodes : Views, newv : Views \ {NoView}]
NoProposal == [instance |-> 0]

PropSeen(n)      == [type |-> "propseen", n |-> n]
Accepted(n, val) == [type |-> "accepted", n |-> n, v |-> val]
Done(i, val)     == [type |-> "done", instance |-> i, v |-> val]
LogRecord == [type : {"propseen"}, n : prop_t]
               \cup [type : {"accepted"}, n : prop_t, v : Views]
               \cup [type : {"done"}, instance : Instances, v : Views]

-----------------------------------------------------------------------------
(* log.cc: appending to the file, and what logread() rebuilds from it *)

loginstance(l, i, val) == Append(l, Done(i, val))
logprop_missing(l, n) == l
logprop(l, n) == Append(l, PropSeen(n))
logaccept(l, n, val) == Append(l, Accepted(n, val))

\* The last record of a kind, 0 if there is none.
LastRecord(l, kind) ==
  LET I == {i \in DOMAIN l : l[i].type = kind}
  IN  IF I = {} THEN 0 ELSE CHOOSE i \in I : \A j \in I : j <= i

\* A "done" record clears v_a and the counters n_h.n and n_a.n, but leaves
\* n_h.m and n_a.m as the last propseen or accepted record set them.
ReadProp_keeps(l, kind, me) ==
  LET k == LastRecord(l, kind) IN IF k = 0 THEN Prop(0, me) ELSE l[k].n
ReadProp(l, kind, me) ==
  LET d == LastRecord(l, "done")
      k == LastRecord(l, kind)
  IN  IF k > d THEN l[k].n
      ELSE Prop(0, IF k = 0 THEN me ELSE l[k].n.m)

ReadV_a(l) ==
  LET d == LastRecord(l, "done")
      k == LastRecord(l, "accepted")
  IN  IF k > d THEN l[k].v ELSE NoView

ReadInstance_h(l) ==
  LET d == LastRecord(l, "done") IN IF d = 0 THEN 0 ELSE l[d].instance

\* values[i]: the last "done" record of instance i.
ReadValue(l, i) ==
  LET D == {k \in DOMAIN l : l[k].type = "done" /\ l[k].instance = i}
  IN  IF D = {} THEN NoView ELSE l[CHOOSE k \in D : \A j \in D : j <= k].v

\* config::reconstruct: the view in force after logread.
reconstruct_skipped(l) == 0
reconstruct(l) == ReadInstance_h(l)

-----------------------------------------------------------------------------
(* Initial state: every node has committed instance 1 and is up. *)

Init ==
  /\ n_h = [a \in Node |-> Prop(0, a)]
  /\ n_a = [a \in Node |-> Prop(0, a)]
  /\ v_a = [a \in Node |-> NoView]
  /\ instance_h = [a \in Node |-> 1]
  /\ values = [a \in Node |-> [i \in Instances |-> IF i = 1 THEN InitView ELSE NoView]]
  /\ plog = [a \in Node |-> <<Done(1, InitView)>>]
  /\ myvid = [a \in Node |-> 1]
  /\ mems = [a \in Node |-> InitView]
  /\ upcalls = [a \in Node |-> {}]
  /\ proposal = [p \in Node |-> NoProposal]
  /\ my_n = [p \in Node |-> Prop(0, p)]
  /\ phase = [p \in Node |-> "idle"]
  /\ instance = [p \in Node |-> 0]
  /\ cur_nodes = [p \in Node |-> {}]
  /\ newv = [p \in Node |-> NoView]
  /\ todo = [p \in Node |-> {}]
  /\ accepts = [p \in Node |-> {}]
  /\ v = [p \in Node |-> NoView]
  /\ highest_seen = [p \in Node |-> NoProp]
  /\ call = [p \in Node |-> NoCall]
  /\ reply = [p \in Node |-> NoReply]
  /\ reqs = {}
  /\ faults = 0

-----------------------------------------------------------------------------
(* The acceptor's RPC handlers; each runs under the acceptor's pxs_mutex. *)

\* The answer reaches the caller only if it still waits for this call.
Respond(m, r) ==
  reply' = IF call[m.src] = m THEN [reply EXCEPT ![m.src] = r] ELSE reply

\* acceptor::commit_wo.  The upcall into config runs after the mutex is
\* released, on the same thread: it is left in upcalls together with the
\* request it is made for.
commit_wo(a, i, val, req) ==
  /\ values' = [values EXCEPT ![a][i] = val]
  /\ plog' = [plog EXCEPT ![a] = loginstance(@, i, val)]
  /\ instance_h' = [instance_h EXCEPT ![a] = i]
  /\ n_h' = [n_h EXCEPT ![a] = Prop(0, a)]
  /\ n_a' = [n_a EXCEPT ![a] = Prop(0, a)]
  /\ v_a' = [v_a EXCEPT ![a] = NoView]
  /\ upcalls' = [upcalls EXCEPT ![a] = @ \cup {[instance |-> i, v |-> val, req |-> req]}]

\* The process of node a ends, by exit() or a failed VERIFY, and is started
\* again: the proposer is new, the acceptor is what logread() finds, config
\* reconstructs its view.  Requests on connections to the old process are lost.
RestartFrom(a) ==
  /\ n_h' = [n_h EXCEPT ![a] = ReadProp(plog[a], "propseen", a)]
  /\ n_a' = [n_a EXCEPT ![a] = ReadProp(plog[a], "accepted", a)]
  /\ v_a' = [v_a EXCEPT ![a] = ReadV_a(plog[a])]
  /\ instance_h' = [instance_h EXCEPT ![a] = ReadInstance_h(plog[a])]
  /\ values' = [values EXCEPT ![a] = [i \in Instances |-> ReadValue(plog[a], i)]]
  /\ myvid' = [myvid EXCEPT ![a] = reconstruct(plog[a])]
  /\ mems' = [mems EXCEPT ![a] = ReadValue(plog[a], reconstruct(plog[a]))]
  /\ upcalls' = [upcalls EXCEPT ![a] = {}]
  /\ proposal' = [proposal EXCEPT ![a] = NoProposal]
  /\ my_n' = [my_n EXCEPT ![a] = Prop(0, a)]
  /\ phase' = [phase EXCEPT ![a] = "idle"]
  /\ instance' = [instance EXCEPT ![a] = 0]
  /\ cur_nodes' = [cur_nodes EXCEPT ![a] = {}]
  /\ newv' = [newv EXCEPT ![a] = NoView]
  /\ todo' = [todo EXCEPT ![a] = {}]
  /\ accepts' = [accepts EXCEPT ![a] = {}]
  /\ v' = [v EXCEPT ![a] = NoView]
  /\ highest_seen' = [highest_seen EXCEPT ![a] = NoProp]
  /\ call' = [call EXCEPT ![a] = NoCall]
  /\ reply' = [reply EXCEPT ![a] = NoReply]
  /\ reqs' = {m \in reqs : m.dst # a}
  /\ UNCHANGED plog

preparereq(m) ==
  /\ m \in reqs /\ m.type = "prepare"
  /\ reqs' = reqs \ {m}
  /\ LET a == m.dst IN
     \/ /\ instance_h[a] >= m.instance
        /\ Respond(m, [type |-> "oldinstance", n_a |-> NoProp, v_a |-> values[a][m.instance]])
        /\ UNCHANGED <<n_h, plog>>
     \/ /\ instance_h[a] < m.instance
        /\ Gt(m.n, n_h[a])
        /\ n_h' = [n_h EXCEPT ![a] = m.n]
        /\ plog' = [plog EXCEPT ![a] = logprop(@, m.n)]
        /\ Respond(m, [type |-> "accept", n_a |-> n_a[a], v_a |-> v_a[a]])
     \/ /\ instance_h[a] < m.instance
        /\ ~ Gt(m.n, n_h[a])
        /\ Respond(m, [type |-> "reject", n_a |-> NoProp, v_a |-> NoView])
        /\ UNCHANGED <<n_h, plog>>
  /\ UNCHANGED <<n_a, v_a, instance_h, values, configVars, my_n, phase, runVars, call, faults>>

acceptreq(m) ==
  /\ m \in reqs /\ m.type = "accept"
  /\ reqs' = reqs \ {m}
  /\ LET a == m.dst IN
     \/ /\ Ge(m.n, n_h[a])
        /\ n_a' = [n_a EXCEPT ![a] = m.n]
        /\ v_a' = [v_a EXCEPT ![a] = m.v]
        /\ plog' = [plog EXCEPT ![a] = logaccept(@, m.n, m.v)]
        /\ Respond(m, [type |-> "accept", n_a |-> NoProp, v_a |-> NoView])
     \/ /\ ~ Ge(m.n, n_h[a])
        /\ Respond(m, [type |-> "reject", n_a |-> NoProp, v_a |-> NoView])
        /\ UNCHANGED <<n_a, v_a, plog>>
  /\ UNCHANGED <<n_h, instance_h, values, configVars, my_n, phase, runVars, call, faults>>

\* decidereq commits, ignores an old decision, or fails one of its VERIFYs.
decidereq(m) ==
  /\ m \in reqs /\ m.type = "decide"
  /\ LET a == m.dst IN
     \/ /\ m.instance = instance_h[a] + 1
        /\ v_a[a] = m.v
        /\ commit_wo(a, m.instance, v_a[a], m)
        /\ reqs' = reqs \ {m}
        /\ UNCHANGED <<myvid, mems, proposal, my_n, phase, runVars, call, reply>>
     \/ /\ m.instance <= instance_h[a]
        /\ Respond(m, [type |-> "accept", n_a |-> NoProp, v_a |-> NoView])
        /\ reqs' = reqs \ {m}
        /\ UNCHANGED <<acceptorVars, configVars, my_n, phase, runVars, call>>
     \/ /\ \/ m.instance = instance_h[a] + 1 /\ v_a[a] # m.v
           \/ m.instance > instance_h[a] + 1
        /\ RestartFrom(a)
  /\ UNCHANGED faults

Crash(a) ==
  /\ faults < MaxFaults
  /\ faults' = faults + 1
  /\ RestartFrom(a)

-----------------------------------------------------------------------------
(* config: committed views arrive; heartbeater and join start proposals. *)

\* run() returns: its locals are gone.
ReturnFromRun(p) ==
  /\ phase' = [phase EXCEPT ![p] = "idle"]
  /\ instance' = [instance EXCEPT ![p] = 0]
  /\ cur_nodes' = [cur_nodes EXCEPT ![p] = {}]
  /\ newv' = [newv EXCEPT ![p] = NoView]
  /\ todo' = [todo EXCEPT ![p] = {}]
  /\ accepts' = [accepts EXCEPT ![p] = {}]
  /\ v' = [v EXCEPT ![p] = NoView]
  /\ highest_seen' = [highest_seen EXCEPT ![p] = NoProp]

\* config::paxos_commit, then the return of the thread that made the upcall:
\* decidereq answers its caller; the proposer that learnt of an old instance
\* gives up its run.
paxos_commit(a, u) ==
  /\ u \in upcalls[a]
  /\ upcalls' = [upcalls EXCEPT ![a] = @ \ {u}]
  /\ mems' = [mems EXCEPT ![a] = u.v]
  /\ myvid' = [myvid EXCEPT ![a] = u.instance]
  /\ \/ /\ u.req.type = "decide"
        /\ Respond(u.req, [type |-> "accept", n_a |-> NoProp, v_a |-> NoView])
        /\ UNCHANGED <<phase, runVars, call>>
     \/ /\ u.req.type = "prepare"
        /\ ReturnFromRun(a)
        /\ call' = [call EXCEPT ![a] = NoCall]
        /\ reply' = [reply EXCEPT ![a] = NoReply]
  /\ UNCHANGED <<acceptorVars, proposal, my_n, reqs, faults>>

\* The nodes heartbeater pings: the smallest member pings all the others,
\* the others ping the smallest.
Pinged(p) ==
  LET M == mems[p] IN
  {m \in M \ {p} : (\A k \in M : p <= k) \/ (\A k \in M : m <= k)}

\* proposer::setn: the counter after the highest this node has seen or used.
setn(p) == IF n_h[p].n > my_n[p].n THEN n_h[p].n + 1 ELSE my_n[p].n + 1

\* config::add and remove_wo fix the arguments of run() under cfg_mutex and
\* call it after they have released it.
Propose(p, view) ==
  /\ proposal[p] = NoProposal
  /\ p \in Proposer \cap mems[p]
  /\ myvid[p] + 1 <= LastInstance
  /\ setn(p) <= MaxN
  /\ proposal' = [proposal EXCEPT ![p] =
                   [instance |-> myvid[p] + 1, cur_nodes |-> mems[p], newv |-> view]]
  /\ UNCHANGED <<acceptorVars, myvid, mems, upcalls, my_n, phase, runVars, call, reply,
                 reqs, faults>>

remove_wo(p, m) == m \in Pinged(p) /\ Propose(p, mems[p] \ {m})

add(p, m) == m \notin mems[p] /\ Propose(p, mems[p] \cup {m})

\* proposer::run is entered: it starts, or finds another run under way.
run(p) ==
  /\ proposal[p] # NoProposal
  /\ proposal' = [proposal EXCEPT ![p] = NoProposal]
  /\ \/ /\ phase[p] = "idle"
        /\ setn(p) <= MaxN
        /\ my_n' = [my_n EXCEPT ![p] = Prop(setn(p), p)]
        /\ phase' = [phase EXCEPT ![p] = "prepare"]
        /\ instance' = [instance EXCEPT ![p] = proposal[p].instance]
        /\ cur_nodes' = [cur_nodes EXCEPT ![p] = proposal[p].cur_nodes]
        /\ newv' = [newv EXCEPT ![p] = proposal[p].newv]
        /\ todo' = [todo EXCEPT ![p] = proposal[p].cur_nodes]
        /\ accepts' = [accepts EXCEPT ![p] = {}]
        /\ v' = [v EXCEPT ![p] = NoView]
        /\ highest_seen' = [highest_seen EXCEPT ![p] = NoProp]
     \/ /\ phase[p] # "idle"
        /\ UNCHANGED <<my_n, phase, runVars>>
  /\ UNCHANGED <<acceptorVars, myvid, mems, upcalls, call, reply, reqs, faults>>

-----------------------------------------------------------------------------
(* proposer::run: the three phases, one RPC at a time.  pxs_mutex is       *)
(* released during each RPC, stable keeps other runs out.                  *)

\* The next RPC of the current phase: sent, or skipped when bind fails.
CallNext(p, a) ==
  /\ phase[p] # "idle" /\ call[p] = NoCall /\ a \in todo[p]
  /\ \A b \in todo[p] : <<b, a>> \notin CallOrder
  /\ todo' = [todo EXCEPT ![p] = @ \ {a}]
  /\ LET m == [type |-> phase[p], src |-> p, dst |-> a, instance |-> instance[p],
               n |-> IF phase[p] = "decide" THEN NoProp ELSE my_n[p],
               v |-> IF phase[p] = "prepare" THEN NoView ELSE v[p]]
     IN  \/ /\ call' = [call EXCEPT ![p] = m]
            /\ reqs' = reqs \cup {m}
            /\ UNCHANGED faults
         \/ /\ faults < MaxFaults
            /\ faults' = faults + 1
            /\ UNCHANGED <<call, reqs>>
  /\ UNCHANGED <<acceptorVars, configVars, my_n, phase, instance, cur_nodes, newv,
                 accepts, v, highest_seen, reply>>

\* The process that was to answer p's call is gone.
Lost(p) == /\ call[p] \notin reqs /\ reply[p] = NoReply
           /\ \A a \in Node : \A u \in upcalls[a] : u.req # call[p]

\* The call times out (rpcc::to(1000)); the request may still arrive.  While
\* the proposer makes its own upcall there is no call to time out.
TimeOut(p) ==
  /\ call[p] # NoCall
  /\ \A u \in upcalls[p] : u.req # call[p] \/ u.req.type = "decide"
  /\ IF Lost(p) THEN UNCHANGED faults
     ELSE faults < MaxFaults /\ faults' = faults + 1
  /\ call' = [call EXCEPT ![p] = NoCall]
  /\ reply' = [reply EXCEPT ![p] = NoReply]
  /\ UNCHANGED <<acceptorVars, configVars, my_n, phase, runVars, reqs>>

\* proposer::prepare handles a response.
PrepareReply(p) ==
  /\ phase[p] = "prepare" /\ reply[p] # NoReply
  /\ reply' = [reply EXCEPT ![p] = NoReply]
  /\ LET r == reply[p] IN
     \/ /\ r.type = "oldinstance" /\ instance[p] > instance_h[p]
        /\ commit_wo(p, instance[p], r.v_a, call[p])
        /\ UNCHANGED <<phase, runVars, call>>
     \/ /\ r.type = "oldinstance" /\ instance[p] <= instance_h[p]
        /\ ReturnFromRun(p)
        /\ call' = [call EXCEPT ![p] = NoCall]
        /\ UNCHANGED <<acceptorVars, upcalls>>
     \/ /\ r.type = "accept"
        /\ accepts' = [accepts EXCEPT ![p] = @ \cup {call[p].dst}]
        /\ highest_seen' = [highest_seen EXCEPT ![p] = IF Gt(r.n_a, @) THEN r.n_a ELSE @]
        /\ v' = [v EXCEPT ![p] = IF Gt(r.n_a, highest_seen[p]) THEN r.v_a ELSE @]
        /\ call' = [call EXCEPT ![p] = NoCall]
        /\ UNCHANGED <<acceptorVars, upcalls, phase, instance, cur_nodes, newv, todo>>
     \/ /\ r.type = "reject"
        /\ call' = [call EXCEPT ![p] = NoCall]
        /\ UNCHANGED <<acceptorVars, upcalls, phase, runVars>>
  /\ UNCHANGED <<myvid, mems, proposal, my_n, reqs, faults>>

\* The value of the highest accepted proposal reported, else run's own.
ValueToPropose_own(p) == newv[p]
ValueToPropose_none(p) == v[p]
ValueToPropose(p) == IF v[p] = NoView THEN newv[p] ELSE v[p]

\* After the prepare loop: a majority moves on to accept, to the nodes
\* that promised; otherwise run() fails.
EndPrepare(p) ==
  /\ phase[p] = "prepare" /\ call[p] = NoCall /\ todo[p] = {}
  /\ \/ /\ majority(cur_nodes[p], accepts[p])
        /\ phase' = [phase EXCEPT ![p] = "accept"]
        /\ v' = [v EXCEPT ![p] = ValueToPropose(p)]
        /\ todo' = [todo EXCEPT ![p] = accepts[p]]
        /\ accepts' = [accepts EXCEPT ![p] = {}]
        /\ newv' = [newv EXCEPT ![p] = NoView]
        /\ highest_seen' = [highest_seen EXCEPT ![p] = NoProp]
        /\ UNCHANGED <<instance, cur_nodes>>
     \/ /\ ~ majority(cur_nodes[p], accepts[p])
        /\ ReturnFromRun(p)
  /\ UNCHANGED <<acceptorVars, configVars, my_n, call, reply, reqs, faults>>

\* proposer::accept handles a response.
AcceptReply(p) ==
  /\ phase[p] = "accept" /\ reply[p] # NoReply
  /\ reply' = [reply EXCEPT ![p] = NoReply]
  /\ call' = [call EXCEPT ![p] = NoCall]
  /\ accepts' = [accepts EXCEPT ![p] = IF reply[p].type = "accept"
                                       THEN @ \cup {call[p].dst} ELSE @]
  /\ UNCHANGED <<acceptorVars, configVars, my_n, phase, instance, cur_nodes, newv,
                 todo, v, highest_seen, reqs, faults>>

EndAccept(p) ==
  /\ phase[p] = "accept" /\ call[p] = NoCall /\ todo[p] = {}
  /\ \/ /\ majority(cur_nodes[p], accepts[p])
        /\ phase' = [phase EXCEPT ![p] = "decide"]
        /\ todo' = [todo EXCEPT ![p] = accepts[p]]
        /\ UNCHANGED <<instance, cur_nodes, newv, accepts, v, highest_seen>>
     \/ /\ ~ majority(cur_nodes[p], accepts[p])
        /\ ReturnFromRun(p)
  /\ UNCHANGED <<acceptorVars, configVars, my_n, call, reply, reqs, faults>>

\* proposer::decide ignores what its calls return.
DecideReply(p) ==
  /\ phase[p] = "decide" /\ reply[p] # NoReply
  /\ reply' = [reply EXCEPT ![p] = NoReply]
  /\ call' = [call EXCEPT ![p] = NoCall]
  /\ UNCHANGED <<acceptorVars, configVars, my_n, phase, runVars, reqs, faults>>

EndDecide(p) ==
  /\ phase[p] = "decide" /\ call[p] = NoCall /\ todo[p] = {}
  /\ ReturnFromRun(p)
  /\ UNCHANGED <<acceptorVars, configVars, my_n, call, reply, reqs, faults>>

-----------------------------------------------------------------------------
ProposerStep(p) ==
  \/ run(p)
  \/ \E a \in Node : CallNext(p, a)
  \/ TimeOut(p)
  \/ PrepareReply(p) \/ EndPrepare(p)
  \/ AcceptReply(p) \/ EndAccept(p)
  \/ DecideReply(p) \/ EndDecide(p)

ConfigStep(p) ==
  \/ \E u \in upcalls[p] : paxos_commit(p, u)
  \/ \E m \in Node : remove_wo(p, m) \/ add(p, m)

Next ==
  \/ \E m \in reqs : preparereq(m) \/ acceptreq(m) \/ decidereq(m)
  \/ \E p \in Node : ProposerStep(p) \/ ConfigStep(p) \/ Crash(p)

Spec == Init /\ [][Next]_vars

-----------------------------------------------------------------------------
(* Properties *)

\* Types; and the view a run proposes is never the empty one.
TypeOK ==
  /\ n_h \in [Node -> prop_t] /\ n_a \in [Node -> prop_t]
  /\ v_a \in [Node -> Views]
  /\ instance_h \in [Node -> Instances \cup {0}]
  /\ values \in [Node -> [Instances -> Views]]
  /\ plog \in [Node -> Seq(LogRecord)]
  /\ myvid \in [Node -> Instances \cup {0}] /\ mems \in [Node -> Views]
  /\ upcalls \in [Node -> SUBSET [instance : Instances, v : Views, req : Request]]
  /\ proposal \in [Node -> Arguments \cup {NoProposal}]
  /\ my_n \in [Node -> prop_t]
  /\ phase \in [Node -> {"idle", "prepare", "accept", "decide"}]
  /\ instance \in [Node -> Instances \cup {0}]
  /\ cur_nodes \in [Node -> Views] /\ newv \in [Node -> Views]
  /\ todo \in [Node -> Views] /\ accepts \in [Node -> Views]
  /\ v \in [Node -> Views] /\ highest_seen \in [Node -> prop_t]
  /\ call \in [Node -> Request \cup {NoCall}]
  /\ reply \in [Node -> Response \cup {NoReply}]
  /\ reqs \subseteq Request
  /\ faults \in Nat
  /\ \A p \in Node : /\ phase[p] = "prepare" => newv[p] # NoView
                     /\ phase[p] \in {"accept", "decide"} => v[p] # NoView

\* A majority of the view V, by counting.
IsMajority(Q, V) == 2 * Cardinality(Q \cap V) > Cardinality(V)

\* Proposal numbers equal up to the name that goes with the counter 0.
SameProp(x, y) == x.n = y.n /\ (x.n > 0 => x.m = y.m)

\* Whenever a node crashes, what logread() rebuilds from the file is the
\* acceptor's state at the crash: no promise, vote or view is forgotten.
ReplayMatches ==
  \A a \in Node :
    /\ SameProp(ReadProp(plog[a], "propseen", a), n_h[a])
    /\ SameProp(ReadProp(plog[a], "accepted", a), n_a[a])
    /\ ReadV_a(plog[a]) = v_a[a]
    /\ ReadInstance_h(plog[a]) = instance_h[a]
    /\ \A i \in Instances : ReadValue(plog[a], i) = values[a][i]

AcceptedRecords ==
  UNION {{plog[a][k] : k \in {j \in DOMAIN plog[a] : plog[a][j].type = "accepted"}} : a \in Node}

\* a accepted proposal n with value val, at some time.
EverAccepted(a, n, val) ==
  \E k \in DOMAIN plog[a] : plog[a][k] = Accepted(n, val)

\* a accepted it while instance 2 was still open at a.
Voted(a, n, val) ==
  \E k \in DOMAIN plog[a] :
    /\ plog[a][k] = Accepted(n, val)
    /\ \A j \in 1 .. (k - 1) : plog[a][j].type = "done" => plog[a][j].instance = 1

Chosen(n, val) == IsMajority({a \in Node : Voted(a, n, val)}, InitView)

\* At most one view collects, under any proposal numbers, the votes of a
\* majority of the acceptors that have not committed instance 2 yet.
VoteAgreement ==
  \A x, y \in AcceptedRecords : Chosen(x.n, x.v) /\ Chosen(y.n, y.v) => x.v = y.v

\* Nodes never commit different views in the same instance: the views are
\* totally ordered.
Agreement ==
  \A a, b \in Node, i \in Instances :
    values[a][i] # NoView /\ values[b][i] # NoView => values[a][i] = values[b][i]

\* An acceptor took an acceptreq after it had committed instance 2.
LateAccept ==
  \E a \in Node : \E k \in DOMAIN plog[a], j \in DOMAIN plog[a] :
    /\ j < k /\ plog[a][k].type = "accepted"
    /\ plog[a][j].type = "done" /\ plog[a][j].instance # 1

\* The VERIFY(v_a == a.v) of decidereq holds: whatever is decided is still the
\* last vote of every acceptor it is sent to.
DecidedIsLastVote ==
  \A m \in reqs : m.type = "decide" /\ m.instance = instance_h[m.dst] + 1
                     => v_a[m.dst] = m.v

\* In instance 2, the first one that is run, agreement can only be lost, and
\* that VERIFY can only fail, through an acceptreq that arrives after its
\* acceptor's commit.
AgreementUnlessLate == LateAccept \/ (Agreement /\ DecidedIsLastVote)

\* A majority of the members of a previous view accepted a committed view
\* under one proposal number.
MajorityBehindView ==
  \A a \in Node, i \in Instances \ {1} :
    values[a][i] # NoView =>
      \E p \in Node, x \in AcceptedRecords :
        /\ values[p][i - 1] # NoView
        /\ x.v = values[a][i]
        /\ IsMajority({b \in Node : EverAccepted(b, x.n, x.v)}, values[p][i - 1])

\* When no upcall is under way, config's current view is the last one its
\* acceptor committed.
ConfigFollowsPaxos ==
  \A a \in Node : upcalls[a] = {} =>
    /\ myvid[a] = instance_h[a]
    /\ mems[a] = values[a][instance_h[a]]

\* Config's view is always one its acceptor committed, numbered as Paxos
\* numbers it, and config has one as soon as an upcall has run or the node
\* was restarted (paxos_commit, reconstruct).
ConfigViewIsCommitted ==
  \A a \in Node :
    /\ myvid[a] > 0 => mems[a] = values[a][myvid[a]]
    /\ upcalls[a] = {} /\ instance_h[a] > 0 => myvid[a] > 0

\* No step, restarts included, takes back a promise, an instance or a view.
NothingTakenBack ==
  [][\A a \in Node :
       /\ instance_h'[a] >= instance_h[a]
       /\ instance_h'[a] = instance_h[a] /\ n_h[a].n > 0 => Ge(n_h'[a], n_h[a])
       /\ \A i \in Instances : values[a][i] # NoView => values'[a][i] = values[a][i]]_vars
=============================================================================
