-------------------------- MODULE PaxosVoteProofs --------------------------
(***************************************************************************)
(* In the contested instance at most one view is ever chosen, for every    *)
(* set of nodes and proposers, and any number of proposals and faults.     *)
(***************************************************************************)
EXTENDS PaxosViewProofs

-----------------------------------------------------------------------------
(* Numbers and majorities *)

\* operator> and operator>= of prop_t order the numbers totally.
LEMMA Order ==
  ASSUME NEW x \in prop_t, NEW y \in prop_t, NEW z \in prop_t
  PROVE  /\ Ge(x, y) /\ Ge(y, z) => Ge(x, z)
         /\ Ge(x, y) /\ Gt(y, z) => Gt(x, z)
         /\ Gt(x, y) /\ Ge(y, z) => Gt(x, z)
         /\ Gt(x, y) => ~ Ge(y, x)
         /\ Gt(x, y) => Ge(x, y) /\ x # y
         /\ Gt(x, y) \/ Gt(y, x) \/ x = y
         /\ Ge(x, x)
         /\ Ge(x, y) /\ y.n > 0 => x.n > 0
         /\ Ge(x, y) => x = y \/ Gt(x, y)
BY DEF prop_t, Gt, Ge

\* Of two numbers, one is the higher.
LEMMA OrderIsTotal ==
  \A x, y \in prop_t : Ge(x, x) /\ (Gt(x, y) => Ge(x, y)) /\ (~ Gt(x, y) => Ge(y, x))
BY DEF prop_t, Gt, Ge

\* Two majorities of a view have a member in common.
LEMMA MajoritiesMeet ==
  ASSUME NEW V \in Views, NEW Q, NEW R, IsMajority(Q, V), IsMajority(R, V)
  PROVE  \E a \in V : a \in Q /\ a \in R
<1> DEFINE S == Q \cap V
           T == R \cap V
<1>1. S \in Views /\ T \in Views /\ S \cup T \in SUBSET V
  BY Zenon DEF Views
<1>2. /\ IsFiniteSet(S) /\ IsFiniteSet(T) /\ IsFiniteSet(V)
      /\ Cardinality(S) \in Nat /\ Cardinality(T) \in Nat /\ Cardinality(V) \in Nat
  BY <1>1, ViewsAreFinite, Zenon
<1>3. Cardinality(S \cup T) <= Cardinality(V)
  BY <1>1, <1>2, FS_Subset, Zenon
<1>4. Cardinality(S \cup T) = Cardinality(S) + Cardinality(T) - Cardinality(S \cap T)
  BY <1>2, FS_Union, Zenon
<1>5. 2 * Cardinality(S) > Cardinality(V) /\ 2 * Cardinality(T) > Cardinality(V)
  BY Zenon DEF IsMajority
<1>6. S \cap T # {}
  <2> SUFFICES ASSUME S \cap T = {} PROVE FALSE
    OBVIOUS
  <2>1. Cardinality(S \cap T) = 0
    BY FS_EmptySet, Zenon
  <2> HIDE DEF S, T
  <2> QED BY <1>2, <1>3, <1>4, <1>5, <2>1
<1> QED BY <1>6, Zenon

-----------------------------------------------------------------------------
(* The inductive invariant *)

\* The numbers that setn hands out.
Props == {k \in prop_t : k.n > 0}

\* Instance 2 is open at acceptor a: a has not committed it.
Open(a) == instance_h[a] = 1

\* a promised n, at some time.
Promised(a, n) == \E k \in DOMAIN plog[a] : plog[a][k] = PropSeen(n)

\* No instance but the first is done in a's log.
FirstOnly(a) == \A k \in DOMAIN plog[a] : plog[a][k].type = "done" => plog[a][k].instance = 1

\* While instance 2 is open at a, its promises and votes bound what it may
\* still vote for, and its last vote is what preparereq reports.
AcceptorOf(a) ==
  /\ instance_h[a] >= 1 /\ values[a][1] = InitView
  /\ Open(a) <=> FirstOnly(a)
  /\ Open(a) =>
       /\ \A k \in Props : Promised(a, k) => Ge(n_h[a], k)
       /\ \A k \in Props, w \in Views : Voted(a, k, w) => Ge(n_a[a], k) /\ Ge(n_h[a], k)
       /\ IF n_a[a].n > 0 THEN Voted(a, n_a[a], v_a[a]) ELSE v_a[a] = NoView

\* a promised n, and none of its earlier votes is above h.
Told(a, n, h) ==
  /\ Promised(a, n)
  /\ \A k \in Props, w \in Views : Voted(a, k, w) /\ Gt(n, k) => Ge(h, k)

\* The pair h, w a proposer with number n was told of is a vote, or none.
Learnt(n, h, w) ==
  IF h.n > 0 THEN Gt(n, h) /\ \E b \in Node : Voted(b, h, w) ELSE w = NoView

\* A promise waits for p to count it.
Answer(p) == reply[p] # NoReply /\ reply[p].type = "accept"

PrepareOf(p) ==
  phase[p] = "prepare" =>
    /\ \A a \in accepts[p] : Told(a, my_n[p], highest_seen[p])
    /\ Learnt(my_n[p], highest_seen[p], v[p])
    /\ Answer(p) => /\ Told(call[p].dst, my_n[p], reply[p].n_a)
                    /\ Learnt(my_n[p], reply[p].n_a, reply[p].v_a)

\* a accepted w under a number under which a majority did.
Settled(a, w) ==
  \E n \in Props : /\ EverAccepted(a, n, w)
                   /\ IsMajority({b \in Node : EverAccepted(b, n, w)}, InitView)

\* A run is about instance 2, under a number of its own, and asks for votes
\* those that promised and for commits those that voted.
ProposalOf(p) ==
  proposal[p] # NoProposal => proposal[p].instance = 2 /\ proposal[p].cur_nodes = InitView

ProposerOf(p) ==
  /\ phase[p] # "idle" => /\ instance[p] = 2 /\ cur_nodes[p] = InitView
                          /\ my_n[p].n > 0 /\ my_n[p].m = p
  /\ phase[p] = "accept" => \A a \in todo[p] : Promised(a, my_n[p])
  /\ phase[p] = "decide" => \A a \in todo[p] : Settled(a, v[p])

RequestOf(m) ==
  /\ m.type = "accept" => Promised(m.dst, m.n)
  /\ m.type = "decide" => Settled(m.dst, m.v)

\* w is proposed, requested or voted for under the number n.
Issued(n, w) ==
  \/ \E m \in reqs : m.type = "accept" /\ m.n = n /\ m.v = w
  \/ \E a \in Node : Voted(a, n, w)
  \/ \E p \in Node : phase[p] \in {"accept", "decide"} /\ my_n[p] = n /\ v[p] = w

\* a has not voted under the number k, and never will.
WontVote(a, k) ==
  /\ \A w \in Views : ~ Voted(a, k, w)
  /\ Open(a) => Gt(n_h[a], k)

\* Below n, nothing but w was or can be chosen.
SafeAt(n, w) ==
  \A k \in Props : Gt(n, k) =>
    \E Q \in SUBSET Node : /\ IsMajority(Q, InitView)
                           /\ \A a \in Q : Voted(a, k, w) \/ WontVote(a, k)

\* p counts a's promise of the number n towards its majority.
Counts(p, n, a) ==
  /\ phase[p] = "prepare" /\ my_n[p] = n
  /\ a \in accepts[p] \/ (Answer(p) /\ call[p].dst = a)

\* A majority has promised n to a prepare phase that is over.
Spent(n) ==
  \E Q \in SUBSET Node : /\ IsMajority(Q, InitView)
                         /\ \A a \in Q : Promised(a, n) /\ \A p \in Node : ~ Counts(p, n, a)

\* What is issued is safe, and the only view issued under its number.
IssueOf(n, w) ==
  Issued(n, w) => /\ n \in Props /\ w # NoView
                  /\ SafeAt(n, w) /\ Spent(n)
                  /\ \A x \in Views : Issued(n, x) => x = w

BallotInv ==
  /\ \A p \in Node : ProposalOf(p) /\ ProposerOf(p) /\ PrepareOf(p)
  /\ \A m \in reqs : RequestOf(m)
  /\ \A n \in prop_t, w \in Views : IssueOf(n, w)

VoteInv == BackInv /\ ConfigInv /\ BallotInv /\ \A a \in Node : AcceptorOf(a)

-----------------------------------------------------------------------------
(* One more record *)

\* What an appended record does to the votes and promises of a log.
LEMMA VotesOfAppend ==
  ASSUME TypeInv, NEW a \in Node, NEW r \in LogRecord, plog'[a] = Append(plog[a], r)
  PROVE  /\ \A n \in prop_t, w \in Views :
              Voted(a, n, w)' <=> Voted(a, n, w) \/ (r = Accepted(n, w) /\ FirstOnly(a))
         /\ \A n \in prop_t : Promised(a, n)' <=> Promised(a, n) \/ r = PropSeen(n)
         /\ FirstOnly(a)' <=> FirstOnly(a) /\ (r.type = "done" => r.instance = 1)
<1> DEFINE l == plog[a]
           L == plog'[a]
<1>1. /\ DOMAIN l = 1 .. Len(l) /\ DOMAIN L = 1 .. (Len(l) + 1) /\ Len(l) \in Nat
      /\ L[Len(l) + 1] = r
      /\ \A k \in 1 .. Len(l) : L[k] = l[k]
  BY DEF TypeInv, TypeOK
<1>2. \A k \in 1 .. (Len(l) + 1) : k \in 1 .. Len(l) \/ k = Len(l) + 1
  BY <1>1
<1>3. \A k \in 1 .. Len(l) : k \in 1 .. (Len(l) + 1)
  BY <1>1
<1>4. Len(l) + 1 \in 1 .. (Len(l) + 1)
  BY <1>1
<1>5. 1 .. ((Len(l) + 1) - 1) = 1 .. Len(l)
  BY <1>1
<1>6. \A k \in 1 .. Len(l) : \A j \in 1 .. (k - 1) : j \in 1 .. Len(l)
  BY <1>1
<1> HIDE DEF l, L
<1>7. FirstOnly(a)' <=> FirstOnly(a) /\ (r.type = "done" => r.instance = 1)
  BY <1>1, <1>2, <1>3, <1>4, ZenonT(30) DEF FirstOnly, l, L
<1>8. \A n \in prop_t : Promised(a, n)' <=> Promised(a, n) \/ r = PropSeen(n)
  BY <1>1, <1>2, <1>3, <1>4, ZenonT(30) DEF Promised, l, L
<1>9. ASSUME NEW n \in prop_t, NEW w \in Views
      PROVE  Voted(a, n, w)' <=> Voted(a, n, w) \/ (r = Accepted(n, w) /\ FirstOnly(a))
  <2> DEFINE Old(k) == /\ l[k] = Accepted(n, w)
                       /\ \A j \in 1 .. (k - 1) : l[j].type = "done" => l[j].instance = 1
             New(k) == /\ L[k] = Accepted(n, w)
                       /\ \A j \in 1 .. (k - 1) : L[j].type = "done" => L[j].instance = 1
  <2>1. Voted(a, n, w) <=> \E k \in 1 .. Len(l) : Old(k)
    BY <1>1, Zenon DEF Voted, l
  <2>2. Voted(a, n, w)' <=> \E k \in 1 .. (Len(l) + 1) : New(k)
    BY <1>1, Zenon DEF Voted, L
  <2>3. \A k \in 1 .. Len(l) : New(k) <=> Old(k)
    BY <1>1, <1>6, Zenon
  <2>4. New(Len(l) + 1) <=> r = Accepted(n, w) /\ FirstOnly(a)
    BY <1>1, <1>5, Zenon DEF FirstOnly, l
  <2> HIDE DEF Old, New
  <2> QED BY <1>2, <1>3, <1>4, <2>1, <2>2, <2>3, <2>4, Zenon
<1> QED BY <1>7, <1>8, <1>9, Zenon

\* A log that does not change has the same votes and promises.
LEMMA VotesOfSame ==
  ASSUME NEW a \in Node, plog'[a] = plog[a]
  PROVE  /\ \A n \in prop_t, w \in Views : Voted(a, n, w)' <=> Voted(a, n, w)
         /\ \A n \in prop_t : Promised(a, n)' <=> Promised(a, n)
         /\ FirstOnly(a)' <=> FirstOnly(a)
BY Zenon DEF Voted, Promised, FirstOnly

-----------------------------------------------------------------------------
(* What a step does to an acceptor *)

\* Nothing, but for the names that go with the counter 0.
Quiet(a) ==
  /\ SameProp(n_h'[a], n_h[a]) /\ SameProp(n_a'[a], n_a[a])
  /\ v_a'[a] = v_a[a] /\ instance_h'[a] = instance_h[a]
  /\ values'[a] = values[a] /\ plog'[a] = plog[a]

Promises(a, m) ==
  /\ m.dst = a /\ instance_h[a] < m.instance /\ Gt(m.n, n_h[a])
  /\ n_h'[a] = m.n /\ plog'[a] = Append(plog[a], PropSeen(m.n))
  /\ n_a'[a] = n_a[a] /\ v_a'[a] = v_a[a]
  /\ instance_h'[a] = instance_h[a] /\ values'[a] = values[a]

Votes(a, m) ==
  /\ m.type = "accept" /\ m.dst = a /\ Ge(m.n, n_h[a])
  /\ n_a'[a] = m.n /\ v_a'[a] = m.v /\ plog'[a] = Append(plog[a], Accepted(m.n, m.v))
  /\ n_h'[a] = n_h[a] /\ instance_h'[a] = instance_h[a] /\ values'[a] = values[a]

Commits(a, i, w) ==
  /\ i > instance_h[a] /\ instance_h'[a] = i
  /\ plog'[a] = Append(plog[a], Done(i, w))
  /\ values'[a] = [values[a] EXCEPT ![i] = w]

\* A step at one acceptor.
LEMMA AcceptorCases ==
  ASSUME LogInv, [Next]_vars, NEW a \in Node
  PROVE  \/ Quiet(a)
         \/ \E m \in reqs : Promises(a, m) \/ Votes(a, m)
         \/ \E i \in Instances, w \in Views : Commits(a, i, w)
<1>1. AcceptorStep /\ TypeInv
  BY NextIsAcceptorStep, Zenon DEF LogInv
<1>2. ASSUME n_h'[a] = n_h[a], n_a'[a] = n_a[a], v_a'[a] = v_a[a],
             instance_h'[a] = instance_h[a], values'[a] = values[a], plog'[a] = plog[a]
      PROVE  Quiet(a)
  BY <1>2, Zenon DEF Quiet, SameProp
<1>3. CASE UNCHANGED acceptorVars
  BY <1>2, <1>3, Zenon DEF acceptorVars
<1>4. ASSUME NEW b \in Node, NEW n \in prop_t,
             \E m \in reqs : m.dst = b /\ m.n = n /\ instance_h[b] < m.instance,
             Gt(n, n_h[b]),
             n_h' = [n_h EXCEPT ![b] = n],
             plog' = [plog EXCEPT ![b] = logprop(@, n)],
             UNCHANGED <<n_a, v_a, instance_h, values>>
      PROVE  Quiet(a) \/ \E m \in reqs : Promises(a, m)
  <2>1. CASE b # a
    BY <1>1, <1>2, <1>4, <2>1, Zenon DEF TypeInv, TypeOK
  <2>2. CASE b = a
    BY <1>1, <1>4, <2>2, ZenonT(30) DEF TypeInv, TypeOK, Promises, logprop
  <2> QED BY <2>1, <2>2, Zenon
<1>5. ASSUME NEW b \in Node, NEW n \in prop_t, NEW w \in Views,
             \E m \in reqs : m.type = "accept" /\ m.dst = b /\ m.n = n /\ m.v = w,
             Ge(n, n_h[b]),
             n_a' = [n_a EXCEPT ![b] = n],
             v_a' = [v_a EXCEPT ![b] = w],
             plog' = [plog EXCEPT ![b] = logaccept(@, n, w)],
             UNCHANGED <<n_h, instance_h, values>>
      PROVE  Quiet(a) \/ \E m \in reqs : Votes(a, m)
  <2>1. CASE b # a
    BY <1>1, <1>2, <1>5, <2>1, Zenon DEF TypeInv, TypeOK
  <2>2. CASE b = a
    BY <1>1, <1>5, <2>2, ZenonT(30) DEF TypeInv, TypeOK, Votes, logaccept
  <2> QED BY <2>1, <2>2, Zenon
<1>6. ASSUME NEW b \in Node, NEW i \in Instances, NEW w \in Views, NEW req \in Request,
             i > instance_h[b], commit_wo(b, i, w, req)
      PROVE  Quiet(a) \/ Commits(a, i, w)
  <2>1. CASE b # a
    BY <1>1, <1>2, <1>6, <2>1, ZenonT(30) DEF TypeInv, TypeOK, commit_wo
  <2>2. CASE b = a
    BY <1>1, <1>6, <2>2, ZenonT(30) DEF TypeInv, TypeOK, commit_wo, loginstance, Commits
  <2> QED BY <2>1, <2>2, Zenon
<1>7. ASSUME NEW b \in Node, RestartFrom(b) PROVE Quiet(a)
  BY <1>7, LogRestart, Zenon DEF Quiet
<1> QED BY <1>1, <1>3, <1>4, <1>5, <1>6, <1>7, ZenonT(30) DEF AcceptorStep

\* Promises and votes are kept, a new vote answers a request at or above the
\* promise, and while instance 2 stays open the promise only rises.
Grows(a) ==
  /\ \A n \in prop_t : Promised(a, n) => Promised(a, n)'
  /\ \A n \in prop_t, w \in Views : Voted(a, n, w) => Voted(a, n, w)'
  /\ \A n \in prop_t, w \in Views : Voted(a, n, w)' /\ ~ Voted(a, n, w) =>
       /\ Open(a) /\ Ge(n, n_h[a])
       /\ \E m \in reqs : m.type = "accept" /\ m.dst = a /\ m.n = n /\ m.v = w
  /\ Open(a)' => /\ Open(a)
                 /\ \A k \in Props : /\ Ge(n_h[a], k) => Ge(n_h'[a], k)
                                     /\ Gt(n_h[a], k) => Gt(n_h'[a], k)

\* A number above 0 is kept by a restart.
LEMMA SameAbove ==
  ASSUME NEW x \in prop_t, NEW y \in prop_t, SameProp(x, y)
  PROVE  /\ y.n > 0 => x = y
         /\ x.n > 0 <=> y.n > 0
         /\ \A k \in Props : (Ge(y, k) => Ge(x, k)) /\ (Gt(y, k) => Gt(x, k))
BY DEF SameProp, prop_t, Props, Ge, Gt

\* The facts about acceptor a that a step uses.
LEMMA AcceptorTypes ==
  ASSUME VoteInv, LastInstance = 2, NEW a \in Node
  PROVE  /\ TypeInv /\ LogInv
         /\ n_h[a] \in prop_t /\ n_a[a] \in prop_t /\ v_a[a] \in Views
         /\ instance_h[a] \in {1, 2}
         /\ values[a] \in [{1, 2} -> Views] /\ Instances = {1, 2}
         /\ plog[a] \in Seq(LogRecord)
         /\ AcceptorOf(a)
<1>1. TypeInv /\ LogInv /\ AcceptorOf(a)
  BY Zenon DEF VoteInv, BackInv, LogInv
<1>2. Instances = {1, 2}
  BY DEF Instances
<1>3. instance_h[a] \in {1, 2}
  BY <1>1, <1>2 DEF TypeInv, TypeOK, AcceptorOf
<1> QED BY <1>1, <1>2, <1>3, Zenon DEF TypeInv, TypeOK

\* A quiet acceptor keeps what is said of it.
LEMMA GrowsQuiet ==
  ASSUME VoteInv, LastInstance = 2, TypeInv', NEW a \in Node, Quiet(a)
  PROVE  AcceptorOf(a)' /\ Grows(a)
<1>1. /\ TypeInv /\ AcceptorOf(a) /\ n_h[a] \in prop_t /\ n_a[a] \in prop_t /\ v_a[a] \in Views
      /\ n_h'[a] \in prop_t /\ n_a'[a] \in prop_t
  BY AcceptorTypes, Zenon DEF TypeInv, TypeOK
<1>2. /\ v_a'[a] = v_a[a] /\ instance_h'[a] = instance_h[a] /\ values'[a] = values[a]
      /\ plog'[a] = plog[a]
  BY Zenon DEF Quiet
<1>3. /\ \A n \in prop_t, w \in Views : Voted(a, n, w)' <=> Voted(a, n, w)
      /\ \A n \in prop_t : Promised(a, n)' <=> Promised(a, n)
      /\ FirstOnly(a)' <=> FirstOnly(a)
  BY <1>2, VotesOfSame, Zenon
<1>4. /\ n_a[a].n > 0 => n_a'[a] = n_a[a]
      /\ n_a'[a].n > 0 <=> n_a[a].n > 0
      /\ \A k \in Props : Ge(n_a[a], k) => Ge(n_a'[a], k)
  BY <1>1, SameAbove, ZenonT(30) DEF Quiet
<1>5. \A k \in Props : (Ge(n_h[a], k) => Ge(n_h'[a], k)) /\ (Gt(n_h[a], k) => Gt(n_h'[a], k))
  BY <1>1, SameAbove, ZenonT(30) DEF Quiet
<1>6. Open(a)' <=> Open(a)
  BY <1>2, Zenon DEF Open
<1>7. \A k \in Props : k \in prop_t
  BY Zenon DEF Props
<1>8. Grows(a)
  BY <1>3, <1>5, <1>6, Zenon DEF Grows
<1>9. Open(a)' => IF n_a'[a].n > 0 THEN Voted(a, n_a[a], v_a[a])' ELSE v_a'[a] = NoView
  BY <1>1, <1>2, <1>3, <1>4, <1>6, Zenon DEF AcceptorOf
<1>10. Open(a)' => \A k \in Props : Promised(a, k)' => Ge(n_h'[a], k)
  BY <1>1, <1>3, <1>5, <1>6, <1>7, Zenon DEF AcceptorOf
<1>11. Open(a)' => \A k \in Props, w \in Views :
                     Voted(a, k, w)' => Ge(n_a'[a], k) /\ Ge(n_h'[a], k)
  BY <1>1, <1>3, <1>4, <1>5, <1>6, <1>7, Zenon DEF AcceptorOf
<1>12. instance_h'[a] >= 1 /\ values'[a][1] = InitView /\ (Open(a)' <=> FirstOnly(a)')
  BY <1>1, <1>2, <1>3, <1>6, Zenon DEF AcceptorOf
<1> QED BY <1>8, <1>9, <1>10, <1>11, <1>12, Zenon DEF AcceptorOf

\* preparereq promises a number above all before.
LEMMA GrowsPromise ==
  ASSUME VoteInv, LastInstance = 2, NEW a \in Node, NEW m \in reqs, Promises(a, m)
  PROVE  AcceptorOf(a)' /\ Grows(a) /\ Open(a)
<1>1. /\ TypeInv /\ AcceptorOf(a) /\ n_h[a] \in prop_t /\ n_a[a] \in prop_t /\ v_a[a] \in Views
      /\ instance_h[a] \in {1, 2} /\ Instances = {1, 2}
  BY AcceptorTypes, Zenon
<1>2. /\ v_a'[a] = v_a[a] /\ instance_h'[a] = instance_h[a] /\ values'[a] = values[a]
      /\ plog'[a] = Append(plog[a], PropSeen(m.n)) /\ n_h'[a] = m.n /\ n_a'[a] = n_a[a]
      /\ Gt(m.n, n_h[a])
  BY Zenon DEF Promises
<1>3. m.n \in prop_t /\ PropSeen(m.n) \in LogRecord /\ m.instance \in {1, 2}
  BY <1>1, RequestTypes, RecordTypes, Zenon DEF TypeInv, TypeOK
<1>4. Open(a) /\ Open(a)'
  BY <1>1, <1>2, <1>3 DEF Promises, Open
<1>5. /\ \A n \in prop_t, w \in Views : PropSeen(m.n) # Accepted(n, w)
      /\ \A n \in prop_t : PropSeen(m.n) = PropSeen(n) => n = m.n
      /\ PropSeen(m.n).type # "done"
  BY DEF PropSeen, Accepted
<1>6. /\ \A n \in prop_t, w \in Views : Voted(a, n, w)' <=> Voted(a, n, w)
      /\ \A n \in prop_t : Promised(a, n) => Promised(a, n)'
      /\ \A n \in prop_t : Promised(a, n)' => Promised(a, n) \/ n = m.n
      /\ FirstOnly(a)' <=> FirstOnly(a)
  <2>1. /\ \A n \in prop_t, w \in Views :
             Voted(a, n, w)' <=> Voted(a, n, w) \/ (PropSeen(m.n) = Accepted(n, w) /\ FirstOnly(a))
        /\ \A n \in prop_t : Promised(a, n)' <=> Promised(a, n) \/ PropSeen(m.n) = PropSeen(n)
        /\ FirstOnly(a)' <=> FirstOnly(a) /\ (PropSeen(m.n).type = "done" => PropSeen(m.n).instance = 1)
    BY <1>1, <1>2, <1>3, VotesOfAppend, ZenonT(30)
  <2> QED BY <1>3, <1>5, <2>1, ZenonT(30)
<1>7. \A k \in Props : k \in prop_t
  BY Zenon DEF Props
<1>8. /\ Ge(m.n, m.n)
      /\ \A k \in Props : /\ Ge(n_h[a], k) => Ge(m.n, k)
                          /\ Gt(n_h[a], k) => Gt(m.n, k)
  BY <1>1, <1>2, <1>3, <1>7, Order, ZenonT(30)
<1>9. Grows(a)
  BY <1>2, <1>4, <1>6, <1>8, Zenon DEF Grows
<1>10. \A k \in Props : Promised(a, k)' => Ge(n_h'[a], k)
  BY <1>1, <1>2, <1>4, <1>6, <1>7, <1>8, Zenon DEF AcceptorOf
<1>11. \A k \in Props, w \in Views : Voted(a, k, w)' => Ge(n_a'[a], k) /\ Ge(n_h'[a], k)
  BY <1>1, <1>2, <1>4, <1>6, <1>7, <1>8, Zenon DEF AcceptorOf
<1>12. IF n_a'[a].n > 0 THEN Voted(a, n_a[a], v_a[a])' ELSE v_a'[a] = NoView
  BY <1>1, <1>2, <1>4, <1>6, Zenon DEF AcceptorOf
<1>13. instance_h'[a] >= 1 /\ values'[a][1] = InitView /\ FirstOnly(a)'
  BY <1>1, <1>2, <1>4, <1>6, Zenon DEF AcceptorOf
<1> QED BY <1>4, <1>9, <1>10, <1>11, <1>12, <1>13, Zenon DEF AcceptorOf

\* acceptreq votes for the number promised last, if instance 2 is open.
LEMMA GrowsVote ==
  ASSUME VoteInv, LastInstance = 2, NEW a \in Node, NEW m \in reqs, Votes(a, m)
  PROVE  AcceptorOf(a)' /\ Grows(a)
<1>1. /\ TypeInv /\ AcceptorOf(a) /\ n_h[a] \in prop_t /\ n_a[a] \in prop_t /\ v_a[a] \in Views
      /\ RequestOf(m) /\ m \in Request /\ m.type = "accept" /\ m.dst = a
  BY AcceptorTypes, Zenon DEF VoteInv, BallotInv, TypeInv, TypeOK, Votes
<1>2. /\ v_a'[a] = m.v /\ instance_h'[a] = instance_h[a] /\ values'[a] = values[a]
      /\ plog'[a] = Append(plog[a], Accepted(m.n, m.v)) /\ n_h'[a] = n_h[a] /\ n_a'[a] = m.n
      /\ Ge(m.n, n_h[a])
  BY Zenon DEF Votes
<1>3. m.n \in prop_t /\ m.v \in Views /\ Accepted(m.n, m.v) \in LogRecord
  BY <1>1, RequestTypes, RecordTypes, Zenon
<1>4. m.n \in Props /\ m.n.n > 0 /\ Promised(a, m.n)
  BY <1>1, <1>3, Zenon DEF VoteInv, BallotInv, IssueOf, Issued, RequestOf, Props
<1>5. /\ \A n \in prop_t, w \in Views : Accepted(m.n, m.v) = Accepted(n, w) => n = m.n /\ w = m.v
      /\ \A n \in prop_t : Accepted(m.n, m.v) # PropSeen(n)
      /\ Accepted(m.n, m.v).type # "done"
  BY DEF PropSeen, Accepted
<1>6. /\ \A n \in prop_t, w \in Views : Voted(a, n, w) => Voted(a, n, w)'
      /\ \A n \in prop_t, w \in Views :
           Voted(a, n, w)' => Voted(a, n, w) \/ (n = m.n /\ w = m.v /\ FirstOnly(a))
      /\ FirstOnly(a) => Voted(a, m.n, m.v)'
      /\ \A n \in prop_t : Promised(a, n)' <=> Promised(a, n)
      /\ FirstOnly(a)' <=> FirstOnly(a)
  <2>1. /\ \A n \in prop_t, w \in Views :
             Voted(a, n, w)' <=> Voted(a, n, w) \/ (Accepted(m.n, m.v) = Accepted(n, w) /\ FirstOnly(a))
        /\ \A n \in prop_t : Promised(a, n)' <=> Promised(a, n) \/ Accepted(m.n, m.v) = PropSeen(n)
        /\ FirstOnly(a)' <=> FirstOnly(a) /\ (Accepted(m.n, m.v).type = "done" => Accepted(m.n, m.v).instance = 1)
    BY <1>1, <1>2, <1>3, VotesOfAppend, ZenonT(30)
  <2> QED BY <1>3, <1>5, <2>1, ZenonT(30)
<1>7. Open(a)' <=> Open(a)
  BY <1>2, Zenon DEF Open
<1>8. Open(a) <=> FirstOnly(a)
  BY <1>1, Zenon DEF AcceptorOf
<1>9. Grows(a)
  BY <1>1, <1>2, <1>6, <1>7, <1>8, Zenon DEF Grows
<1>10. ASSUME Open(a)
       PROVE  /\ \A k \in Props : Promised(a, k)' => Ge(n_h'[a], k)
              /\ \A k \in Props, w \in Views : Voted(a, k, w)' => Ge(n_a'[a], k) /\ Ge(n_h'[a], k)
              /\ n_a'[a].n > 0 /\ Voted(a, n_a[a], v_a[a])'
  <2>1. \A k \in Props : k \in prop_t /\ (Promised(a, k) => Ge(n_h[a], k))
    BY <1>1, <1>10, Zenon DEF AcceptorOf, Props
  <2>2. Ge(n_h[a], m.n) /\ Ge(m.n, m.n)
    BY <1>3, <1>4, <2>1, Order, Zenon
  <2>3. \A k \in Props : Ge(n_h[a], k) => Ge(m.n, k)
    BY <1>1, <1>2, <1>3, <2>1, Order, Zenon
  <2>4. \A k \in Props, w \in Views : Voted(a, k, w) => Ge(n_h[a], k)
    BY <1>1, <1>10, Zenon DEF AcceptorOf
  <2>5. \A k \in Props, w \in Views : Voted(a, k, w)' => Ge(m.n, k) /\ Ge(n_h[a], k)
    BY <1>6, <2>1, <2>2, <2>3, <2>4, Zenon
  <2> QED BY <1>2, <1>4, <1>6, <1>8, <1>10, <2>1, <2>5, Zenon
<1>11. instance_h'[a] >= 1 /\ values'[a][1] = InitView /\ (Open(a)' <=> FirstOnly(a)')
  BY <1>1, <1>2, <1>6, <1>7, Zenon DEF AcceptorOf
<1> QED BY <1>7, <1>9, <1>10, <1>11, Zenon DEF AcceptorOf

\* commit_wo closes instance 2.
LEMMA GrowsCommit ==
  ASSUME VoteInv, LastInstance = 2, NEW a \in Node, NEW i \in Instances, NEW w \in Views,
         Commits(a, i, w)
  PROVE  AcceptorOf(a)' /\ Grows(a) /\ ~ Open(a)'
<1>1. /\ TypeInv /\ AcceptorOf(a) /\ instance_h[a] \in {1, 2} /\ Instances = {1, 2}
      /\ values[a] \in [{1, 2} -> Views]
  BY AcceptorTypes, Zenon
<1>2. /\ i > instance_h[a] /\ instance_h'[a] = i /\ plog'[a] = Append(plog[a], Done(i, w))
      /\ values'[a] = [values[a] EXCEPT ![i] = w]
  BY Zenon DEF Commits
<1>3. i = 2
  BY <1>1, <1>2
<1>4. /\ Done(i, w) \in LogRecord /\ Done(i, w).type = "done" /\ Done(i, w).instance # 1
      /\ \A n \in prop_t, x \in Views : Done(i, w) # Accepted(n, x)
      /\ \A n \in prop_t : Done(i, w) # PropSeen(n)
  <2>1. Done(i, w) \in LogRecord
    BY RecordTypes, Zenon
  <2> QED BY <1>3, <2>1 DEF Done, Accepted, PropSeen
<1>5. /\ \A n \in prop_t, x \in Views : Voted(a, n, x)' <=> Voted(a, n, x)
      /\ \A n \in prop_t : Promised(a, n)' <=> Promised(a, n)
      /\ ~ FirstOnly(a)'
  <2>1. /\ \A n \in prop_t, x \in Views :
             Voted(a, n, x)' <=> Voted(a, n, x) \/ (Done(i, w) = Accepted(n, x) /\ FirstOnly(a))
        /\ \A n \in prop_t : Promised(a, n)' <=> Promised(a, n) \/ Done(i, w) = PropSeen(n)
        /\ FirstOnly(a)' <=> FirstOnly(a) /\ (Done(i, w).type = "done" => Done(i, w).instance = 1)
    BY <1>1, <1>2, <1>4, VotesOfAppend, ZenonT(30)
  <2> QED BY <1>4, <2>1, ZenonT(30)
<1>6. ~ Open(a)'
  BY <1>2, <1>3 DEF Open
<1>7. Grows(a)
  BY <1>5, <1>6, Zenon DEF Grows
<1>8. instance_h'[a] >= 1 /\ values'[a][1] = InitView
  BY <1>1, <1>2, <1>3 DEF AcceptorOf
<1> QED BY <1>5, <1>6, <1>7, <1>8, Zenon DEF AcceptorOf

\* Every step keeps what is said of the acceptors, and only adds to it.
LEMMA AcceptorsGrow ==
  ASSUME VoteInv, LastInstance = 2, [Next]_vars
  PROVE  \A a \in Node : AcceptorOf(a)' /\ Grows(a)
<1>1. LogInv /\ TypeInv'
  BY TypeNext, Zenon DEF VoteInv, BackInv, LogInv
<1> QED BY <1>1, AcceptorCases, GrowsQuiet, GrowsPromise, GrowsVote, GrowsCommit, ZenonT(30)

-----------------------------------------------------------------------------
(* What no step takes back *)

Steady ==
  /\ \A a \in Node, n \in prop_t : Promised(a, n) => Promised(a, n)'
  /\ \A a \in Node, n \in Props, h \in prop_t : Told(a, n, h) => Told(a, n, h)'
  /\ \A n \in prop_t, h \in prop_t, w \in Views : Learnt(n, h, w) => Learnt(n, h, w)'
  /\ \A n \in prop_t, w \in Views : SafeAt(n, w) => SafeAt(n, w)'
  /\ \A a \in Node, w \in Views : Settled(a, w) => Settled(a, w)'
  /\ \A a \in Node, n \in prop_t, w \in Views : Voted(a, n, w)' => Issued(n, w)

\* What an acceptor told a proposer stays true: below its promise it votes no
\* more.
LEMMA ToldStays ==
  ASSUME VoteInv, LastInstance = 2, NEW a \in Node, Grows(a), NEW n \in Props, NEW h \in prop_t,
         Told(a, n, h)
  PROVE  Told(a, n, h)'
<1>1. AcceptorOf(a) /\ n_h[a] \in prop_t /\ n \in prop_t
  BY AcceptorTypes, Zenon DEF Props
<1>2. Promised(a, n) /\ Promised(a, n)'
  BY <1>1, Zenon DEF Told, Grows
<1>3. ASSUME NEW k \in Props, NEW w \in Views, Voted(a, k, w)', Gt(n, k)
      PROVE  Ge(h, k)
  <2>0. k \in prop_t
    BY Zenon DEF Props
  <2>1. CASE Voted(a, k, w)
    BY <1>3, <2>1, Zenon DEF Told
  <2>2. CASE ~ Voted(a, k, w)
    <3>1. Open(a) /\ Ge(k, n_h[a])
      BY <1>3, <2>0, <2>2, Zenon DEF Grows
    <3>2. Ge(n_h[a], n)
      BY <1>1, <1>2, <3>1, Zenon DEF AcceptorOf
    <3>3. Ge(k, n)
      BY <1>1, <2>0, <3>1, <3>2, Order, Zenon
    <3> QED BY <1>1, <1>3, <2>0, <3>3, Order, Zenon
  <2> QED BY <2>1, <2>2, Zenon
<1> QED BY <1>2, <1>3, Zenon DEF Told

\* An acceptor that will not vote under a number never does.
LEMMA WontVoteStays ==
  ASSUME VoteInv, LastInstance = 2, NEW a \in Node, Grows(a), NEW k \in Props, WontVote(a, k)
  PROVE  WontVote(a, k)'
<1>1. n_h[a] \in prop_t /\ k \in prop_t
  BY AcceptorTypes, Zenon DEF Props
<1>2. ASSUME NEW w \in Views, Voted(a, k, w)' PROVE FALSE
  <2>1. Open(a) /\ Ge(k, n_h[a]) /\ Gt(n_h[a], k)
    BY <1>1, <1>2, Zenon DEF Grows, WontVote
  <2> QED BY <1>1, <2>1, Order, Zenon
<1>3. Open(a)' => Gt(n_h'[a], k)
  BY Zenon DEF Grows, WontVote
<1> QED BY <1>2, <1>3, Zenon DEF WontVote

\* A safe view stays safe.
LEMMA SafeStays ==
  ASSUME VoteInv, LastInstance = 2, \A a \in Node : Grows(a),
         NEW n \in prop_t, NEW w \in Views, SafeAt(n, w)
  PROVE  SafeAt(n, w)'
<1> SUFFICES ASSUME NEW k \in Props, Gt(n, k)
             PROVE  \E Q \in SUBSET Node :
                      /\ IsMajority(Q, InitView)
                      /\ \A a \in Q : Voted(a, k, w)' \/ WontVote(a, k)'
  BY ZenonT(30) DEF SafeAt, IsMajority
<1>1. PICK Q \in SUBSET Node : /\ IsMajority(Q, InitView)
                               /\ \A a \in Q : Voted(a, k, w) \/ WontVote(a, k)
  BY Zenon DEF SafeAt
<1>2. k \in prop_t
  BY Zenon DEF Props
<1>3. ASSUME NEW a \in Q PROVE Voted(a, k, w)' \/ WontVote(a, k)'
  BY <1>1, <1>2, WontVoteStays, Zenon DEF Grows
<1> QED BY <1>1, <1>3, Zenon

\* A settled view stays settled: logs only grow.
LEMMA SettledStays ==
  ASSUME Stable, NEW a \in Node, NEW w \in Views, Settled(a, w)
  PROVE  Settled(a, w)'
<1>1. PICK n \in Props : /\ EverAccepted(a, n, w)
                         /\ IsMajority({b \in Node : EverAccepted(b, n, w)}, InitView)
  BY Zenon DEF Settled
<1> DEFINE Q == {b \in Node : EverAccepted(b, n, w)}
           R == {b \in Node : EverAccepted(b, n, w)'}
<1>2. n \in prop_t
  BY Zenon DEF Props
<1>3. Q \subseteq R /\ EverAccepted(a, n, w)'
  BY <1>1, <1>2, Zenon DEF Stable
<1>4. InitView \in Views
  BY NodeAssumption, Zenon DEF Views
<1>5. IsMajority(R, InitView)
  BY <1>1, <1>3, <1>4, MajorityGrows, Zenon
<1> QED BY <1>3, <1>5, ZenonT(30) DEF Settled, IsMajority

\* No step takes back a promise, what was told, a safe or a settled view; and
\* only what was issued is voted for.
LEMMA StepIsSteady ==
  ASSUME VoteInv, LastInstance = 2, [Next]_vars
  PROVE  Steady
<1>1. \A a \in Node : Grows(a)
  BY AcceptorsGrow, Zenon
<1>2. Stable
  BY StepIsStable, Zenon DEF VoteInv, BackInv
<1>3. \A a \in Node, n \in prop_t : Promised(a, n) => Promised(a, n)'
  BY <1>1, Zenon DEF Grows
<1>4. \A a \in Node, n \in Props, h \in prop_t : Told(a, n, h) => Told(a, n, h)'
  BY <1>1, ToldStays, Zenon
<1>5. \A n \in prop_t, h \in prop_t, w \in Views : Learnt(n, h, w) => Learnt(n, h, w)'
  BY <1>1, Zenon DEF Grows, Learnt
<1>6. \A n \in prop_t, w \in Views : SafeAt(n, w) => SafeAt(n, w)'
  BY <1>1, SafeStays, Zenon
<1>7. \A a \in Node, w \in Views : Settled(a, w) => Settled(a, w)'
  BY <1>2, SettledStays, Zenon
<1>8. \A a \in Node, n \in prop_t, w \in Views : Voted(a, n, w)' => Issued(n, w)
  <2> SUFFICES ASSUME NEW a \in Node, NEW n \in prop_t, NEW w \in Views, Voted(a, n, w)'
               PROVE  Issued(n, w)
    OBVIOUS
  <2>1. CASE Voted(a, n, w)
    BY <2>1, Zenon DEF Issued
  <2>2. CASE ~ Voted(a, n, w)
    <3>1. \E m \in reqs : m.type = "accept" /\ m.dst = a /\ m.n = n /\ m.v = w
      <4>1. Grows(a)
        BY <1>1, Zenon
      <4> QED BY <2>2, <4>1, SMTT(30) DEF Grows
    <3> QED BY <3>1, Zenon DEF Issued
  <2> QED BY <2>1, <2>2, Zenon
<1> QED BY <1>3, <1>4, <1>5, <1>6, <1>7, <1>8, Zenon DEF Steady

-----------------------------------------------------------------------------
(* Steps that issue nothing new *)

\* A step that leaves the ballot of p alone, but for calls it need not make.
SameBallot(p) ==
  /\ my_n'[p] = my_n[p] /\ phase'[p] = phase[p] /\ instance'[p] = instance[p]
  /\ cur_nodes'[p] = cur_nodes[p] /\ v'[p] = v[p] /\ highest_seen'[p] = highest_seen[p]
  /\ todo'[p] \subseteq todo[p]
  /\ phase[p] # "prepare" \/ accepts'[p] = accepts[p]

\* It brings p no promise.
SameAnswer(p) ==
  Answer(p)' => \/ phase[p] # "prepare"
                \/ Answer(p) /\ reply'[p] = reply[p] /\ call'[p] = call[p]

\* p takes another step, under a number that was issued or no longer counts
\* old promises.
Renewed(p) ==
  /\ ProposerOf(p)' /\ PrepareOf(p)'
  /\ \A n \in prop_t, w \in Views :
       phase'[p] \in {"accept", "decide"} /\ my_n'[p] = n /\ v'[p] = w => Issued(n, w)
  /\ \A n \in prop_t, a \in Node : Counts(p, n, a)' => Counts(p, n, a) \/ ~ Promised(a, n)

\* A run that ends is no concern any more.
LEMMA RenewedIdle ==
  ASSUME NEW p \in Node, phase'[p] = "idle"
  PROVE  Renewed(p)
BY Zenon DEF Renewed, ProposerOf, PrepareOf, Counts

\* The types of a run.
LEMMA RunTypes ==
  ASSUME VoteInv, LastInstance = 2, NEW p \in Node
  PROVE  /\ TypeInv /\ RunOf(p) /\ ProposalOf(p) /\ ProposerOf(p) /\ PrepareOf(p)
         /\ my_n[p] \in prop_t /\ v[p] \in Views /\ highest_seen[p] \in prop_t
         /\ phase[p] # "idle" => my_n[p] \in Props
         /\ accepts[p] \in Views /\ todo[p] \in Views
         /\ reply[p] # NoReply => /\ reply[p].n_a \in prop_t /\ reply[p].v_a \in Views
                                  /\ call[p] \in Request /\ call[p].dst \in Node
                                  /\ call[p] # NoCall
<1>1. TypeInv /\ RunOf(p) /\ ProposalOf(p) /\ ProposerOf(p) /\ PrepareOf(p)
  BY Zenon DEF VoteInv, BallotInv, BackInv, LogInv
<1>2. /\ my_n[p] \in prop_t /\ v[p] \in Views /\ highest_seen[p] \in prop_t
      /\ accepts[p] \in Views /\ todo[p] \in Views
  BY <1>1, Zenon DEF TypeInv, TypeOK
<1>3. phase[p] # "idle" => my_n[p] \in Props
  BY <1>1, <1>2, Zenon DEF ProposerOf, Props
<1>4. reply[p] # NoReply => reply[p] \in Response /\ call[p] \in Request
  BY <1>1, Zenon DEF TypeInv, TypeOK, RunOK
<1>5. reply[p] # NoReply => reply[p].n_a \in prop_t /\ reply[p].v_a \in Views
  BY <1>4, ResponseTypes, Zenon
<1>6. reply[p] # NoReply => call[p].dst \in Node /\ call[p] # NoCall
  BY <1>4, RequestTypes, Zenon
<1> QED BY <1>1, <1>2, <1>3, <1>4, <1>5, <1>6, Zenon

\* A ballot that is left alone keeps what is said of it.
LEMMA RenewedSame ==
  ASSUME VoteInv, LastInstance = 2, Steady, NEW p \in Node, SameBallot(p), SameAnswer(p)
  PROVE  Renewed(p)
<1>1. /\ RunOf(p) /\ ProposerOf(p) /\ PrepareOf(p)
      /\ my_n[p] \in prop_t /\ v[p] \in Views /\ highest_seen[p] \in prop_t
      /\ phase[p] # "idle" => my_n[p] \in Props
      /\ accepts[p] \in Views /\ todo[p] \in Views
      /\ reply[p] # NoReply => reply[p].n_a \in prop_t /\ reply[p].v_a \in Views /\ call[p].dst \in Node
  BY RunTypes, Zenon
<1>2. ProposerOf(p)'
  <2>1. phase'[p] # "idle" => /\ instance'[p] = 2 /\ cur_nodes'[p] = InitView
                              /\ my_n'[p].n > 0 /\ my_n'[p].m = p
    BY <1>1, Zenon DEF ProposerOf, SameBallot
  <2>2. phase'[p] = "accept" => \A a \in todo'[p] : Promised(a, my_n[p])'
    BY <1>1, Zenon DEF ProposerOf, SameBallot, Steady, Views
  <2>3. phase'[p] = "decide" => \A a \in todo'[p] : Settled(a, v[p])'
    BY <1>1, Zenon DEF ProposerOf, SameBallot, Steady, Views
  <2> QED BY <2>1, <2>2, <2>3, Zenon DEF ProposerOf
<1>3. PrepareOf(p)'
  <2> SUFFICES ASSUME phase'[p] = "prepare"
               PROVE  /\ \A a \in accepts'[p] : Told(a, my_n[p], highest_seen[p])'
                      /\ Learnt(my_n[p], highest_seen[p], v[p])'
                      /\ Answer(p)' => /\ Told(call[p].dst, my_n[p], reply[p].n_a)'
                                       /\ Learnt(my_n[p], reply[p].n_a, reply[p].v_a)'
    BY Zenon DEF PrepareOf
  <2>1. phase[p] = "prepare" /\ my_n[p] \in Props /\ accepts'[p] = accepts[p] /\ my_n'[p] = my_n[p]
        /\ highest_seen'[p] = highest_seen[p] /\ v'[p] = v[p]
    BY <1>1, Zenon DEF SameBallot
  <2>2. \A a \in accepts'[p] : Told(a, my_n[p], highest_seen[p])'
    BY <1>1, <2>1, Zenon DEF PrepareOf, Steady, Views
  <2>3. Learnt(my_n[p], highest_seen[p], v[p])'
    BY <1>1, <2>1, Zenon DEF PrepareOf, Steady
  <2>4. ASSUME Answer(p)'
        PROVE  /\ Told(call[p].dst, my_n[p], reply[p].n_a)'
               /\ Learnt(my_n[p], reply[p].n_a, reply[p].v_a)'
    <3>1. Answer(p) /\ reply'[p] = reply[p] /\ call'[p] = call[p] /\ reply[p] # NoReply
      BY <2>1, <2>4, Zenon DEF SameAnswer, Answer
    <3>2. /\ Told(call[p].dst, my_n[p], reply[p].n_a)
          /\ Learnt(my_n[p], reply[p].n_a, reply[p].v_a)
      BY <1>1, <2>1, <3>1, Zenon DEF PrepareOf
    <3> QED BY <1>1, <2>1, <3>1, <3>2, Zenon DEF Steady
  <2> QED BY <2>2, <2>3, <2>4, Zenon
<1>4. \A n \in prop_t, w \in Views :
        phase'[p] \in {"accept", "decide"} /\ my_n'[p] = n /\ v'[p] = w => Issued(n, w)
  BY Zenon DEF SameBallot, Issued
<1>5. \A n \in prop_t, a \in Node : Counts(p, n, a)' => Counts(p, n, a)
  BY Zenon DEF SameBallot, SameAnswer, Counts
<1> QED BY <1>2, <1>3, <1>4, <1>5, Zenon DEF Renewed

\* Where nothing new is issued, what was issued stays safe.
LEMMA IssuesStay ==
  ASSUME VoteInv, LastInstance = 2, Steady, \A p \in Node : Renewed(p),
         NEW n \in prop_t, NEW w \in Views, Issued(n, w)
  PROVE  SafeAt(n, w)' /\ Spent(n)' /\ n \in Props /\ w # NoView
<1>1. SafeAt(n, w) /\ Spent(n) /\ n \in Props /\ w # NoView
  BY Zenon DEF VoteInv, BallotInv, IssueOf
<1>2. SafeAt(n, w)'
  BY <1>1, Zenon DEF Steady
<1>3. PICK Q \in SUBSET Node :
        /\ IsMajority(Q, InitView)
        /\ \A a \in Q : Promised(a, n) /\ \A p \in Node : ~ Counts(p, n, a)
  BY <1>1, Zenon DEF Spent
<1>4. \A a \in Q : Promised(a, n)' /\ \A p \in Node : ~ Counts(p, n, a)'
  BY <1>3, Zenon DEF Steady, Renewed
<1>5. Spent(n)'
  BY <1>3, <1>4, ZenonT(30) DEF Spent, IsMajority
<1> QED BY <1>1, <1>2, <1>5, Zenon

\* A step that issues nothing new keeps all that is said of the ballots.
LEMMA BallotFrame ==
  ASSUME VoteInv, LastInstance = 2, Steady,
         \A p \in Node : ProposalOf(p)' /\ Renewed(p),
         \A m \in reqs' : m \in reqs \/ (RequestOf(m)' /\ (m.type = "accept" => Issued(m.n, m.v)))
  PROVE  BallotInv'
<1>1. ASSUME NEW m \in reqs' PROVE RequestOf(m)'
  <2>1. CASE m \in reqs
    <3>1. m.dst \in Node /\ m.n \in prop_t /\ m.v \in Views /\ RequestOf(m)
      BY <2>1, RequestTypes, Zenon DEF VoteInv, BallotInv, BackInv, LogInv, TypeInv, TypeOK
    <3> QED BY <3>1, Zenon DEF RequestOf, Steady
  <2> QED BY <2>1, Zenon
<1>2. ASSUME NEW n \in prop_t, NEW w \in Views, Issued(n, w)'
      PROVE  Issued(n, w)
  <2>1. CASE \E m \in reqs' : m.type = "accept" /\ m.n = n /\ m.v = w
    BY <2>1, Zenon DEF Issued
  <2>2. CASE \E a \in Node : Voted(a, n, w)'
    BY <2>2, Zenon DEF Steady
  <2>3. CASE \E p \in Node : phase'[p] \in {"accept", "decide"} /\ my_n'[p] = n /\ v'[p] = w
    BY <2>3, Zenon DEF Renewed
  <2> QED BY <1>2, <2>1, <2>2, <2>3, Zenon DEF Issued
<1>3. ASSUME NEW n \in prop_t, NEW w \in Views PROVE IssueOf(n, w)'
  <2> SUFFICES ASSUME Issued(n, w)'
               PROVE  /\ n \in Props /\ w # NoView
                      /\ SafeAt(n, w)' /\ Spent(n)'
                      /\ \A x \in Views : Issued(n, x)' => x = w
    BY Zenon DEF IssueOf
  <2>1. Issued(n, w)
    BY <1>2, Zenon
  <2>2. \A x \in Views : Issued(n, x) => x = w
    BY <2>1, Zenon DEF VoteInv, BallotInv, IssueOf
  <2> QED BY <1>2, <2>1, <2>2, IssuesStay, Zenon
<1> QED BY <1>1, <1>3, Zenon DEF BallotInv, Renewed

\* A step that does not touch the run of p.
Untouched(p) ==
  /\ my_n'[p] = my_n[p] /\ phase'[p] = phase[p] /\ instance'[p] = instance[p]
  /\ cur_nodes'[p] = cur_nodes[p] /\ v'[p] = v[p] /\ highest_seen'[p] = highest_seen[p]
  /\ todo'[p] = todo[p] /\ accepts'[p] = accepts[p] /\ call'[p] = call[p]

\* A run that is not touched, and gets no promise, keeps what is said of it.
LEMMA RenewedUntouched ==
  ASSUME VoteInv, LastInstance = 2, Steady, NEW p \in Node, Untouched(p),
         \/ reply'[p] = reply[p] \/ reply'[p] = NoReply \/ reply'[p].type # "accept"
         \/ phase[p] # "prepare"
  PROVE  Renewed(p)
<1>1. SameBallot(p)
  BY Zenon DEF Untouched, SameBallot
<1>2. SameAnswer(p)
  BY Zenon DEF Untouched, SameAnswer, Answer
<1> QED BY <1>1, <1>2, RenewedSame, Zenon

\* A waiting proposal that is left or taken stays one for instance 2.
LEMMA ProposalStays ==
  ASSUME VoteInv, NEW p \in Node, proposal'[p] = proposal[p] \/ proposal'[p] = NoProposal
  PROVE  ProposalOf(p)'
BY Zenon DEF VoteInv, BallotInv, ProposalOf

\* A promise that reaches its proposer tells it of all votes below.
LEMMA RenewedByPromise ==
  ASSUME VoteInv, LastInstance = 2, Steady, NEW p \in Node, NEW m \in reqs,
         Promises(m.dst, m), Untouched(p), call[p] = m, phase[p] = "prepare",
         reply'[p] = [type |-> "accept", n_a |-> n_a[m.dst], v_a |-> v_a[m.dst]]
  PROVE  Renewed(p)
<1> DEFINE a == m.dst
           n == m.n
<1>1. /\ RunOf(p) /\ ProposerOf(p) /\ PrepareOf(p)
      /\ my_n[p] \in prop_t /\ v[p] \in Views /\ highest_seen[p] \in prop_t
      /\ my_n[p] \in Props /\ accepts[p] \in Views /\ todo[p] \in Views
  BY RunTypes, Zenon
<1>2. a \in Node /\ m \in Request /\ m # NoCall
  BY RequestTypes, Zenon DEF VoteInv, BackInv, LogInv, TypeInv, TypeOK
<1>3. my_n[p] = n /\ n \in Props /\ n \in prop_t
  BY <1>1, <1>2, Zenon DEF RunOf, CallOf
<1>4. /\ TypeInv /\ AcceptorOf(a) /\ n_h[a] \in prop_t /\ n_a[a] \in prop_t /\ v_a[a] \in Views
      /\ Open(a)
  BY <1>2, AcceptorTypes, GrowsPromise, Zenon
<1>5. Gt(n, n_h[a]) /\ plog'[a] = Append(plog[a], PropSeen(n))
  BY Zenon DEF Promises
<1>6. ~ Promised(a, n)
  BY <1>3, <1>4, <1>5, Order, Zenon DEF AcceptorOf
<1>7. PropSeen(n) \in LogRecord /\ \A k \in prop_t, w \in Views : PropSeen(n) # Accepted(k, w)
  <2>1. PropSeen(n) \in LogRecord
    BY <1>3, RecordTypes, Zenon
  <2>2. \A k \in prop_t, w \in Views : PropSeen(n) # Accepted(k, w)
    BY DEF PropSeen, Accepted
  <2> QED BY <2>1, <2>2, Zenon
<1>8. Promised(a, n)' /\ \A k \in prop_t, w \in Views : Voted(a, k, w)' => Voted(a, k, w)
  <2>1. /\ \A k \in prop_t, w \in Views :
             Voted(a, k, w)' <=> Voted(a, k, w) \/ (PropSeen(n) = Accepted(k, w) /\ FirstOnly(a))
        /\ \A k \in prop_t : Promised(a, k)' <=> Promised(a, k) \/ PropSeen(n) = PropSeen(k)
    BY <1>2, <1>4, <1>5, <1>7, VotesOfAppend, ZenonT(30)
  <2> QED BY <1>3, <1>7, <2>1, Zenon
<1>9. ASSUME NEW k \in Props, NEW w \in Views, Voted(a, k, w)' PROVE Ge(n_a[a], k)
  <2>1. k \in prop_t
    BY Zenon DEF Props
  <2> QED BY <1>4, <1>8, <1>9, <2>1, Zenon DEF AcceptorOf
<1>10. IF n_a[a].n > 0 THEN Gt(n, n_a[a]) /\ Voted(a, n_a[a], v_a[a]) ELSE v_a[a] = NoView
  <2>1. CASE n_a[a].n > 0
    <3>1. n_a[a] \in Props /\ Voted(a, n_a[a], v_a[a])
      BY <1>4, <2>1, Zenon DEF AcceptorOf, Props
    <3>2. Ge(n_h[a], n_a[a])
      BY <1>4, <3>1, Zenon DEF AcceptorOf
    <3> QED BY <1>3, <1>4, <1>5, <2>1, <3>1, <3>2, Order, Zenon
  <2> QED BY <1>4, <2>1, Zenon DEF AcceptorOf
<1>11. Learnt(n, n_a[a], v_a[a])
  BY <1>2, <1>10, Zenon DEF Learnt
<1> HIDE DEF a, n
<1>12. /\ call'[p] = m /\ m.dst = a /\ my_n'[p] = n /\ reply'[p].n_a = n_a[a]
       /\ reply'[p].v_a = v_a[a] /\ reply'[p].type = "accept"
  <2>1. call'[p] = m /\ m.dst = a /\ my_n'[p] = n
    BY <1>3, Zenon DEF Untouched, a, n
  <2>2. /\ reply'[p].n_a = n_a[a] /\ reply'[p].v_a = v_a[a] /\ reply'[p].type = "accept"
    BY SMT DEF a
  <2> QED BY <2>1, <2>2, Zenon
<1>13. ProposerOf(p)'
  BY <1>1, Zenon DEF ProposerOf, Untouched
<1>14. \A x \in prop_t, w \in Views : Learnt(n, x, w) => Learnt(n, x, w)'
  BY <1>3, Zenon DEF Steady
<1>15. Learnt(my_n[p], reply[p].n_a, reply[p].v_a)'
  BY <1>4, <1>11, <1>12, <1>14, Zenon
<1>16. Told(call[p].dst, my_n[p], reply[p].n_a)'
  BY <1>8, <1>9, <1>12, ZenonT(30) DEF Told
<1>17. \A b \in accepts'[p] : Told(b, my_n[p], highest_seen[p])'
  BY <1>1, Zenon DEF PrepareOf, Steady, Views, Untouched
<1>18. Learnt(my_n[p], highest_seen[p], v[p])'
  BY <1>1, Zenon DEF PrepareOf, Steady, Untouched
<1>19. PrepareOf(p)'
  BY <1>15, <1>16, <1>17, <1>18, Zenon DEF PrepareOf
<1>20. \A k \in prop_t, b \in Node : Counts(p, k, b)' => Counts(p, k, b) \/ ~ Promised(b, k)
  BY <1>3, <1>6, <1>12, Zenon DEF Counts, Untouched
<1>21. phase'[p] = "prepare"
  BY Zenon DEF Untouched
<1> QED BY <1>13, <1>19, <1>20, <1>21, Zenon DEF Renewed

\* preparereq keeps what is said of the ballots.
LEMMA BallotPrepare ==
  ASSUME VoteInv, LastInstance = 2, Steady, NEW m \in reqs, preparereq(m)
  PROVE  BallotInv'
<1>1. TypeInv /\ m \in Request /\ m.type = "prepare" /\ m.dst \in Node
  BY RequestTypes, Zenon DEF VoteInv, BackInv, LogInv, TypeInv, TypeOK, preparereq
<1>2. ASSUME NEW p \in Node PROVE ProposalOf(p)' /\ Untouched(p)
  BY ProposalStays, Zenon DEF preparereq, configVars, runVars, Untouched
<1>3. ASSUME NEW p \in Node PROVE Renewed(p)
  <2>1. CASE reply'[p] = reply[p]
    BY <1>2, <2>1, RenewedUntouched, Zenon
  <2>2. CASE reply'[p] # reply[p]
    <3>1. ASSUME NEW r, Respond(m, r) PROVE call[p] = m /\ reply'[p] = r
      BY <1>1, <2>2, <3>1, ReplyOf, Zenon
    <3>2. CASE /\ instance_h[m.dst] < m.instance /\ Gt(m.n, n_h[m.dst])
               /\ n_h' = [n_h EXCEPT ![m.dst] = m.n]
               /\ plog' = [plog EXCEPT ![m.dst] = logprop(@, m.n)]
               /\ Respond(m, [type |-> "accept", n_a |-> n_a[m.dst], v_a |-> v_a[m.dst]])
      <4>1. Promises(m.dst, m)
        BY <1>1, <3>2, ZenonT(30) DEF preparereq, Promises, logprop, TypeInv, TypeOK
      <4>2. call[p] = m /\ reply'[p] = [type |-> "accept", n_a |-> n_a[m.dst], v_a |-> v_a[m.dst]]
        BY <3>1, <3>2, Zenon
      <4>3. phase[p] = "prepare"
        BY <1>1, <4>2, RequestTypes, Zenon DEF VoteInv, BackInv, RunOf, CallOf
      <4> QED BY <1>2, <4>1, <4>2, <4>3, RenewedByPromise, Zenon
    <3>3. CASE \/ Respond(m, [type |-> "oldinstance", n_a |-> NoProp, v_a |-> values[m.dst][m.instance]])
               \/ Respond(m, [type |-> "reject", n_a |-> NoProp, v_a |-> NoView])
      <4>1. \/ reply'[p] = [type |-> "oldinstance", n_a |-> NoProp, v_a |-> values[m.dst][m.instance]]
            \/ reply'[p] = [type |-> "reject", n_a |-> NoProp, v_a |-> NoView]
        BY <3>1, <3>3, Zenon
      <4>2. reply'[p].type # "accept"
        BY <4>1, SMT
      <4> QED BY <1>2, <4>2, RenewedUntouched, Zenon
    <3> QED BY <3>2, <3>3, ZenonT(30) DEF preparereq
  <2> QED BY <2>1, <2>2, Zenon
<1>4. \A x \in reqs' : x \in reqs
  BY Zenon DEF preparereq
<1> QED BY <1>2, <1>3, <1>4, BallotFrame, Zenon

\* An answer to another request than a prepare is no promise.
LEMMA RenewedByAnswer ==
  ASSUME VoteInv, LastInstance = 2, Steady, NEW p \in Node, Untouched(p),
         NEW m \in Request, m.type # "prepare", NEW r, Respond(m, r)
  PROVE  Renewed(p)
<1>1. TypeInv /\ RunOf(p)
  BY RunTypes, Zenon
<1>2. reply'[p] = reply[p] \/ phase[p] # "prepare"
  BY <1>1, ReplyOf, RequestTypes, Zenon DEF RunOf, CallOf
<1> QED BY <1>2, RenewedUntouched, Zenon

\* acceptreq issues nothing new.
LEMMA BallotAccept ==
  ASSUME VoteInv, LastInstance = 2, Steady, NEW m \in reqs, acceptreq(m)
  PROVE  BallotInv'
<1>1. m \in Request /\ m.type # "prepare" /\ \E r : Respond(m, r)
  BY Zenon DEF VoteInv, BackInv, LogInv, TypeInv, TypeOK, acceptreq
<1>2. ASSUME NEW p \in Node PROVE ProposalOf(p)' /\ Untouched(p)
  BY ProposalStays, Zenon DEF acceptreq, configVars, runVars, Untouched
<1>3. \A x \in reqs' : x \in reqs
  BY Zenon DEF acceptreq
<1> QED BY <1>1, <1>2, <1>3, RenewedByAnswer, BallotFrame, Zenon

\* A restart ends the run of its node and loses requests.
LEMMA BallotRestart ==
  ASSUME VoteInv, LastInstance = 2, Steady, NEW a \in Node, RestartFrom(a)
  PROVE  BallotInv'
<1>1. TypeInv
  BY Zenon DEF VoteInv, BackInv, LogInv
<1>2. ASSUME NEW p \in Node PROVE ProposalOf(p)' /\ Renewed(p)
  <2>1. CASE p = a
    <3>1. phase'[p] = "idle" /\ proposal'[p] = NoProposal
      BY <1>1, <2>1, Zenon DEF RestartFrom, TypeInv, TypeOK
    <3> QED BY <3>1, RenewedIdle, ProposalStays, Zenon
  <2>2. CASE p # a
    <3>1. Untouched(p) /\ reply'[p] = reply[p] /\ proposal'[p] = proposal[p]
      BY <1>1, <2>2, ZenonT(30) DEF RestartFrom, TypeInv, TypeOK, Untouched
    <3> QED BY <3>1, RenewedUntouched, ProposalStays, Zenon
  <2> QED BY <2>1, <2>2, Zenon
<1>3. \A x \in reqs' : x \in reqs
  BY Zenon DEF RestartFrom
<1> QED BY <1>2, <1>3, BallotFrame, Zenon

\* decidereq issues nothing new.
LEMMA BallotDecide ==
  ASSUME VoteInv, LastInstance = 2, Steady, NEW m \in reqs, decidereq(m)
  PROVE  BallotInv'
<1>1. m \in Request /\ m.dst \in Node /\ m.type # "prepare"
  BY RequestTypes, Zenon DEF VoteInv, BackInv, LogInv, TypeInv, TypeOK, decidereq
<1>2. CASE RestartFrom(m.dst)
  BY <1>1, <1>2, BallotRestart, Zenon
<1>3. CASE /\ reqs' = reqs \ {m}
           /\ UNCHANGED <<proposal, my_n, phase, runVars, call>>
           /\ UNCHANGED reply \/ \E r : Respond(m, r)
  <2>1. ASSUME NEW p \in Node PROVE ProposalOf(p)' /\ Untouched(p)
    BY <1>3, ProposalStays, Zenon DEF runVars, Untouched
  <2>2. ASSUME NEW p \in Node PROVE Renewed(p)
    BY <1>1, <1>3, <2>1, RenewedUntouched, RenewedByAnswer, Zenon
  <2>3. \A x \in reqs' : x \in reqs
    BY <1>3, Zenon
  <2> QED BY <2>1, <2>2, <2>3, BallotFrame, Zenon
<1> QED BY <1>2, <1>3, ZenonT(30) DEF decidereq, configVars

\* A step of p's own thread that ends its run, or leaves its ballot alone.
LEMMA BallotOwnStep ==
  ASSUME VoteInv, LastInstance = 2, Steady, NEW p \in Node,
         UNCHANGED <<proposal, reqs>>, Renewed(p),
         \A q \in Node : q # p => Untouched(q) /\ reply'[q] = reply[q]
  PROVE  BallotInv'
<1>1. ASSUME NEW q \in Node PROVE ProposalOf(q)' /\ Renewed(q)
  BY ProposalStays, RenewedUntouched, Zenon
<1> QED BY <1>1, BallotFrame, Zenon

\* The upcall and the proposals of config issue nothing new.
LEMMA BallotConfig ==
  ASSUME VoteInv, LastInstance = 2, Steady, NEW p \in Node, ConfigStep(p)
  PROVE  BallotInv'
<1>1. TypeInv
  BY Zenon DEF VoteInv, BackInv, LogInv
<1>2. ASSUME NEW u \in upcalls[p], paxos_commit(p, u) PROVE BallotInv'
  <2>1. u.req \in Request
    BY <1>1 DEF TypeInv, TypeOK
  <2>2. CASE /\ u.req.type = "decide"
             /\ Respond(u.req, [type |-> "accept", n_a |-> NoProp, v_a |-> NoView])
             /\ UNCHANGED <<phase, runVars, call>>
    <3>1. ASSUME NEW q \in Node PROVE ProposalOf(q)' /\ Untouched(q)
      BY <1>2, <2>2, ProposalStays, Zenon DEF paxos_commit, runVars, Untouched
    <3>2. ASSUME NEW q \in Node PROVE Renewed(q)
      BY <2>1, <2>2, <3>1, RenewedByAnswer, Zenon
    <3>3. \A x \in reqs' : x \in reqs
      BY <1>2, Zenon DEF paxos_commit
    <3> QED BY <3>1, <3>2, <3>3, BallotFrame, Zenon
  <2>3. CASE /\ ReturnFromRun(p)
             /\ call' = [call EXCEPT ![p] = NoCall]
             /\ reply' = [reply EXCEPT ![p] = NoReply]
    <3>1. UNCHANGED <<proposal, reqs, my_n>>
      BY <1>2, Zenon DEF paxos_commit
    <3>2. phase'[p] = "idle"
      BY <1>1, <2>3, Zenon DEF ReturnFromRun, TypeInv, TypeOK
    <3>3. \A q \in Node : q # p => Untouched(q) /\ reply'[q] = reply[q]
      BY <1>1, <2>3, <3>1, ZenonT(30) DEF ReturnFromRun, TypeInv, TypeOK, Untouched
    <3> QED BY <3>1, <3>2, <3>3, RenewedIdle, BallotOwnStep, Zenon
  <2> QED BY <1>2, <2>2, <2>3, Zenon DEF paxos_commit
<1>3. ASSUME NEW view, Propose(p, view) PROVE BallotInv'
  <2>1. ConfigKnows(p) /\ myvid[p] + 1 <= LastInstance /\ myvid[p] \in Instances \cup {0}
    BY <1>1, <1>3, Zenon DEF VoteInv, ConfigInv, Propose, TypeInv, TypeOK
  <2>2. myvid[p] = 1
    BY <2>1 DEF ConfigKnows, Instances
  <2>3. mems[p] = InitView
    BY <2>1, <2>2, Zenon DEF ConfigKnows, VoteInv, AcceptorOf
  <2>4. ASSUME NEW q \in Node PROVE ProposalOf(q)'
    <3>1. CASE q = p
      <4>1. proposal'[q] = [instance |-> myvid[p] + 1, cur_nodes |-> mems[p], newv |-> view]
        BY <1>1, <1>3, <3>1, Zenon DEF Propose, TypeInv, TypeOK
      <4>2. proposal'[q].instance = 2 /\ proposal'[q].cur_nodes = InitView
        BY <2>2, <2>3, <4>1
      <4> QED BY <4>2, Zenon DEF ProposalOf
    <3>2. CASE q # p
      <4>1. proposal'[q] = proposal[q]
        BY <1>1, <1>3, <3>2, Zenon DEF Propose, TypeInv, TypeOK
      <4> QED BY <4>1, ProposalStays, Zenon
    <3> QED BY <3>1, <3>2, Zenon
  <2>5. ASSUME NEW q \in Node PROVE Renewed(q)
    <3>1. Untouched(q) /\ reply'[q] = reply[q]
      BY <1>3, Zenon DEF Propose, runVars, Untouched
    <3> QED BY <3>1, RenewedUntouched, Zenon
  <2>6. \A x \in reqs' : x \in reqs
    BY <1>3, Zenon DEF Propose
  <2> QED BY <2>4, <2>5, <2>6, BallotFrame, Zenon
<1> QED BY <1>2, <1>3, Zenon DEF ConfigStep, remove_wo, add

\* A call that ends without a promise being counted.
LEMMA BallotEndOfCall ==
  ASSUME VoteInv, LastInstance = 2, Steady, NEW p \in Node,
         UNCHANGED <<proposal, reqs, my_n, phase, instance, cur_nodes, newv, todo, v, highest_seen>>,
         UNCHANGED accepts \/ (phase[p] # "prepare" /\ \E S : accepts' = [accepts EXCEPT ![p] = S]),
         call' = [call EXCEPT ![p] = NoCall], reply' = [reply EXCEPT ![p] = NoReply]
  PROVE  BallotInv'
<1>1. TypeInv
  BY Zenon DEF VoteInv, BackInv, LogInv
<1>2. reply'[p] = NoReply
  BY <1>1, Zenon DEF TypeInv, TypeOK
<1>3. Renewed(p)
  BY <1>2, RenewedSame, Zenon DEF SameBallot, SameAnswer, Answer
<1>4. \A q \in Node : q # p => Untouched(q) /\ reply'[q] = reply[q]
  BY <1>1, Zenon DEF TypeInv, TypeOK, Untouched
<1> QED BY <1>3, <1>4, BallotOwnStep, Zenon

\* A run that ends.
LEMMA BallotEndOfRun ==
  ASSUME VoteInv, LastInstance = 2, Steady, NEW p \in Node, ReturnFromRun(p),
         UNCHANGED <<proposal, reqs, my_n>>,
         UNCHANGED call \/ call' = [call EXCEPT ![p] = NoCall],
         UNCHANGED reply \/ reply' = [reply EXCEPT ![p] = NoReply]
  PROVE  BallotInv'
<1>1. TypeInv
  BY Zenon DEF VoteInv, BackInv, LogInv
<1>2. phase'[p] = "idle"
  BY <1>1, Zenon DEF TypeInv, TypeOK, ReturnFromRun
<1>3. ASSUME NEW q \in Node, q # p PROVE Untouched(q) /\ reply'[q] = reply[q]
  BY <1>1, <1>3, ZenonT(30) DEF TypeInv, TypeOK, ReturnFromRun, Untouched
<1> QED BY <1>2, <1>3, RenewedIdle, BallotOwnStep, Zenon

\* run() starts a ballot under a new number, with no promise yet.
LEMMA BallotRun ==
  ASSUME VoteInv, LastInstance = 2, Steady, NEW p \in Node, run(p)
  PROVE  BallotInv'
<1>1. TypeInv /\ ProposalOf(p) /\ RunOf(p)
  BY RunTypes, Zenon
<1>2. proposal[p] # NoProposal /\ reqs' = reqs /\ UNCHANGED <<call, reply>>
  BY Zenon DEF run
<1>3. ASSUME NEW q \in Node PROVE ProposalOf(q)'
  <2>1. proposal'[q] = proposal[q] \/ proposal'[q] = NoProposal
    BY <1>1, Zenon DEF run, TypeInv, TypeOK
  <2> QED BY <2>1, ProposalStays, Zenon
<1>4. ASSUME NEW q \in Node, q # p PROVE Untouched(q) /\ reply'[q] = reply[q]
  BY <1>1, <1>2, <1>4, ZenonT(30) DEF TypeInv, TypeOK, run, runVars, Untouched
<1>5. Renewed(p)
  <2>1. CASE phase[p] # "idle"
    <3>1. Untouched(p) /\ reply'[p] = reply[p]
      BY <1>2, <2>1, Zenon DEF run, runVars, Untouched
    <3> QED BY <3>1, RenewedUntouched, Zenon
  <2>2. CASE phase[p] = "idle"
    <3>1. /\ phase'[p] = "prepare" /\ my_n'[p] = Prop(setn(p), p)
          /\ instance'[p] = proposal[p].instance /\ cur_nodes'[p] = proposal[p].cur_nodes
          /\ accepts'[p] = {} /\ v'[p] = NoView /\ highest_seen'[p] = NoProp
      <4>1. /\ my_n' = [my_n EXCEPT ![p] = Prop(setn(p), p)]
            /\ phase' = [phase EXCEPT ![p] = "prepare"]
            /\ instance' = [instance EXCEPT ![p] = proposal[p].instance]
            /\ cur_nodes' = [cur_nodes EXCEPT ![p] = proposal[p].cur_nodes]
            /\ accepts' = [accepts EXCEPT ![p] = {}]
            /\ v' = [v EXCEPT ![p] = NoView]
            /\ highest_seen' = [highest_seen EXCEPT ![p] = NoProp]
        BY <2>2, Zenon DEF run
      <4> QED BY <1>1, <4>1, Zenon DEF TypeInv, TypeOK
    <3>2. reply[p] = NoReply
      <4>1. call[p] \in Request => call[p].type # "idle" /\ call[p] # NoCall
        BY RequestTypes, Zenon
      <4>2. call[p] = NoCall
        BY <1>1, <2>2, <4>1, Zenon DEF RunOf, CallOf, TypeInv, TypeOK
      <4> QED BY <1>1, <4>2, Zenon DEF TypeInv, RunOK
    <3>3. ~ Answer(p)'
      BY <1>2, <3>2, Zenon DEF Answer
    <3>4. my_n'[p].n > 0 /\ my_n'[p].m = p
      BY <1>1, <3>1 DEF Prop, setn, TypeInv, TypeOK, prop_t
    <3>5. ProposerOf(p)'
      BY <1>1, <1>2, <3>1, <3>4, Zenon DEF ProposerOf, ProposalOf
    <3>6. Learnt(my_n[p], highest_seen[p], v[p])'
      BY <3>1 DEF Learnt, NoProp, Prop
    <3>7. PrepareOf(p)'
      BY <3>1, <3>3, <3>6, Zenon DEF PrepareOf
    <3>8. \A n \in prop_t, a \in Node : ~ Counts(p, n, a)'
      BY <3>1, <3>3, Zenon DEF Counts
    <3> QED BY <3>1, <3>5, <3>7, <3>8, Zenon DEF Renewed
  <2> QED BY <2>1, <2>2, Zenon
<1>6. \A q \in Node : Renewed(q)
  BY <1>4, <1>5, RenewedUntouched, Zenon
<1>7. \A x \in reqs' : x \in reqs
  BY <1>2, Zenon
<1> QED BY <1>3, <1>6, <1>7, BallotFrame, Zenon

\* A request for a vote goes to a node that promised, a decision to one that
\* accepted.
LEMMA BallotCall ==
  ASSUME VoteInv, LastInstance = 2, Steady, NEW p \in Node, NEW a \in Node, CallNext(p, a)
  PROVE  BallotInv'
<1> DEFINE m == [type |-> phase[p], src |-> p, dst |-> a, instance |-> instance[p],
                 n |-> IF phase[p] = "decide" THEN NoProp ELSE my_n[p],
                 v |-> IF phase[p] = "prepare" THEN NoView ELSE v[p]]
<1>1. /\ TypeInv /\ ProposerOf(p) /\ my_n[p] \in prop_t /\ v[p] \in Views
  BY RunTypes, Zenon
<1>2. /\ a \in todo[p] /\ call[p] = NoCall /\ todo' = [todo EXCEPT ![p] = @ \ {a}]
      /\ UNCHANGED <<proposal, my_n, phase, instance, cur_nodes, newv, accepts, v, highest_seen, reply>>
      /\ reqs' = reqs \cup {m} \/ reqs' = reqs
      /\ UNCHANGED call \/ call' = [call EXCEPT ![p] = m]
  BY Zenon DEF CallNext, configVars
<1>3. reply[p] = NoReply
  BY <1>1, <1>2, Zenon DEF TypeInv, RunOK
<1>4. Renewed(p)
  <2>1. SameBallot(p)
    BY <1>1, <1>2, Zenon DEF SameBallot, TypeInv, TypeOK
  <2>2. SameAnswer(p)
    BY <1>2, <1>3, Zenon DEF SameAnswer, Answer
  <2> QED BY <2>1, <2>2, RenewedSame, Zenon
<1>5. ASSUME NEW q \in Node, q # p PROVE Untouched(q) /\ reply'[q] = reply[q]
  BY <1>1, <1>2, <1>5, Zenon DEF TypeInv, TypeOK, Untouched
<1>6. \A q \in Node : ProposalOf(q)' /\ Renewed(q)
  BY <1>2, <1>4, <1>5, RenewedUntouched, ProposalStays, Zenon
<1>7. /\ m.type = phase[p] /\ m.dst = a
      /\ phase[p] = "accept" => m.n = my_n[p] /\ m.v = v[p]
      /\ phase[p] = "decide" => m.v = v[p]
  BY SMT
<1> HIDE DEF m
<1>8. ASSUME NEW x \in reqs', x = m
      PROVE  RequestOf(x)' /\ (x.type = "accept" => Issued(x.n, x.v))
  <2>1. x.type = "accept" => x.n = my_n[p] /\ Promised(x.dst, x.n) /\ x.dst \in Node
    BY <1>1, <1>2, <1>7, <1>8, Zenon DEF ProposerOf
  <2>2. x.type = "decide" => x.v = v[p] /\ Settled(x.dst, x.v) /\ x.dst \in Node
    BY <1>1, <1>2, <1>7, <1>8, Zenon DEF ProposerOf
  <2>3. x.type = "accept" => Promised(x.dst, x.n)'
    BY <1>1, <2>1, Zenon DEF Steady
  <2>4. x.type = "decide" => Settled(x.dst, x.v)'
    BY <1>1, <2>2, Zenon DEF Steady
  <2>5. x.type = "accept" => Issued(x.n, x.v)
    BY <1>7, <1>8, Zenon DEF Issued
  <2> QED BY <2>3, <2>4, <2>5, Zenon DEF RequestOf
<1>9. \A x \in reqs' : x \in reqs \/ (RequestOf(x)' /\ (x.type = "accept" => Issued(x.n, x.v)))
  BY <1>2, <1>8, Zenon
<1> QED BY <1>6, <1>9, BallotFrame, Zenon

\* What is told up to h is told up to anything above.
LEMMA ToldMore ==
  ASSUME NEW a \in Node, NEW n \in prop_t, NEW h \in prop_t, NEW g \in prop_t,
         Told(a, n, h), Ge(g, h)
  PROVE  Told(a, n, g)
<1>1. \A k \in Props : k \in prop_t
  BY Zenon DEF Props
<1> QED BY <1>1, Order, Zenon DEF Told

\* proposer::prepare counts a promise and keeps the highest vote reported.
LEMMA RenewedByCount ==
  ASSUME VoteInv, LastInstance = 2, Steady, NEW p \in Node, phase[p] = "prepare", Answer(p),
         accepts'[p] = accepts[p] \cup {call[p].dst},
         highest_seen'[p] = IF Gt(reply[p].n_a, highest_seen[p])
                            THEN reply[p].n_a ELSE highest_seen[p],
         v'[p] = IF Gt(reply[p].n_a, highest_seen[p]) THEN reply[p].v_a ELSE v[p],
         my_n'[p] = my_n[p], phase'[p] = phase[p], instance'[p] = instance[p],
         cur_nodes'[p] = cur_nodes[p], reply'[p] = NoReply
  PROVE  Renewed(p)
<1> DEFINE h == highest_seen[p]
           r == reply[p]
<1>1. /\ ProposerOf(p) /\ PrepareOf(p) /\ my_n[p] \in prop_t /\ my_n[p] \in Props /\ v[p] \in Views
      /\ h \in prop_t /\ accepts[p] \in Views
      /\ r.n_a \in prop_t /\ r.v_a \in Views /\ call[p].dst \in Node
  BY RunTypes, Zenon DEF Answer
<1>2. PICK n \in Props : n = my_n[p] /\ n \in prop_t
  BY <1>1, Zenon
<1>3. PICK g \in prop_t, w \in Views : /\ g = IF Gt(r.n_a, h) THEN r.n_a ELSE h
                                       /\ w = IF Gt(r.n_a, h) THEN r.v_a ELSE v[p]
  BY <1>1, Zenon
<1>4. /\ \A a \in accepts[p] : a \in Node /\ Told(a, n, h)
      /\ Learnt(n, h, v[p])
      /\ Told(call[p].dst, n, r.n_a) /\ Learnt(n, r.n_a, r.v_a)
  BY <1>1, <1>2, Zenon DEF PrepareOf, Views
<1>5. Learnt(n, g, w)
  BY <1>3, <1>4, Zenon
<1>6. Ge(g, h) /\ Ge(g, r.n_a)
  BY <1>1, <1>3, OrderIsTotal, Zenon
<1>7. \A a \in accepts'[p] : a \in Node /\ Told(a, n, g)
  <2>1. \A a \in accepts[p] : a \in Node /\ Told(a, n, g)
    BY <1>1, <1>2, <1>4, <1>6, ToldMore, Zenon
  <2>2. Told(call[p].dst, n, g)
    BY <1>1, <1>2, <1>4, <1>6, ToldMore, Zenon
  <2> QED BY <1>1, <2>1, <2>2, Zenon
<1>8. (\A a \in accepts'[p] : Told(a, n, g)') /\ Learnt(n, g, w)'
  BY <1>2, <1>5, <1>7, Zenon DEF Steady
<1>9. PrepareOf(p)'
  <2>1. my_n'[p] = n /\ highest_seen'[p] = g /\ v'[p] = w
    BY <1>2, <1>3, Zenon
  <2>2. \A a \in accepts'[p] : Told(a, my_n[p], highest_seen[p])'
    BY <1>8, <2>1, Zenon
  <2>3. Learnt(my_n[p], highest_seen[p], v[p])'
    BY <1>8, <2>1, Zenon
  <2> QED BY <2>2, <2>3, Zenon DEF PrepareOf, Answer
<1>10. ProposerOf(p)'
  BY <1>1, Zenon DEF ProposerOf
<1>11. \A k \in prop_t, a \in Node : Counts(p, k, a)' => Counts(p, k, a)
  BY Zenon DEF Counts, Answer
<1> QED BY <1>9, <1>10, <1>11, Zenon DEF Renewed

\* proposer::prepare issues nothing.
LEMMA BallotPrepareReply ==
  ASSUME VoteInv, LastInstance = 2, Steady, NEW p \in Node, PrepareReply(p)
  PROVE  BallotInv'
<1>1. TypeInv /\ UNCHANGED <<proposal, reqs, my_n>> /\ phase[p] = "prepare" /\ reply[p] # NoReply
      /\ reply' = [reply EXCEPT ![p] = NoReply]
  BY Zenon DEF PrepareReply, VoteInv, BackInv, LogInv
<1>2. CASE UNCHANGED <<phase, runVars, call>>
  <2>1. reply'[p] = NoReply
    BY <1>1, Zenon DEF TypeInv, TypeOK
  <2>2. \A q \in Node : Untouched(q)
    BY <1>1, <1>2, Zenon DEF runVars, Untouched
  <2>3. Renewed(p)
    BY <2>1, <2>2, RenewedUntouched, Zenon
  <2>4. \A q \in Node : q # p => Untouched(q) /\ reply'[q] = reply[q]
    BY <1>1, <2>2, Zenon DEF TypeInv, TypeOK
  <2> QED BY <1>1, <2>3, <2>4, BallotOwnStep, Zenon
<1>3. CASE ReturnFromRun(p) /\ call' = [call EXCEPT ![p] = NoCall]
  BY <1>1, <1>3, BallotEndOfRun, Zenon
<1>4. CASE call' = [call EXCEPT ![p] = NoCall] /\ UNCHANGED <<phase, runVars>>
  BY <1>1, <1>4, BallotEndOfCall, Zenon DEF runVars
<1>5. CASE /\ reply[p].type = "accept"
           /\ accepts' = [accepts EXCEPT ![p] = @ \cup {call[p].dst}]
           /\ highest_seen' = [highest_seen EXCEPT ![p] = IF Gt(reply[p].n_a, @) THEN reply[p].n_a ELSE @]
           /\ v' = [v EXCEPT ![p] = IF Gt(reply[p].n_a, highest_seen[p]) THEN reply[p].v_a ELSE @]
           /\ call' = [call EXCEPT ![p] = NoCall]
           /\ UNCHANGED <<phase, instance, cur_nodes, newv, todo>>
  <2>1. /\ accepts'[p] = accepts[p] \cup {call[p].dst}
        /\ highest_seen'[p] = IF Gt(reply[p].n_a, highest_seen[p])
                              THEN reply[p].n_a ELSE highest_seen[p]
        /\ v'[p] = IF Gt(reply[p].n_a, highest_seen[p]) THEN reply[p].v_a ELSE v[p]
        /\ reply'[p] = NoReply
    BY <1>1, <1>5, ZenonT(30) DEF TypeInv, TypeOK
  <2>2. Renewed(p)
    BY <1>1, <1>5, <2>1, RenewedByCount, ZenonT(30) DEF Answer
  <2>3. \A q \in Node : q # p => Untouched(q) /\ reply'[q] = reply[q]
    BY <1>1, <1>5, ZenonT(30) DEF TypeInv, TypeOK, Untouched
  <2> QED BY <1>1, <2>2, <2>3, BallotOwnStep, Zenon
<1> QED BY <1>2, <1>3, <1>4, <1>5, ZenonT(30) DEF PrepareReply

\* What a majority accepted is settled for those that are told so.
LEMMA BallotEndAccept ==
  ASSUME VoteInv, LastInstance = 2, Steady, NEW p \in Node, EndAccept(p)
  PROVE  BallotInv'
<1>1. /\ TypeInv /\ UNCHANGED <<proposal, reqs, my_n, call, reply>> /\ phase[p] = "accept"
  BY Zenon DEF EndAccept, configVars, VoteInv, BackInv, LogInv
<1>2. CASE ReturnFromRun(p)
  BY <1>1, <1>2, BallotEndOfRun, Zenon
<1>3. CASE /\ majority(cur_nodes[p], accepts[p])
           /\ phase' = [phase EXCEPT ![p] = "decide"]
           /\ todo' = [todo EXCEPT ![p] = accepts[p]]
           /\ UNCHANGED <<instance, cur_nodes, newv, accepts, v, highest_seen>>
  <2>1. /\ RunOf(p) /\ ProposerOf(p) /\ my_n[p] \in Props /\ my_n[p] \in prop_t
        /\ v[p] \in Views /\ accepts[p] \in Views
    BY <1>1, RunTypes, Zenon
  <2>2. cur_nodes[p] = InitView /\ InitView \in Views
    BY <1>1, <2>1, NodeAssumption, Zenon DEF ProposerOf, Views
  <2>3. IsMajority(accepts[p], InitView)
    BY <1>3, <2>1, <2>2, CountedMajority, Zenon
  <2>4. \A a \in accepts[p] : a \in Node /\ EverAccepted(a, my_n[p], v[p])
    BY <1>1, <2>1, Zenon DEF RunOf, CountOf, Views
  <2>5. IsMajority({b \in Node : EverAccepted(b, my_n[p], v[p])}, InitView)
    <3>1. accepts[p] \subseteq {b \in Node : EverAccepted(b, my_n[p], v[p])}
      BY <2>4, Zenon
    <3> QED BY <2>2, <2>3, <3>1, MajorityGrows, Zenon
  <2>6. \A a \in accepts[p] : Settled(a, v[p])
    BY <2>1, <2>4, <2>5, Zenon DEF Settled
  <2>7. \A a \in accepts[p] : Settled(a, v[p])'
    BY <1>3, <2>1, <2>4, <2>6, Zenon DEF Steady
  <2>8. phase'[p] = "decide" /\ todo'[p] = accepts[p]
    BY <1>1, <1>3, Zenon DEF TypeInv, TypeOK
  <2>9. ProposerOf(p)'
    BY <1>1, <1>3, <2>1, <2>7, <2>8, Zenon DEF ProposerOf
  <2>10. Renewed(p)
    BY <1>1, <1>3, <2>8, <2>9, Zenon DEF Renewed, PrepareOf, Counts, Issued
  <2>11. \A q \in Node : q # p => Untouched(q) /\ reply'[q] = reply[q]
    BY <1>1, <1>3, Zenon DEF TypeInv, TypeOK, Untouched
  <2> QED BY <1>1, <2>10, <2>11, BallotOwnStep, Zenon
<1> QED BY <1>2, <1>3, Zenon DEF EndAccept

-----------------------------------------------------------------------------
(* The step that issues a view *)

\* An acceptor that promised n to p votes no more below n.
LEMMA PromiseBars ==
  ASSUME VoteInv, LastInstance = 2, NEW a \in Node, NEW n \in Props, NEW k \in Props,
         Promised(a, n), Gt(n, k), \A w \in Views : ~ Voted(a, k, w)
  PROVE  WontVote(a, k)
<1>1. AcceptorOf(a) /\ n_h[a] \in prop_t /\ n \in prop_t /\ k \in prop_t
  BY AcceptorTypes, Zenon DEF Props
<1>2. Open(a) => Ge(n_h[a], n)
  BY <1>1, Zenon DEF AcceptorOf
<1>3. Open(a) => Gt(n_h[a], k)
  BY <1>1, <1>2, Order, Zenon
<1> QED BY <1>3, Zenon DEF WontVote

\* The view run() picks once a majority has promised is safe: the value of the
\* highest vote reported, or its own if there was none.
LEMMA PickIsSafe ==
  ASSUME VoteInv, LastInstance = 2, NEW p \in Node, phase[p] = "prepare",
         IsMajority(accepts[p], InitView)
  PROVE  SafeAt(my_n[p], ValueToPropose(p)) /\ ValueToPropose(p) \in Views \ {NoView}
<1> DEFINE n == my_n[p]
           h == highest_seen[p]
           w == ValueToPropose(p)
<1>1. /\ TypeInv /\ PrepareOf(p) /\ n \in Props /\ n \in prop_t /\ h \in prop_t
      /\ v[p] \in Views /\ accepts[p] \in SUBSET Node
  BY RunTypes, Zenon DEF Views
<1>2. w \in Views \ {NoView}
  BY <1>1, Zenon DEF ValueToPropose, TypeInv, TypeOK
<1>3. (\A a \in accepts[p] : Told(a, n, h)) /\ Learnt(n, h, v[p])
  BY <1>1, Zenon DEF PrepareOf
<1>4. ASSUME NEW k \in Props, Gt(n, k)
      PROVE  \E Q \in SUBSET Node : /\ IsMajority(Q, InitView)
                                    /\ \A a \in Q : Voted(a, k, w) \/ WontVote(a, k)
  <2>0. k \in prop_t /\ k.n > 0
    BY Zenon DEF Props
  <2>1. ASSUME NEW a \in accepts[p], \A x \in Views : ~ Voted(a, k, x)
        PROVE  WontVote(a, k)
    BY <1>1, <1>3, <1>4, <2>1, PromiseBars, Zenon DEF Told
  <2>2. CASE ~ (h.n > 0 /\ Ge(h, k))
    <3>1. ASSUME NEW a \in accepts[p], NEW x \in Views, Voted(a, k, x) PROVE FALSE
      <4>1. Ge(h, k)
        BY <1>3, <1>4, <3>1, Zenon DEF Told
      <4>2. h.n > 0
        BY <1>1, <2>0, <4>1, Order, Zenon
      <4> QED BY <2>2, <4>1, <4>2, Zenon
    <3> QED BY <1>1, <2>1, <3>1, Zenon
  <2>3. CASE h.n > 0 /\ Ge(h, k)
    <3>1. PICK b \in Node : Voted(b, h, v[p])
      BY <1>3, <2>3, Zenon DEF Learnt
    <3>2. Issued(h, v[p])
      BY <3>1, Zenon DEF Issued
    <3>3. v[p] # NoView /\ SafeAt(h, v[p]) /\ \A x \in Views : Issued(h, x) => x = v[p]
      BY <1>1, <3>2, Zenon DEF VoteInv, BallotInv, IssueOf
    <3>4. w = v[p]
      BY <3>3, Zenon DEF ValueToPropose
    <3>5. CASE Gt(h, k)
      BY <3>3, <3>4, <3>5, Zenon DEF SafeAt
    <3>6. CASE h = k
      <4>1. ASSUME NEW a \in accepts[p], NEW x \in Views, Voted(a, k, x)
            PROVE  Voted(a, k, w)
        <5>1. Issued(h, x)
          BY <1>1, <3>6, <4>1, Zenon DEF Issued
        <5> QED BY <3>3, <3>4, <4>1, <5>1, Zenon
      <4> QED BY <1>1, <2>1, <4>1, Zenon
    <3> QED BY <1>1, <2>0, <2>3, <3>5, <3>6, Order, Zenon
  <2> QED BY <2>2, <2>3, Zenon
<1> QED BY <1>2, <1>4, Zenon DEF SafeAt

\* A number whose majority is still being counted has not been used.
LEMMA NumberIsUnused ==
  ASSUME VoteInv, LastInstance = 2, NEW p \in Node, phase[p] = "prepare",
         IsMajority(accepts[p], InitView), NEW w \in Views
  PROVE  ~ Issued(my_n[p], w)
<1> SUFFICES ASSUME Issued(my_n[p], w) PROVE FALSE
  OBVIOUS
<1>1. my_n[p] \in prop_t /\ InitView \in Views
  BY RunTypes, NodeAssumption, Zenon DEF Views
<1>2. Spent(my_n[p])
  BY <1>1, Zenon DEF VoteInv, BallotInv, IssueOf
<1>3. PICK Q \in SUBSET Node : /\ IsMajority(Q, InitView)
                               /\ \A a \in Q : \A q \in Node : ~ Counts(q, my_n[p], a)
  BY <1>2, Zenon DEF Spent
<1>4. PICK a \in InitView : a \in Q /\ a \in accepts[p]
  BY <1>1, <1>3, MajoritiesMeet, Zenon
<1> QED BY <1>3, <1>4, Zenon DEF Counts

\* After the prepare loop one view is issued under the number of the run.
LEMMA BallotEndPrepare ==
  ASSUME VoteInv, LastInstance = 2, Steady, NEW p \in Node, EndPrepare(p)
  PROVE  BallotInv'
<1>1. /\ TypeInv /\ UNCHANGED <<proposal, reqs, my_n, call, reply>> /\ phase[p] = "prepare"
  BY Zenon DEF EndPrepare, configVars, VoteInv, BackInv, LogInv
<1>2. CASE ReturnFromRun(p)
  BY <1>1, <1>2, BallotEndOfRun, Zenon
<1>3. CASE /\ majority(cur_nodes[p], accepts[p])
           /\ phase' = [phase EXCEPT ![p] = "accept"]
           /\ v' = [v EXCEPT ![p] = ValueToPropose(p)]
           /\ todo' = [todo EXCEPT ![p] = accepts[p]]
           /\ accepts' = [accepts EXCEPT ![p] = {}]
           /\ newv' = [newv EXCEPT ![p] = NoView]
           /\ highest_seen' = [highest_seen EXCEPT ![p] = NoProp]
           /\ UNCHANGED <<instance, cur_nodes>>
  <2>1. /\ ProposerOf(p) /\ PrepareOf(p) /\ my_n[p] \in Props /\ my_n[p] \in prop_t
        /\ accepts[p] \in Views
    BY <1>1, RunTypes, Zenon
  <2>2. cur_nodes[p] = InitView /\ InitView \in Views
    BY <1>1, <2>1, NodeAssumption, Zenon DEF ProposerOf, Views
  <2>3. IsMajority(accepts[p], InitView)
    BY <1>3, <2>1, <2>2, CountedMajority, Zenon
  <2>4. PICK n \in Props, w \in Views :
          n = my_n[p] /\ n \in prop_t /\ w = ValueToPropose(p) /\ w # NoView /\ SafeAt(n, w)
    BY <1>1, <2>1, <2>3, PickIsSafe, Zenon
  <2>5. \A x \in Views : ~ Issued(n, x)
    BY <1>1, <2>3, <2>4, NumberIsUnused, Zenon
  <2>6. phase'[p] = "accept" /\ todo'[p] = accepts[p] /\ v'[p] = w /\ my_n'[p] = n
    BY <1>1, <1>3, <2>4, Zenon DEF TypeInv, TypeOK
  <2>7. \A a \in accepts[p] : a \in Node /\ Promised(a, n) /\ Promised(a, n)'
    BY <1>1, <2>1, <2>4, Zenon DEF PrepareOf, Told, Steady, Views
  <2>8. ProposerOf(p)' /\ PrepareOf(p)'
    <3>1. \A a \in todo'[p] : Promised(a, my_n[p])'
      BY <2>6, <2>7, Zenon
    <3>2. instance'[p] = 2 /\ cur_nodes'[p] = InitView /\ my_n'[p].n > 0 /\ my_n'[p].m = p
      BY <1>1, <1>3, <2>1, Zenon DEF ProposerOf
    <3> QED BY <2>6, <3>1, <3>2, Zenon DEF ProposerOf, PrepareOf
  <2>9. ASSUME NEW q \in Node, q # p PROVE Renewed(q)
    <3>1. Untouched(q) /\ reply'[q] = reply[q]
      BY <1>1, <1>3, <2>9, ZenonT(30) DEF TypeInv, TypeOK, Untouched
    <3> QED BY <3>1, RenewedUntouched, Zenon
  <2>10. ASSUME NEW k \in prop_t, NEW x \in Views, Issued(k, x)'
         PROVE  Issued(k, x) \/ (k = n /\ x = w)
    <3>1. CASE \E m \in reqs' : m.type = "accept" /\ m.n = k /\ m.v = x
      BY <1>1, <3>1, Zenon DEF Issued
    <3>2. CASE \E a \in Node : Voted(a, k, x)'
      BY <3>2, Zenon DEF Steady
    <3>3. CASE \E q \in Node : phase'[q] \in {"accept", "decide"} /\ my_n'[q] = k /\ v'[q] = x
      BY <2>6, <2>9, <3>3, Zenon DEF Renewed
    <3> QED BY <2>10, <3>1, <3>2, <3>3, Zenon DEF Issued
  <2>11. Spent(n)'
    <3>1. ASSUME NEW a \in accepts[p], NEW q \in Node PROVE ~ Counts(q, n, a)'
      <4>1. CASE q = p
        BY <2>6, <4>1, Zenon DEF Counts
      <4>2. CASE q # p
        <5>1. phase'[q] = "prepare" => my_n'[q].m = q
          BY <2>9, <4>2, Zenon DEF Renewed, ProposerOf
        <5>2. n.m = p
          BY <1>1, <2>1, <2>4, Zenon DEF ProposerOf
        <5> QED BY <4>2, <5>1, <5>2, Zenon DEF Counts
      <4> QED BY <4>1, <4>2, Zenon
    <3>2. PICK Q \in SUBSET Node : Q = accepts[p]
      BY <2>1, Zenon DEF Views
    <3>3. IsMajority(Q, InitView) /\ \A a \in Q : Promised(a, n)' /\ \A q \in Node : ~ Counts(q, n, a)'
      BY <2>3, <2>7, <3>1, <3>2, Zenon
    <3> QED BY <3>3, ZenonT(30) DEF Spent, IsMajority
  <2>12. ASSUME NEW k \in prop_t, NEW x \in Views, Issued(k, x)
         PROVE  SafeAt(k, x)' /\ Spent(k)' /\ k \in Props /\ x # NoView /\ k # n
    <3>1. SafeAt(k, x) /\ Spent(k) /\ k \in Props /\ x # NoView
      BY <2>12, Zenon DEF VoteInv, BallotInv, IssueOf
    <3>2. PICK Q \in SUBSET Node :
            /\ IsMajority(Q, InitView)
            /\ \A a \in Q : Promised(a, k) /\ \A q \in Node : ~ Counts(q, k, a)
      BY <3>1, Zenon DEF Spent
    <3>3. ASSUME NEW a \in Q, NEW q \in Node PROVE Promised(a, k)' /\ ~ Counts(q, k, a)'
      <4>1. CASE q = p
        BY <2>6, <3>2, <4>1, Zenon DEF Counts, Steady
      <4>2. CASE q # p
        BY <2>9, <3>2, <4>2, Zenon DEF Renewed, Steady
      <4> QED BY <4>1, <4>2, Zenon
    <3>4. Spent(k)'
      BY <3>2, <3>3, ZenonT(30) DEF Spent, IsMajority
    <3> QED BY <2>5, <2>12, <3>1, <3>4, Zenon DEF Steady
  <2>13. ASSUME NEW k \in prop_t, NEW x \in Views PROVE IssueOf(k, x)'
    <3> SUFFICES ASSUME Issued(k, x)'
                 PROVE  /\ k \in Props /\ x # NoView
                        /\ SafeAt(k, x)' /\ Spent(k)'
                        /\ \A y \in Views : Issued(k, y)' => y = x
      BY Zenon DEF IssueOf
    <3>1. CASE k = n
      <4>1. \A y \in Views : Issued(k, y)' => y = w
        BY <2>5, <2>10, <3>1, Zenon
      <4>2. x = w
        BY <4>1, Zenon
      <4> QED BY <2>4, <2>11, <3>1, <4>1, <4>2, Zenon DEF Steady
    <3>2. CASE k # n
      <4>1. \A y \in Views : Issued(k, y)' => Issued(k, y)
        BY <2>10, <3>2, Zenon
      <4>2. \A y \in Views : Issued(k, y) => y = x
        BY <4>1, Zenon DEF VoteInv, BallotInv, IssueOf
      <4> QED BY <2>12, <4>1, <4>2, Zenon
    <3> QED BY <3>1, <3>2, Zenon
  <2>14. ASSUME NEW m \in reqs' PROVE RequestOf(m)'
    <3>1. m.dst \in Node /\ m.n \in prop_t /\ m.v \in Views /\ RequestOf(m)
      BY <1>1, RequestTypes, Zenon DEF VoteInv, BallotInv, TypeInv, TypeOK
    <3> QED BY <3>1, Zenon DEF RequestOf, Steady
  <2>15. \A q \in Node : ProposalOf(q)' /\ ProposerOf(q)' /\ PrepareOf(q)'
    BY <1>1, <2>8, <2>9, ProposalStays, Zenon DEF Renewed
  <2> QED BY <2>13, <2>14, <2>15, Zenon DEF BallotInv
<1> QED BY <1>2, <1>3, Zenon DEF EndPrepare

-----------------------------------------------------------------------------
(* At most one view is chosen *)

\* The first view is settled, nothing is proposed.
LEMMA VoteInit == LastInstance = 2 /\ Init => VoteInv
<1> SUFFICES ASSUME LastInstance = 2, Init PROVE VoteInv
  OBVIOUS
<1>1. BackInv /\ ConfigInv /\ TypeInv
  BY BackInit, ConfigInit, Zenon DEF BackInv, LogInv
<1>2. ASSUME NEW a \in Node
      PROVE  /\ plog[a] = <<Done(1, InitView)>> /\ instance_h[a] = 1
             /\ v_a[a] = NoView /\ n_a[a] = Prop(0, a)
  BY Zenon DEF Init
<1>3. ASSUME NEW a \in Node
      PROVE  /\ FirstOnly(a)
             /\ \A n \in prop_t : ~ Promised(a, n)
             /\ \A n \in prop_t, w \in Views : ~ Voted(a, n, w)
  <2>1. \A k \in DOMAIN plog[a] : plog[a][k] = Done(1, InitView)
    BY <1>2
  <2>2. /\ \A n \in prop_t : Done(1, InitView) # PropSeen(n)
        /\ \A n \in prop_t, w \in Views : Done(1, InitView) # Accepted(n, w)
        /\ Done(1, InitView).instance = 1
    BY DEF Done, PropSeen, Accepted
  <2> QED BY <2>1, <2>2, Zenon DEF FirstOnly, Promised, Voted
<1>4. ASSUME NEW a \in Node PROVE AcceptorOf(a)
  <2>1. values[a][1] = InitView
    BY DEF Init, Instances
  <2>2. instance_h[a] >= 1 /\ Open(a) /\ ~ (n_a[a].n > 0)
    <3>1. instance_h[a] = 1 /\ n_a[a] = Prop(0, a)
      BY <1>2, Zenon
    <3> QED BY <3>1 DEF Open, Prop
  <2>3. \A k \in Props : k \in prop_t
    BY Zenon DEF Props
  <2> QED BY <1>2, <1>3, <2>1, <2>2, <2>3, Zenon DEF AcceptorOf
<1>5. \A p \in Node : ProposalOf(p) /\ ProposerOf(p) /\ PrepareOf(p)
  BY Zenon DEF Init, ProposalOf, ProposerOf, PrepareOf
<1>6. \A m \in reqs : RequestOf(m)
  BY Zenon DEF Init
<1>7. \A n \in prop_t, w \in Views : ~ Issued(n, w)
  BY <1>3, Zenon DEF Init, Issued
<1> QED BY <1>1, <1>4, <1>5, <1>6, <1>7, Zenon DEF VoteInv, BallotInv, IssueOf

\* Every step keeps what is issued safe.
LEMMA VoteNext == LastInstance = 2 /\ VoteInv /\ [Next]_vars => VoteInv'
<1> SUFFICES ASSUME LastInstance = 2, VoteInv, [Next]_vars PROVE BallotInv'
  BY BackNext, ConfigNext, AcceptorsGrow, Zenon DEF VoteInv
<1>1. Steady /\ TypeInv
  BY StepIsSteady, Zenon DEF VoteInv, BackInv, LogInv
<1>2. CASE UNCHANGED vars
  <2>1. \A q \in Node : Untouched(q) /\ reply'[q] = reply[q] /\ proposal'[q] = proposal[q]
    BY <1>2, Zenon DEF vars, configVars, runVars, Untouched
  <2>2. \A q \in Node : ProposalOf(q)' /\ Renewed(q)
    BY <1>1, <2>1, RenewedUntouched, ProposalStays, Zenon
  <2>3. \A x \in reqs' : x \in reqs
    BY <1>2, Zenon DEF vars
  <2> QED BY <1>1, <2>2, <2>3, BallotFrame, Zenon
<1>3. ASSUME NEW m \in reqs, preparereq(m) \/ acceptreq(m) \/ decidereq(m) PROVE BallotInv'
  BY <1>1, <1>3, BallotPrepare, BallotAccept, BallotDecide, Zenon
<1>4. ASSUME NEW p \in Node, TimeOut(p) PROVE BallotInv'
  BY <1>1, <1>4, BallotEndOfCall, Zenon DEF TimeOut, configVars, runVars
<1>5. ASSUME NEW p \in Node, DecideReply(p) PROVE BallotInv'
  BY <1>1, <1>5, BallotEndOfCall, Zenon DEF DecideReply, configVars, runVars
<1>6. ASSUME NEW p \in Node, AcceptReply(p) PROVE BallotInv'
  <2>1. \E S : accepts' = [accepts EXCEPT ![p] = S]
    BY <1>6, Zenon DEF AcceptReply
  <2> QED BY <1>1, <1>6, <2>1, BallotEndOfCall, Zenon DEF AcceptReply, configVars
<1>7. ASSUME NEW p \in Node, EndDecide(p) PROVE BallotInv'
  BY <1>1, <1>7, BallotEndOfRun, Zenon DEF EndDecide, configVars
<1>8. ASSUME NEW p \in Node, ProposerStep(p) PROVE BallotInv'
  BY <1>1, <1>4, <1>5, <1>6, <1>7, <1>8, BallotRun, BallotCall, BallotPrepareReply,
     BallotEndPrepare, BallotEndAccept, Zenon DEF ProposerStep
<1>9. ASSUME NEW p \in Node, ConfigStep(p) \/ Crash(p) PROVE BallotInv'
  BY <1>1, <1>9, BallotConfig, BallotRestart, Zenon DEF Crash
<1> QED BY <1>2, <1>3, <1>8, <1>9, Zenon DEF Next

\* What has a chosen view is issued.
LEMMA ChosenIsIssued ==
  ASSUME VoteInv, NEW n \in prop_t, NEW w \in Views, Chosen(n, w)
  PROVE  Issued(n, w) /\ n \in Props
<1>1. InitView \in Views
  BY NodeAssumption, Zenon DEF Views
<1>2. PICK a \in InitView : a \in {b \in Node : Voted(b, n, w)}
  BY <1>1, MajorityNotEmpty, Zenon DEF Chosen
<1>3. Issued(n, w)
  BY <1>2, Zenon DEF Issued
<1> QED BY <1>3, Zenon DEF VoteInv, BallotInv, IssueOf

\* A view that is issued above a chosen one is the same.
LEMMA SafeMeetsChosen ==
  ASSUME VoteInv, NEW n \in prop_t, NEW w \in Views, NEW k \in prop_t, NEW x \in Views,
         Issued(n, w), Chosen(k, x), Gt(n, k)
  PROVE  w = x
<1>1. SafeAt(n, w) /\ k \in Props /\ Issued(k, x) /\ InitView \in Views
  BY ChosenIsIssued, NodeAssumption, Zenon DEF VoteInv, BallotInv, IssueOf, Views
<1>2. PICK Q \in SUBSET Node : /\ IsMajority(Q, InitView)
                               /\ \A a \in Q : Voted(a, k, w) \/ WontVote(a, k)
  BY <1>1, Zenon DEF SafeAt
<1>3. PICK a \in InitView : a \in Q /\ a \in {b \in Node : Voted(b, k, x)}
  BY <1>1, <1>2, MajoritiesMeet, Zenon DEF Chosen
<1>4. Voted(a, k, w)
  BY <1>2, <1>3, Zenon DEF WontVote
<1>5. Issued(k, w)
  BY <1>3, <1>4, Zenon DEF Issued
<1> QED BY <1>1, <1>5, Zenon DEF VoteInv, BallotInv, IssueOf

\* Of two chosen views, the later was safe when it was issued.
LEMMA ChosenAgree ==
  ASSUME VoteInv, NEW n \in prop_t, NEW w \in Views, NEW k \in prop_t, NEW x \in Views,
         Chosen(n, w), Chosen(k, x)
  PROVE  w = x
<1>1. Issued(n, w) /\ Issued(k, x)
  BY ChosenIsIssued, Zenon
<1>2. CASE n = k
  BY <1>1, <1>2, Zenon DEF VoteInv, BallotInv, IssueOf
<1> QED BY <1>1, <1>2, SafeMeetsChosen, Order, Zenon

\* In the instance that is contested at most one view collects a majority of
\* the votes that acceptors cast before they commit, whatever the proposers
\* do, and through crashes, lost and late requests.  LastInstance = 2 says
\* that no later instance is started.
THEOREM AtMostOneViewIsChosen ==
  ASSUME LastInstance = 2
  PROVE  Spec => []VoteAgreement
<1>1. VoteInv => VoteAgreement
  <2> SUFFICES ASSUME VoteInv, NEW x \in AcceptedRecords, NEW y \in AcceptedRecords,
                      Chosen(x.n, x.v), Chosen(y.n, y.v)
               PROVE  x.v = y.v
    BY Zenon DEF VoteAgreement
  <2>1. ASSUME NEW r \in AcceptedRecords PROVE r.n \in prop_t /\ r.v \in Views
    <3>1. PICK a \in Node : \E k \in DOMAIN plog[a] : r = plog[a][k] /\ r.type = "accepted"
      <4>1. PICK a \in Node :
              r \in {plog[a][k] : k \in {j \in DOMAIN plog[a] : plog[a][j].type = "accepted"}}
        BY SMTT(30) DEF AcceptedRecords
      <4> QED BY <4>1, Zenon
    <3>2. plog[a] \in Seq(LogRecord)
      BY Zenon DEF VoteInv, BackInv, LogInv, TypeInv, TypeOK
    <3>3. r \in LogRecord
      BY <3>1, <3>2
    <3> QED BY <3>1, <3>3, RecordTypes, Zenon
  <2> QED BY <2>1, ChosenAgree, Zenon
<1>2. Init => VoteInv
  BY VoteInit, Zenon
<1>3. VoteInv /\ [Next]_vars => VoteInv'
  BY VoteNext, Zenon
<1> QED BY <1>1, <1>2, <1>3, PTL DEF Spec

\* Without an acceptreq after the commit, what was accepted was voted for.
LEMMA AcceptedIsVoted ==
  ASSUME ~ LateAccept, TypeInv, NEW a \in Node, NEW n \in prop_t, NEW w \in Views,
         EverAccepted(a, n, w)
  PROVE  Voted(a, n, w)
<1>1. PICK k \in DOMAIN plog[a] : plog[a][k] = Accepted(n, w)
  BY Zenon DEF EverAccepted
<1>2. plog[a][k].type = "accepted"
  BY <1>1 DEF Accepted
<1>3. \A j \in 1 .. (k - 1) : j \in DOMAIN plog[a] /\ j < k
  BY DEF TypeInv, TypeOK
<1>4. \A j \in 1 .. (k - 1) : plog[a][j].type = "done" => plog[a][j].instance = 1
  BY <1>2, <1>3, Zenon DEF LateAccept
<1> QED BY <1>1, <1>4, Zenon DEF Voted

\* A majority that accepted is then a majority of votes.
LEMMA AcceptedIsChosen ==
  ASSUME ~ LateAccept, TypeInv, NEW n \in prop_t, NEW w \in Views,
         IsMajority({b \in Node : EverAccepted(b, n, w)}, InitView)
  PROVE  Chosen(n, w)
<1>1. {b \in Node : EverAccepted(b, n, w)} \subseteq {b \in Node : Voted(b, n, w)}
  BY AcceptedIsVoted, Zenon
<1>2. InitView \in Views
  BY NodeAssumption, Zenon DEF Views
<1> QED BY <1>1, <1>2, MajorityGrows, Zenon DEF Chosen

\* Committed views agree, since a majority accepted each.
LEMMA CommitsAgree ==
  ASSUME VoteInv, LastInstance = 2, ~ LateAccept
  PROVE  Agreement
<1> SUFFICES ASSUME NEW a \in Node, NEW b \in Node, NEW i \in Instances,
                    values[a][i] # NoView, values[b][i] # NoView
             PROVE  values[a][i] = values[b][i]
  BY Zenon DEF Agreement
<1>1. TypeInv
  BY Zenon DEF VoteInv, BackInv, LogInv
<1>2. Instances = {1, 2} /\ values[a][i] \in Views /\ values[b][i] \in Views
  BY <1>1, AcceptorTypes, Zenon DEF TypeInv, TypeOK
<1>3. CASE i = 1
  BY <1>3, Zenon DEF VoteInv, AcceptorOf
<1>4. CASE i = 2
  <2>1. ASSUME NEW w \in Views, Backed(i, w)
        PROVE  \E n \in prop_t : Chosen(n, w)
    <3>1. PICK q \in Node, n \in prop_t :
            IsMajority({c \in Node : EverAccepted(c, n, w)}, values[q][i - 1])
      BY <2>1, Zenon DEF Backed
    <3>2. i - 1 = 1
      BY <1>4
    <3>3. values[q][i - 1] = InitView
      BY <3>2, Zenon DEF VoteInv, AcceptorOf
    <3>4. Chosen(n, w)
      BY <1>1, <1>2, <2>1, <3>1, <3>3, AcceptedIsChosen, Zenon
    <3> QED BY <3>4, Zenon
  <2>2. i \in Instances \ {1}
    BY <1>4
  <2>3. Backed(i, values[a][i]) /\ Backed(i, values[b][i])
    BY <2>2, Zenon DEF VoteInv, BackInv, DecisionInv
  <2> QED BY <1>2, <2>1, <2>3, ChosenAgree, Zenon
<1> QED BY <1>2, <1>3, <1>4, Zenon

\* What is decided is the last vote of the acceptor that is told so: a vote
\* above the number that was settled is for the same view.
LEMMA DecisionsAreLastVotes ==
  ASSUME VoteInv, LastInstance = 2, ~ LateAccept
  PROVE  DecidedIsLastVote
<1> SUFFICES ASSUME NEW m \in reqs, m.type = "decide", m.instance = instance_h[m.dst] + 1
             PROVE  v_a[m.dst] = m.v
  BY Zenon DEF DecidedIsLastVote
<1> DEFINE a == m.dst
           w == m.v
<1>1. TypeInv /\ a \in Node /\ w \in Views /\ m.instance \in Instances /\ Settled(a, w)
  BY RequestTypes, Zenon DEF VoteInv, BallotInv, BackInv, LogInv, TypeInv, TypeOK, RequestOf
<1>2. /\ AcceptorOf(a) /\ n_a[a] \in prop_t /\ v_a[a] \in Views
      /\ instance_h[a] \in {1, 2} /\ Instances = {1, 2}
  BY <1>1, AcceptorTypes, Zenon
<1>3. Open(a)
  BY <1>1, <1>2 DEF Open
<1>4. PICK n \in Props : /\ EverAccepted(a, n, w)
                         /\ IsMajority({b \in Node : EverAccepted(b, n, w)}, InitView)
  BY <1>1, Zenon DEF Settled
<1>5. n \in prop_t /\ n.n > 0
  BY Zenon DEF Props
<1>6. Chosen(n, w) /\ Voted(a, n, w)
  BY <1>1, <1>4, <1>5, AcceptedIsChosen, AcceptedIsVoted, Zenon
<1>7. Ge(n_a[a], n)
  BY <1>1, <1>2, <1>3, <1>6, Zenon DEF AcceptorOf
<1>8. n_a[a].n > 0
  BY <1>2, <1>5, <1>7, Order, Zenon
<1>9. Voted(a, n_a[a], v_a[a])
  BY <1>2, <1>3, <1>8, Zenon DEF AcceptorOf
<1>10. Issued(n_a[a], v_a[a]) /\ Issued(n, w)
  BY <1>1, <1>6, <1>9, Zenon DEF Issued
<1>11. CASE n_a[a] = n
  BY <1>1, <1>2, <1>5, <1>10, <1>11, Zenon DEF VoteInv, BallotInv, IssueOf
<1>12. CASE Gt(n_a[a], n)
  BY <1>1, <1>2, <1>5, <1>6, <1>10, <1>12, SafeMeetsChosen, Zenon
<1> QED BY <1>2, <1>5, <1>7, <1>11, <1>12, Order, Zenon

\* In the instance that is contested, nodes never commit different views and
\* the VERIFY of decidereq never fails, unless an acceptor took an acceptreq
\* after its commit.  LastInstance = 2 says that no later instance is started.
THEOREM OneViewUnlessLate ==
  ASSUME LastInstance = 2
  PROVE  Spec => []AgreementUnlessLate
<1>1. VoteInv => AgreementUnlessLate
  BY CommitsAgree, DecisionsAreLastVotes, Zenon DEF AgreementUnlessLate
<1>2. Init => VoteInv
  BY VoteInit, Zenon
<1>3. VoteInv /\ [Next]_vars => VoteInv'
  BY VoteNext, Zenon
<1> QED BY <1>1, <1>2, <1>3, PTL DEF Spec

=============================================================================
