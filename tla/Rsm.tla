-------------------------------- MODULE Rsm ---------------------------------
(***************************************************************************)
(* The replicated state machine over the view service: the recovery thread *)
(* of rsm.cc, joinreq, commit_change and set_primary, with the upcalls,    *)
(* heartbeats and proposals of config.cc that drive them and the mutexes   *)
(* they hold across modules.                                               *)
(*                                                                         *)
(* Of Paxos (module Paxos) there is what the layers above use: one value   *)
(* per instance, learned by the nodes one by one.  A view is the list of   *)
(* its members in the order of their joining.  State transfer and the      *)
(* invocation of requests are stubs in rsm.cc.                             *)
(***************************************************************************)
EXTENDS Naturals, FiniteSets, SequencesExt

CONSTANTS
  N,            \* the nodes are 1 .. N
  Members,      \* nodes 1 .. Members form the view in force at the beginning
  MaxEvents     \* bound: runs of the proposers and crashes

ASSUME RsmAssumption == N \in Nat /\ Members \in 1 .. N /\ MaxEvents \in Nat

Node == 1 .. N

VARIABLES
  views,                 \* the value of every instance decided
  offered,               \* the values proposed for the next instance
  events,                \* how often Event has happened
  instance_h, upcalls,   \* acceptor, and its upcalls to config under way
  myvid, changes,        \* config, and its upcalls to rsm under way
  run,                   \* proposer::run
  beat,                  \* whether a heartbeat handler waits with cfg_mutex
  primary, vid_commit, vid_insync, inviewchange, myvs,   \* rsm
  rec,                   \* where the recovery thread is
  asked,                 \* the node it asked to be let in
  joins,                 \* the joinreq handlers and their answers
  died                   \* which nodes have died, and of what

acceptor == <<instance_h, upcalls>>
config   == <<myvid, changes>>
rsm      == <<primary, vid_commit, vid_insync, inviewchange, myvs>>
joining  == <<asked, joins>>
vars == <<views, offered, events, acceptor, config, run, beat, rsm, rec, joining, died>>

\* acc->value(i) read by config::members: empty for instance 0.
View(i) == IF i = 0 THEN <<>> ELSE views[i]
ismember(m, i) == m \in Range(View(i))

Idle == [stage |-> "idle", instance |-> 0, v |-> <<>>, todo |-> <<>>]

\* Nodes 1 .. Members have joined one after the other and synchronised; the
\* others have just been started, with node 1 as their first.
Init ==
  /\ views = [i \in 1 .. Members |-> [j \in 1 .. i |-> j]]
  /\ offered = {} /\ events = 0
  /\ instance_h = [n \in Node |-> IF n <= Members THEN Members ELSE 0]
  /\ myvid = instance_h /\ vid_commit = instance_h
  /\ vid_insync = instance_h /\ myvs = instance_h
  /\ upcalls = [n \in Node |-> {}] /\ changes = upcalls
  /\ run = [n \in Node |-> Idle]
  /\ beat = [n \in Node |-> FALSE]
  /\ primary = [n \in Node |-> 1]
  /\ inviewchange = [n \in Node |-> n > Members]
  /\ rec = [n \in Node |-> IF n <= Members THEN "sleep" ELSE "top"]
  /\ asked = [n \in Node |-> 0]
  /\ joins = {}
  /\ died = {}

\* cfg_mutex is held across a call only by a heartbeat handler that waits
\* for the proposer's mutex, and that one only by a proposer in an upcall.
CfgFree(n) == ~ beat[n]
ProposerFree(n) == run[n].stage # "upcall"

\* What starts a change of the views is bounded.
Event == events < MaxEvents /\ events' = events + 1

\* The node that a process started again is given to join through.
First(n) == IF n = 1 THEN 2 ELSE 1

\* Process n dies, of a crash or at the assertion of function why, and is
\* started again.  The log keeps the instances.
Die(n, why) ==
  /\ died' = died \cup {<<n, why>>}
  /\ upcalls' = [upcalls EXCEPT ![n] = {}]
  /\ myvid' = [myvid EXCEPT ![n] = instance_h[n]]
  /\ changes' = [changes EXCEPT ![n] = {}]
  /\ beat' = [beat EXCEPT ![n] = FALSE]
  /\ primary' = [primary EXCEPT ![n] = First(n)]
  /\ vid_commit' = [vid_commit EXCEPT ![n] = 0]
  /\ vid_insync' = [vid_insync EXCEPT ![n] = 0]
  /\ inviewchange' = [inviewchange EXCEPT ![n] = TRUE]
  /\ myvs' = [myvs EXCEPT ![n] = 0]
  /\ rec' = [rec EXCEPT ![n] = "top"]
  /\ asked' = [asked EXCEPT ![n] = 0]
  /\ joins' = {j \in joins : j.to # n /\ (j.from = n => j.stage \notin {"asked", "answer"})}
  /\ UNCHANGED <<views, offered, instance_h>>

Crash(n) == Event /\ Die(n, "crash") /\ run' = [run EXCEPT ![n] = Idle]

-----------------------------------------------------------------------------
(* rsm: commit_change_wo and set_primary *)

\* Mutant: the previous view is taken to be the one before it.
set_primary_older(n, vid) ==
  LET stay == SelectSeq(View(IF vid > 1 THEN vid - 2 ELSE 0), LAMBDA m : ismember(m, vid))
  IN  IF ismember(primary[n], vid) THEN primary[n]
      ELSE IF stay = <<>> THEN 0
      ELSE Head(stay)

\* The primary stays if it is in the new view; otherwise it is the first
\* member of the previous view that is.  0: there is none.
set_primary(n, vid) ==
  LET stay == SelectSeq(View(vid - 1), LAMBDA m : ismember(m, vid))
  IN  IF ismember(primary[n], vid) THEN primary[n]
      ELSE IF stay = <<>> THEN 0
      ELSE Head(stay)

\* What a view change does to rsm at node n, whose recovery thread is at pc:
\* nothing unless the view is newer.
commit_change_wo(n, vid, pc) ==
  IF vid <= vid_commit[n]
  THEN /\ rec' = [rec EXCEPT ![n] = pc]
       /\ UNCHANGED <<vid_commit, inviewchange, primary, died>>
  ELSE /\ vid_commit' = [vid_commit EXCEPT ![n] = vid]
       /\ inviewchange' = [inviewchange EXCEPT ![n] = TRUE]
       /\ primary' = [primary EXCEPT ![n] = set_primary(n, vid)]
       /\ died' = IF primary'[n] = 0 THEN died \cup {<<n, "set_primary">>} ELSE died
       /\ rec' = [rec EXCEPT ![n] = IF pc = "sleep" THEN "top" ELSE pc]

\* proposer::run returns at node n; the joinreq handler that called it goes on.
RunEnds(n) ==
  /\ run' = [run EXCEPT ![n] = Idle]
  /\ joins' = {IF j.to = n /\ j.stage = "proposing" THEN [j EXCEPT !.stage = "added"] ELSE j :
                 j \in joins}

\* config's upcall into rsm; a proposer that made the upcall returns.
commit_change(n, vid) ==
  /\ CfgFree(n) /\ vid \in changes[n]
  /\ changes' = [changes EXCEPT ![n] = @ \ {vid}]
  /\ commit_change_wo(n, vid, rec[n])
  /\ IF run[n].stage = "upcall" /\ run[n].instance = vid
     THEN RunEnds(n) ELSE UNCHANGED <<run, joins>>
  /\ UNCHANGED <<views, offered, events, acceptor, myvid, beat, vid_insync, myvs, asked>>

-----------------------------------------------------------------------------
(* rsm: the recovery thread *)

\* The view is in force, and the thread sleeps.
InForce(n) ==
  /\ myvs' = [myvs EXCEPT ![n] = vid_commit[n]]
  /\ inviewchange' = [inviewchange EXCEPT ![n] = FALSE]
  /\ rec' = [rec EXCEPT ![n] = "sleep"]

\* Mutant: vid_commit is not looked at again.
RoundEnds_once(n) == InForce(n)

\* The end of a primary's round: again if there was a view change meanwhile.
RoundEnds(n) ==
  \/ /\ vid_insync[n] # vid_commit[n]
     /\ rec' = [rec EXCEPT ![n] = "top"]
     /\ UNCHANGED <<myvs, inviewchange>>
  \/ vid_insync[n] = vid_commit[n] /\ InForce(n)

\* Not a member: ask the primary to be let in.  A member synchronises: a
\* primary gives up rsm_mutex for a while, a backup does not.
Recover(n) ==
  /\ CfgFree(n) /\ rec[n] = "top"
  /\ \/ /\ ~ ismember(n, vid_commit[n])
        /\ rec' = [rec EXCEPT ![n] = "joining"]
        /\ asked' = [asked EXCEPT ![n] = primary[n]]
        /\ \A j \in joins : <<j.from, j.to>> # <<n, primary[n]>>   \* bound: one handler
        /\ joins' = joins \cup {[from |-> n, to |-> primary[n], stage |-> "asked", vid |-> 0]}
        /\ UNCHANGED <<vid_insync, inviewchange, myvs>>
     \/ /\ ismember(n, vid_commit[n])
        /\ vid_insync' = [vid_insync EXCEPT ![n] = vid_commit[n]]
        /\ \/ /\ primary[n] = n
              /\ rec' = [rec EXCEPT ![n] = "sync"]
              /\ UNCHANGED <<inviewchange, myvs>>
           \/ primary[n] # n /\ InForce(n)
        /\ UNCHANGED joining
  /\ UNCHANGED <<views, offered, events, acceptor, config, run, beat, primary, vid_commit,
                 died>>

\* sync_with_backups has rsm_mutex again.
SyncedWithBackups(n) ==
  /\ rec[n] = "sync"
  /\ RoundEnds(n)
  /\ UNCHANGED <<views, offered, events, acceptor, config, run, beat, primary, vid_commit,
                 vid_insync, joining, died>>

\* The answer to join: the primary's log replaces this node's.
Joined(n, j) ==
  /\ CfgFree(n) /\ rec[n] = "joining"
  /\ j \in joins /\ j.from = n /\ j.stage = "answer"
  /\ joins' = joins \ {j}
  /\ asked' = [asked EXCEPT ![n] = 0]
  /\ instance_h' = [instance_h EXCEPT ![n] = j.vid]
  /\ myvid' = [myvid EXCEPT ![n] = j.vid]
  /\ commit_change_wo(n, j.vid, "top")
  /\ UNCHANGED <<views, offered, events, upcalls, changes, run, beat, vid_insync, myvs>>

\* The answer was BUSY, or the other node died.
JoinFails(n) ==
  /\ rec[n] = "joining"
  /\ \A j \in joins : <<j.from, j.to>> # <<n, asked[n]>>
  /\ asked' = [asked EXCEPT ![n] = 0]
  /\ rec' = [rec EXCEPT ![n] = "top"]
  /\ UNCHANGED <<views, offered, events, acceptor, config, run, beat, rsm, joins, died>>

-----------------------------------------------------------------------------
(* rsm: joinreq *)

\* The answer of the handler of join j: the log if there is one to send, and
\* BUSY otherwise; nobody waits for it if the asking node has died.
Answer(j, ok) ==
  joins' = IF ok /\ asked[j.from] = j.to
           THEN (joins \ {j}) \cup {[j EXCEPT !.stage = "answer", !.vid = instance_h[j.to]]}
           ELSE joins \ {j}

\* A member is sent the log, another node is let in if this is the primary.
joinreq(j) ==
  /\ j \in joins /\ j.stage = "asked" /\ CfgFree(j.to)
  /\ IF ismember(j.from, vid_commit[j.to]) \/ primary[j.to] # j.to
     THEN Answer(j, ismember(j.from, vid_commit[j.to]))
     ELSE joins' = (joins \ {j}) \cup {[j EXCEPT !.stage = "adding", !.vid = vid_commit[j.to]]}
  /\ UNCHANGED <<views, offered, events, acceptor, config, run, beat, rsm, rec, asked, died>>

\* proposer::run(k, mems, v) at node n: FALSE at once if one is running.
StartRun(n, v) ==
  /\ Event
  /\ run' = [run EXCEPT ![n] = [Idle EXCEPT !.stage = "running", !.instance = myvid[n] + 1,
                                            !.v = v]]
  /\ offered' = IF myvid[n] = Len(views) THEN offered \cup {v} ELSE offered

\* Mutant: the view may have changed since joinreq looked at it.
add_any_view(j) ==
  LET n == j.to
  IN  /\ j \in joins /\ j.stage = "adding" /\ CfgFree(n) /\ ProposerFree(n)
      /\ IF run[n].stage # "idle"
         THEN /\ joins' = (joins \ {j}) \cup {[j EXCEPT !.stage = "added"]}
              /\ UNCHANGED <<run, offered, events>>
         ELSE /\ joins' = (joins \ {j}) \cup {[j EXCEPT !.stage = "proposing"]}
              /\ StartRun(n, Append(View(myvid[n]), j.from))
      /\ UNCHANGED <<views, acceptor, config, beat, rsm, rec, asked, died>>

\* config::add, which joinreq calls without rsm_mutex; it takes the proposer's
\* mutex with its own released.
add(j) ==
  LET n == j.to
  IN  /\ j \in joins /\ j.stage = "adding" /\ CfgFree(n) /\ ProposerFree(n)
      /\ IF j.vid # myvid[n] \/ run[n].stage # "idle"
         THEN /\ joins' = (joins \ {j}) \cup {[j EXCEPT !.stage = "added"]}
              /\ UNCHANGED <<run, offered, events>>
         ELSE /\ joins' = (joins \ {j}) \cup {[j EXCEPT !.stage = "proposing"]}
              /\ StartRun(n, Append(View(myvid[n]), j.from))
      /\ UNCHANGED <<views, acceptor, config, beat, rsm, rec, asked, died>>

\* The handler has rsm_mutex again.
AddReturns(j) ==
  /\ j \in joins /\ j.stage = "added" /\ CfgFree(j.to)
  /\ Answer(j, ismember(j.from, myvid[j.to]))
  /\ UNCHANGED <<views, offered, events, acceptor, config, run, beat, rsm, rec, asked, died>>

-----------------------------------------------------------------------------
(* config: heartbeats, remove_wo and paxos_commit *)

\* The members that the heartbeater of member n pings: all others if n is the
\* smallest, else the smallest.
Pinged(n) ==
  LET mems == Range(View(myvid[n]))
  IN  IF n \notin mems THEN {}
      ELSE IF \A m \in mems : n <= m THEN mems \ {n}
      ELSE {m \in mems : \A k \in mems : m <= k}

\* A heartbeat fails, because of the network, of the node or of its view, and
\* the heartbeater proposes a view without the node.
remove_wo(n, m) ==
  /\ CfgFree(n) /\ ProposerFree(n) /\ run[n].stage = "idle"
  /\ m \in Pinged(n)
  /\ StartRun(n, SelectSeq(View(myvid[n]), LAMBDA k : k # m))
  /\ UNCHANGED <<views, acceptor, config, beat, rsm, rec, joining, died>>

\* The handler of a heartbeat of node m in its view, at node n.  It asks the
\* proposer whether it runs, cfg_mutex held.
heartbeat(m, n) ==
  /\ CfgFree(n) /\ n \in Pinged(m) /\ myvid[m] # myvid[n]
  /\ \/ /\ ~ ProposerFree(n)
        /\ beat' = [beat EXCEPT ![n] = TRUE]
        /\ UNCHANGED <<views, offered, events, acceptor, config, run, rsm, rec, joining, died>>
     \/ /\ ProposerFree(n) /\ run[n].stage # "idle"
        /\ ~ (myvid[m] = myvid[n] + 1 \/ myvid[m] + 1 = myvid[n])
        /\ Die(n, "heartbeat")
        /\ run' = [run EXCEPT ![n] = Idle]
        /\ UNCHANGED events

\* The acceptor's upcall into config.
paxos_commit(n, i) ==
  /\ CfgFree(n) /\ i \in upcalls[n]
  /\ upcalls' = [upcalls EXCEPT ![n] = @ \ {i}]
  /\ myvid' = [myvid EXCEPT ![n] = i]
  /\ changes' = [changes EXCEPT ![n] = @ \cup {i}]
  /\ UNCHANGED <<views, offered, events, instance_h, run, beat, rsm, rec, joining, died>>

-----------------------------------------------------------------------------
(* proposer::run, over what Paxos guarantees *)

\* acceptor::commit_wo for an instance that is newer: the upcall follows
\* without the acceptor's mutex.
Learn(n, i) ==
  /\ instance_h' = [instance_h EXCEPT ![n] = i]
  /\ upcalls' = [upcalls EXCEPT ![n] = @ \cup {i}]

\* A quorum q of the nodes asked accepts a value offered for the instance.
Decide(n, q) ==
  LET mems == View(run[n].instance - 1)
  IN  /\ run[n].stage = "running" /\ run[n].instance = Len(views) + 1
      /\ q \subseteq Range(mems) /\ 2 * Cardinality(q) > Len(mems)
      /\ \E v \in offered :
           /\ views' = Append(views, v)
           /\ run' = [run EXCEPT ![n].stage = "deciding", ![n].v = v,
                                 ![n].todo = SelectSeq(mems, LAMBDA m : m \in q)]
      /\ offered' = {}
      /\ UNCHANGED <<events, acceptor, config, beat, rsm, rec, joining, died>>

\* decidereq at the next node, or the call is lost.
DecideNext(n) ==
  /\ run[n].stage = "deciding" /\ run[n].todo # <<>>
  /\ LET m == Head(run[n].todo)
         i == run[n].instance
         next == [run EXCEPT ![n].todo = Tail(@)]
     IN  \/ /\ run' = next
            /\ \/ i = instance_h[m] + 1 /\ Learn(m, i)
               \/ UNCHANGED acceptor
            /\ UNCHANGED <<views, offered, events, config, beat, rsm, rec, joining, died>>
         \/ /\ i > instance_h[m] + 1
            /\ Die(m, "decidereq")
            /\ run' = [next EXCEPT ![m] = Idle]
            /\ UNCHANGED events

\* All nodes were told, or the round fails.
RunReturns(n) ==
  /\ \/ run[n].stage = "running"
     \/ run[n].stage = "deciding" /\ run[n].todo = <<>>
  /\ RunEnds(n)
  /\ UNCHANGED <<views, offered, events, acceptor, config, beat, rsm, rec, asked, died>>

\* A node asked knows the instance's value: prepare commits it, with the
\* upcalls, under the proposer's mutex.
OldInstance(n) ==
  LET i == run[n].instance
  IN  /\ run[n].stage = "running"
      /\ \E m \in Range(View(i - 1)) : instance_h[m] >= i
      /\ IF i > instance_h[n]
         THEN /\ Learn(n, i)
              /\ run' = [run EXCEPT ![n].stage = "upcall"]
              /\ UNCHANGED joins
         ELSE RunEnds(n) /\ UNCHANGED acceptor
      /\ UNCHANGED <<views, offered, events, config, beat, rsm, rec, asked, died>>

-----------------------------------------------------------------------------
Next ==
  \/ \E n \in Node :
       \/ Recover(n) \/ SyncedWithBackups(n) \/ JoinFails(n) \/ RunReturns(n) \/ OldInstance(n)
       \/ \E i \in 1 .. Len(views) : commit_change(n, i) \/ paxos_commit(n, i)
       \/ \E j \in joins : Joined(n, j)
       \/ \E m \in Node : remove_wo(n, m) \/ heartbeat(m, n)
       \/ DecideNext(n) \/ Crash(n)
       \/ \E q \in SUBSET Node : Decide(n, q)
  \/ \E j \in joins : joinreq(j) \/ add(j) \/ AddReturns(j)

Spec == Init /\ [][Next]_vars

-----------------------------------------------------------------------------
(* Properties *)

\* Types: a node knows only instances that are decided, and its primary is a
\* node.
TypeOK ==
  /\ views \in Seq(Seq(Node)) /\ Len(views) <= Members + events
  /\ offered \subseteq Seq(Node)
  /\ events \in 0 .. MaxEvents
  /\ \A n \in Node : upcalls[n] \cup changes[n] \subseteq 1 .. Len(views)
  /\ {instance_h, myvid, vid_commit, vid_insync, myvs} \subseteq [Node -> 0 .. Len(views)]
  /\ {beat, inviewchange} \subseteq [Node -> BOOLEAN]
  /\ primary \in [Node -> Node]
  /\ rec \in [Node -> {"top", "joining", "sync", "sleep"}]
  /\ asked \in [Node -> 0 .. N]

\* No view lists a node twice, although joinreq looks at the view of rsm and
\* add at the one of config, some time later, and a node may ask again while
\* its first request is being proposed.
NoMemberTwice == \A i \in DOMAIN views : IsInjective(views[i])

\* recovery sleeps only when the state is that of the view committed last: a
\* view change that comes while sync_with_backups has given up rsm_mutex, its
\* signal being lost, is noticed.
AsleepInSync ==
  \A n \in Node : rec[n] = "sleep" =>
    /\ vid_insync[n] = vid_commit[n] /\ myvs[n] = vid_commit[n] /\ ~ inviewchange[n]
    /\ ismember(n, vid_commit[n])

\* A member that takes itself for the primary is the oldest member of its
\* view, unless its process was started again: no view has two members that
\* both accept requests and proposals, however many views a node skips.  And
\* the VERIFY(0) of set_primary is not reached: some member of a view was a
\* member of the view before.
Restarted(n) == \E d \in died : d[1] = n
IsPrimary(n) == primary[n] = n /\ ismember(n, vid_commit[n])
PrimaryIsOldest ==
  /\ TypeOK
  /\ \A n \in Node : ~ Restarted(n) /\ IsPrimary(n) => Head(View(vid_commit[n])) = n
  /\ \A d \in died : d[2] # "set_primary"

\* "there will be always one primary" (rsm.cc): two members of a view never
\* both take themselves for it.  A node that was started again may: while it
\* waits for the answer to its join it can become the primary of a view, lose
\* its place without noticing, and be let in again by the same join.
OnePrimary ==
  \A m, n \in Node :
    IsPrimary(m) /\ IsPrimary(n) /\ vid_commit[m] = vid_commit[n] => m = n

\* The rule above the mutexes in rsm.cc, that a module releases its locks
\* before it upcalls, keeps the modules from waiting for each other: no
\* heartbeat handler waits for ever, cfg_mutex held, for the proposer's mutex.
LocksAreReleasedBeforeUpcalls == \A n \in Node : ~ beat[n]
=============================================================================
