----------------------------- MODULE RpcServer ------------------------------
(***************************************************************************)
(* The server side of the RPC library: the connections tcpsconn accepts,   *)
(* the requests rpcs::got_pdu puts into the queue of the thread pool       *)
(* (rpc/fifo.h, rpc/thr_pool.cc), the worker threads in rpcs::dispatch,    *)
(* which connection a reply is sent on, the reference counts, and ~rpcs.   *)
(*                                                                         *)
(* The at-most-once window is module Rpc's; here a client makes one call   *)
(* and sends it again on every further connection.  A callback of PollMgr  *)
(* is one step (module Connection has the event loop).  Connections are    *)
(* numbered in the order of their create_time_; 0 is NULL.                 *)
(***************************************************************************)
EXTENDS Naturals, FiniteSets, Functions, Sequences

CONSTANTS
  Client,      \* the clients (clt_nonce)
  OldClient,   \* the clients bound to an earlier instance of the server
  Worker,      \* the threads of the pool
  MaxConns,    \* bound: connections accepted
  MaxJobs,     \* fifo::max_, a hundred jobs per thread in rpcs
  MaxCuts      \* bound: changes of reachable_

ASSUME ServerAssumption ==
  /\ OldClient \subseteq Client
  /\ IsFiniteSet(Worker) /\ Worker # {}
  /\ MaxConns \in Nat /\ MaxJobs \in Nat \ {0} /\ MaxCuts \in Nat

Conn == 1 .. MaxConns
NULL == 0

VARIABLES
  made, freed, clt, dead_, refno_,  \* connections; whose each one is
  broken,                           \* lost, whether the server knows or not
  request,                          \* a connection's request: unread, kept, read
  accepting, tconns, accepter,      \* tcpsconn: being accepted, conns_, its thread
  conns_, seen,                     \* rpcs: latest connection, state of the call
  reachable_, cuts, adding,         \* got_pdu between addObjJob and its second test
  jobq_,                            \* connections of requests; NULL is a poison pill
  wpc, c_,                          \* worker threads and their connections
  dpc, pills,                       \* the thread in ~rpcs
  sent, misdirected, leaked,        \* history: replies sent; see Pick and DispatchReturns
  failed                            \* a job freed while it is in the queue

connVars == <<made, freed, clt, dead_, refno_, broken>>
acptVars == <<accepting, tconns, accepter>>
workVars == <<wpc, c_>>
histVars == <<sent, misdirected, leaked>>
vars == <<connVars, request, acptVars, conns_, seen, reachable_, cuts, adding, jobq_, workVars,
          dpc, pills, histVars, failed>>

Init ==
  /\ made = 0 /\ freed = {}
  /\ clt \in [Conn -> Client]
  /\ dead_ = [c \in Conn |-> FALSE]
  /\ refno_ = [c \in Conn |-> 0]
  /\ broken = [c \in Conn |-> FALSE]
  /\ request = [c \in Conn |-> "unread"]
  /\ accepting = NULL /\ tconns = {} /\ accepter = "run"
  /\ conns_ = [k \in Client |-> NULL]
  /\ seen = [k \in Client |-> "new"]
  /\ reachable_ = TRUE /\ cuts = 0 /\ adding = NULL
  /\ jobq_ = <<>>
  /\ wpc = [w \in Worker |-> "take"]
  /\ c_ = [w \in Worker |-> NULL]
  /\ dpc = "run" /\ pills = 0
  /\ sent = {} /\ misdirected = {} /\ leaked = [c \in Conn |-> 0]
  /\ failed = FALSE

Drop(counts, c) == [counts EXCEPT ![c] = @ - 1]

\* connection::decref: what is dead and counted by nobody is deleted.
Deleted(counts, c) == IF counts[c] = 0 /\ dead_[c] THEN {c} ELSE {}

decref(c) ==
  /\ refno_' = Drop(refno_, c)
  /\ freed' = freed \cup Deleted(refno_', c)

-----------------------------------------------------------------------------
(* fifo *)

\* pthread_cond_signal on non_empty_c_ wakes one of the waiting workers.
Waiting == {w \in Worker : wpc[w] = "wait"}

\* Mutant: nobody is woken.
SignalNonEmpty_never == UNCHANGED wpc

SignalNonEmpty ==
  \/ /\ Waiting = {}
     /\ UNCHANGED wpc
  \/ \E w \in Waiting : wpc' = [wpc EXCEPT ![w] = "take"]

enq(j) ==
  /\ Len(jobq_) < MaxJobs
  /\ jobq_' = Append(jobq_, j)
  /\ SignalNonEmpty

\* Mutant: taking a job does not wake the thread that waits for room.
SignalHasSpace_never == dpc

\* Of the threads that add jobs only ~ThrPool waits for room.
SignalHasSpace == IF dpc = "wait_space" THEN "pills" ELSE dpc

\* do_worker and takeJob: a worker with nothing to take waits; taking makes
\* room, which ~ThrPool may wait for; a pill ends the thread.
takeJob(w) ==
  /\ wpc[w] = "take"
  /\ \/ /\ jobq_ = <<>>
        /\ wpc' = [wpc EXCEPT ![w] = "wait"]
        /\ UNCHANGED <<jobq_, c_, dpc>>
     \/ /\ jobq_ # <<>>
        /\ jobq_' = Tail(jobq_)
        /\ c_' = [c_ EXCEPT ![w] = Head(jobq_)]
        /\ wpc' = [wpc EXCEPT ![w] = IF Head(jobq_) = NULL THEN "exit" ELSE "dispatch"]
        /\ dpc' = SignalHasSpace
  /\ UNCHANGED <<connVars, request, acptVars, conns_, seen, reachable_, cuts, adding, pills,
                 histVars, failed>>

-----------------------------------------------------------------------------
(* tcpsconn: the accepting thread *)

\* accept and the constructor of connection: PollMgr watches it from now on.
\* A client (rpcc::get_refconn) connects again only when it has lost its
\* connection, whether the server has noticed or not.
Accept ==
  /\ accepter = "run" /\ dpc = "run"
  /\ accepting = NULL /\ made < MaxConns
  /\ \A c \in 1 .. made : clt[c] = clt[made + 1] => broken[c]
  /\ made' = made + 1
  /\ accepting' = made'
  /\ refno_' = [refno_ EXCEPT ![made'] = 1]
  /\ UNCHANGED <<freed, clt, dead_, broken, request, tconns, accepter, conns_, seen, reachable_,
                 cuts, adding, jobq_, workVars, dpc, pills, histVars, failed>>

\* Mutant: every dead connection is collected.
Garbage_all == {c \in tconns : dead_[c]}

\* The dead connections that only tcpsconn counts.
Garbage == {c \in tconns : dead_[c] /\ refno_[c] = 1}

\* The rest of process_accept.
process_accept ==
  /\ accepting # NULL
  /\ tconns' = (tconns \ Garbage) \cup {accepting}
  /\ refno_' = [c \in Conn |-> IF c \in Garbage THEN refno_[c] - 1 ELSE refno_[c]]
  /\ freed' = freed \cup Garbage
  /\ accepting' = NULL
  /\ UNCHANGED <<made, clt, dead_, broken, request, accepter, conns_, seen, reachable_, cuts,
                 adding, jobq_, workVars, dpc, pills, histVars, failed>>

\* The pipe is closed: the accepting thread ends.
AccepterStops ==
  /\ accepter = "run" /\ accepting = NULL /\ dpc # "run"
  /\ accepter' = "exit"
  /\ UNCHANGED <<connVars, request, accepting, tconns, conns_, seen, reachable_, cuts, adding,
                 jobq_, workVars, dpc, pills, histVars, failed>>

-----------------------------------------------------------------------------
(* The thread of PollMgr: read_cb and rpcs::got_pdu *)

\* PollMgr has a callback for a connection until it is dead.
Watched(c) == c \in 1 .. made /\ ~ dead_[c] /\ adding = NULL

\* A request is complete: it is put into the queue, or it stays with the
\* connection when the queue is full, to be tried again when the socket is
\* readable once more, which then takes the peer's closing it.  While the
\* server is cut off the request is dropped.
got_pdu(c) ==
  /\ Watched(c)
  /\ \/ request[c] = "unread"
     \/ request[c] = "kept" /\ broken[c]
  /\ \/ /\ ~ reachable_
        /\ request' = [request EXCEPT ![c] = "read"]
        /\ UNCHANGED <<refno_, jobq_, wpc, adding>>
     \/ /\ reachable_ /\ Len(jobq_) = MaxJobs
        /\ request' = [request EXCEPT ![c] = "kept"]
        /\ UNCHANGED <<refno_, jobq_, wpc, adding>>
     \/ /\ reachable_ /\ enq(c)
        /\ refno_' = [refno_ EXCEPT ![c] = @ + 1]
        /\ request' = [request EXCEPT ![c] = "read"]
        /\ adding' = c
  /\ UNCHANGED <<made, freed, clt, dead_, broken, acptVars, conns_, seen, reachable_, cuts, c_,
                 dpc, pills, histVars, failed>>

\* The second test of reachable_ in got_pdu: if it was cleared meanwhile, the
\* job is freed although it is in the queue, and what follows is undefined.
GotPduReturns ==
  /\ adding # NULL
  /\ adding' = NULL
  /\ failed' = ~ reachable_
  /\ UNCHANGED <<connVars, request, acptVars, conns_, seen, reachable_, cuts, jobq_, workVars,
                 dpc, pills, histVars>>

\* read_cb finds the connection lost, and wakes the sender on it.  A request
\* that is kept comes first.
read_eof(c) ==
  /\ Watched(c) /\ broken[c] /\ request[c] # "kept"
  /\ dead_' = [dead_ EXCEPT ![c] = TRUE]
  /\ wpc' = [w \in Worker |-> IF wpc[w] = "partial" /\ c_[w] = c THEN "decref" ELSE wpc[w]]
  /\ UNCHANGED <<made, freed, clt, refno_, broken, request, acptVars, conns_, seen, reachable_,
                 cuts, adding, jobq_, c_, dpc, pills, histVars, failed>>

-----------------------------------------------------------------------------
(* rpcs::dispatch *)

Step(w, to) == wpc' = [wpc EXCEPT ![w] = to]

\* A request for an earlier instance is answered at once.
OldServer(w) ==
  /\ wpc[w] = "dispatch" /\ clt[c_[w]] \in OldClient
  /\ Step(w, "send")
  /\ UNCHANGED <<connVars, request, acptVars, conns_, seen, reachable_, cuts, adding, jobq_, c_, dpc,
                 pills, histVars, failed>>

\* The latest connection of the client is remembered, and counted.
SaveConnection(w) ==
  /\ wpc[w] = "dispatch" /\ clt[c_[w]] \notin OldClient
  /\ Step(w, "check")
  /\ LET c == c_[w]
         old == conns_[clt[c]]
     IN  IF old < c
         THEN /\ conns_' = [conns_ EXCEPT ![clt[c]] = c]
              /\ LET counts == [refno_ EXCEPT ![c] = @ + 1] IN
                 /\ refno_' = IF old = NULL THEN counts ELSE Drop(counts, old)
                 /\ freed' = IF old = NULL THEN freed ELSE freed \cup Deleted(refno_', old)
         ELSE UNCHANGED <<conns_, refno_, freed>>
  /\ UNCHANGED <<made, clt, dead_, broken, request, acptVars, seen, reachable_, cuts, adding,
                 jobq_, c_, dpc, pills, histVars, failed>>

\* checkduplicate_and_update: NEW, INPROGRESS or DONE.
checkduplicate(w) ==
  /\ wpc[w] = "check"
  /\ LET k == clt[c_[w]] IN
     \/ /\ seen[k] = "new"
        /\ seen' = [seen EXCEPT ![k] = "inprogress"]
        /\ Step(w, "handler")
     \/ /\ seen[k] = "inprogress"
        /\ Step(w, "decref") /\ UNCHANGED seen
     \/ /\ seen[k] = "done"
        /\ Step(w, "send") /\ UNCHANGED seen
  /\ UNCHANGED <<connVars, request, acptVars, conns_, reachable_, cuts, adding, jobq_, c_, dpc,
                 pills, histVars, failed>>

\* The handler returns and add_reply keeps its reply.
HandlerReturns(w) ==
  /\ wpc[w] = "handler"
  /\ seen' = [seen EXCEPT ![clt[c_[w]]] = "done"]
  /\ Step(w, "pick")
  /\ UNCHANGED <<connVars, request, acptVars, conns_, reachable_, cuts, adding, jobq_, c_, dpc,
                 pills, histVars, failed>>

\* Mutant: the reply goes where the request came from.
Latest_own(c) == c

\* The connection to reply on: the latest one if c is known to be dead.
Latest(c) == IF dead_[c] THEN conns_[clt[c]] ELSE c

Pick(w) ==
  /\ wpc[w] = "pick" /\ adding # c_[w]
  /\ LET c == c_[w]
         latest == Latest(c)
     IN  /\ IF latest # c
            THEN /\ c_' = [c_ EXCEPT ![w] = latest]
                 /\ refno_' = [Drop(refno_, c) EXCEPT ![latest] = @ + 1]
                 /\ freed' = freed \cup Deleted(refno_', c)
            ELSE UNCHANGED <<c_, refno_, freed>>
         /\ misdirected' = IF broken[c] /\ ~ dead_[c] THEN misdirected \cup {clt[c]}
                           ELSE misdirected
  /\ Step(w, "send")
  /\ UNCHANGED <<made, clt, dead_, broken, request, acptVars, conns_, seen, reachable_, cuts,
                 adding, jobq_, dpc, pills, sent, leaked, failed>>

\* connection::send: at once, in part, or in vain; one sender at a time.
Send(w) ==
  /\ wpc[w] = "send" /\ adding # c_[w]
  /\ LET c == c_[w] IN
     /\ dead_[c] \/ \A v \in Worker : ~ (wpc[v] = "partial" /\ c_[v] = c)
     /\ \/ /\ dead_[c]
           /\ Step(w, "decref") /\ UNCHANGED <<dead_, sent>>
        \/ /\ ~ dead_[c] /\ ~ broken[c]
           /\ sent' = sent \cup {c}
           /\ Step(w, "decref") /\ UNCHANGED dead_
        \/ /\ ~ dead_[c] /\ ~ broken[c]
           /\ Step(w, "partial") /\ UNCHANGED <<dead_, sent>>
        \/ /\ ~ dead_[c] /\ broken[c]
           /\ dead_' = [dead_ EXCEPT ![c] = TRUE]
           /\ Step(w, "decref") /\ UNCHANGED sent
  /\ UNCHANGED <<made, freed, clt, refno_, broken, request, acptVars, conns_, seen, reachable_,
                 cuts, adding, jobq_, c_, dpc, pills, misdirected, leaked, failed>>

\* write_cb finds room for the rest of the reply and wakes the sender.
SendCompletes(w) ==
  /\ wpc[w] = "partial" /\ adding = NULL
  /\ ~ dead_[c_[w]] /\ ~ broken[c_[w]]
  /\ sent' = sent \cup {c_[w]}
  /\ Step(w, "decref")
  /\ UNCHANGED <<connVars, request, acptVars, conns_, seen, reachable_, cuts, adding, jobq_, c_,
                 dpc, pills, misdirected, leaked, failed>>

\* The return after an answer to an earlier instance drops no reference.
DispatchReturns(w) ==
  /\ wpc[w] = "decref"
  /\ IF clt[c_[w]] \in OldClient
     THEN /\ leaked' = [leaked EXCEPT ![c_[w]] = @ + 1]
          /\ UNCHANGED <<refno_, freed>>
     ELSE decref(c_[w]) /\ UNCHANGED leaked
  /\ c_' = [c_ EXCEPT ![w] = NULL]
  /\ Step(w, "take")
  /\ UNCHANGED <<made, clt, dead_, broken, request, acptVars, conns_, seen, reachable_, cuts,
                 adding, jobq_, dpc, pills, sent, misdirected, failed>>

-----------------------------------------------------------------------------
(* ~rpcs: the listener goes first, then the pool *)

\* Mutant: the pool goes first.
DeleteServer_pool_first ==
  /\ dpc = "run"
  /\ dpc' = "pills"
  /\ UNCHANGED <<connVars, request, acptVars, conns_, seen, reachable_, cuts, adding, jobq_,
                 workVars, pills, histVars, failed>>

\* ~tcpsconn closes its pipe, joins the accepting thread, then closes every
\* connection and drops it; closeconn wakes nobody.
DeleteServer ==
  /\ dpc = "run"
  /\ dpc' = "join_accepter"
  /\ UNCHANGED <<connVars, request, acptVars, conns_, seen, reachable_, cuts, adding, jobq_,
                 workVars, pills, histVars, failed>>

AccepterJoined ==
  /\ dpc = "join_accepter" /\ accepter = "exit"
  /\ dpc' = "close"
  /\ UNCHANGED <<connVars, request, acptVars, conns_, seen, reachable_, cuts, adding, jobq_,
                 workVars, pills, histVars, failed>>

closeconn ==
  /\ dpc = "close"
  /\ \/ \E c \in tconns :
          /\ adding # c
          /\ dead_' = [dead_ EXCEPT ![c] = TRUE]
          /\ broken' = [broken EXCEPT ![c] = TRUE]
          /\ refno_' = Drop(refno_, c)
          /\ freed' = IF refno_'[c] = 0 THEN freed \cup {c} ELSE freed
          /\ tconns' = tconns \ {c}
          /\ UNCHANGED dpc
     \/ /\ tconns = {}
        /\ dpc' = "pills"
        /\ UNCHANGED <<dead_, broken, refno_, freed, tconns>>
  /\ UNCHANGED <<made, clt, request, accepting, accepter, conns_, seen, reachable_, cuts, adding,
                 jobq_, workVars, pills, histVars, failed>>

\* ~ThrPool: a pill for each worker, waiting for room, then the workers are
\* joined.
PoisonPills ==
  /\ dpc = "pills"
  /\ \/ /\ pills < Cardinality(Worker) /\ enq(NULL)
        /\ pills' = pills + 1
        /\ UNCHANGED dpc
     \/ /\ pills < Cardinality(Worker) /\ Len(jobq_) = MaxJobs
        /\ dpc' = "wait_space"
        /\ UNCHANGED <<jobq_, wpc, pills>>
     \/ /\ pills = Cardinality(Worker)
        /\ \A w \in Worker : wpc[w] = "exit"
        /\ dpc' = "deleted"
        /\ UNCHANGED <<jobq_, wpc, pills>>
  /\ UNCHANGED <<connVars, request, acptVars, conns_, seen, reachable_, cuts, adding, c_, histVars,
                 failed>>

-----------------------------------------------------------------------------
(* The clients, and the test code that cuts the server off (rsm.cc) *)

ClientBreaks(c) ==
  /\ c \in 1 .. made /\ ~ broken[c]
  /\ broken' = [broken EXCEPT ![c] = TRUE]
  /\ UNCHANGED <<made, freed, clt, dead_, refno_, request, acptVars, conns_, seen, reachable_,
                 cuts, adding, jobq_, workVars, dpc, pills, histVars, failed>>

set_reachable ==
  /\ cuts < MaxCuts
  /\ cuts' = cuts + 1
  /\ reachable_' = ~ reachable_
  /\ UNCHANGED <<connVars, request, acptVars, conns_, seen, adding, jobq_, workVars, dpc, pills,
                 histVars, failed>>

PollStep == GotPduReturns \/ \E c \in Conn : got_pdu(c) \/ read_eof(c)
AcceptStep == Accept \/ process_accept \/ AccepterStops
WorkerStep(w) ==
  \/ takeJob(w) \/ OldServer(w) \/ SaveConnection(w) \/ checkduplicate(w) \/ HandlerReturns(w)
  \/ Pick(w) \/ Send(w) \/ SendCompletes(w) \/ DispatchReturns(w)
DeleteStep == AccepterJoined \/ closeconn \/ PoisonPills

\* What follows the use of a job that was freed is undefined: the model stops.
Next ==
  /\ ~ failed
  /\ \/ PollStep \/ AcceptStep \/ DeleteServer \/ DeleteStep
     \/ \E w \in Worker : WorkerStep(w)
     \/ \E c \in Conn : ClientBreaks(c)
     \/ set_reachable

Spec == Init /\ [][Next]_vars

\* Every thread runs; the readers of replies read.
FairSpec ==
  /\ Spec
  /\ WF_vars(~ failed /\ PollStep) /\ WF_vars(~ failed /\ DeleteStep)
  /\ WF_vars(~ failed /\ (process_accept \/ AccepterStops))
  /\ \A w \in Worker : WF_vars(~ failed /\ WorkerStep(w))

-----------------------------------------------------------------------------
(* Properties *)

\* A job of the client is queued or being served.
Busy(k) == \/ \E w \in Worker : c_[w] # NULL /\ clt[c_[w]] = k
           \/ \E i \in DOMAIN jobq_ : jobq_[i] # NULL /\ clt[jobq_[i]] = k

\* A worker that waits to send the rest of a reply on a closed connection.
Stuck(w) == wpc[w] = "partial" /\ dead_[c_[w]]

\* Each reference leads to a connection that has been accepted, and the queue
\* of the pool never exceeds its limit (fifo::enq waits on has_space_c_).
TypeOK ==
  /\ made \in 0 .. MaxConns /\ freed \subseteq 1 .. made
  /\ \A c \in Conn : refno_[c] \in Nat
  /\ tconns \subseteq 1 .. made /\ accepting \in 0 .. made
  /\ conns_ \in [Client -> 0 .. made] /\ c_ \in [Worker -> 0 .. made]
  /\ Len(jobq_) <= MaxJobs /\ Range(jobq_) \subseteq 0 .. made

\* A connection is counted by tcpsconn, by rpcs::conns_, by each request in
\* the queue and by each worker that serves one, and by nothing else but the
\* returns of dispatch that forget it; none of these leads to a connection
\* that decref or the garbage collection of process_accept has deleted.
ConnectionsAreCounted ==
  /\ TypeOK
  /\ \A c \in (1 .. made) \ freed :
       refno_[c] = (IF c \in tconns \cup {accepting} THEN 1 ELSE 0)
                   + Cardinality({k \in Client : conns_[k] = c})
                   + Cardinality({i \in DOMAIN jobq_ : jobq_[i] = c})
                   + Cardinality({w \in Worker : c_[w] = c})
                   + leaked[c]
  /\ (tconns \cup {accepting} \cup Range(conns_) \cup Range(jobq_) \cup Range(c_))
       \cap freed = {}

\* No worker sleeps over a job: when one waits on non_empty_c_, every job in
\* the queue has another worker on its way to it, although enq signals only
\* one and workers that were busy take jobs as well.
NoWorkerSleepsOverAJob ==
  Waiting # {} => Len(jobq_) <= Cardinality({w \in Worker : wpc[w] = "take"})

\* ~rpcs deletes the pool when nothing can add a job to it: no request
\* follows a pill, and when the pool is gone no request is left in its queue
\* and every connection is closed.
PoolIsDrained ==
  /\ \A i \in DOMAIN jobq_ : pills > 0 /\ jobq_[i] = NULL =>
       \A j \in i .. Len(jobq_) : jobq_[j] = NULL
  /\ dpc = "deleted" => jobq_ = <<>> /\ \A c \in 1 .. made : dead_[c]

\* The reply is not lost between two connections of a client: once nobody
\* works for the client, the latest connection it has sent the request on
\* has got the reply, unless that connection is lost too - or the reply was
\* meant for a connection that was lost and not yet found dead.
ReplyFollowsTheClient ==
  \A k \in Client : LET c == conns_[k] IN
    c # NULL /\ seen[k] = "done" /\ ~ Busy(k) => c \in sent \/ broken[c] \/ k \in misdirected

\* rpcs can be deleted (rpc.cc: "waiting for current active RPC handlers to
\* finish"), unless it closed a connection on which a worker had sent part of
\* a reply.
ServerIsDeleted ==
  dpc = "join_accepter" ~> (dpc = "deleted" \/ failed \/ \E w \in Worker : Stuck(w))

=============================================================================
