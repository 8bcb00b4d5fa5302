-------------------------- MODULE RpcServerProofs ---------------------------
(***************************************************************************)
(* The RPC server, for any number of clients, workers, connections and     *)
(* jobs: no worker sleeps over a job, the pool is empty when ~rpcs deletes *)
(* it, the reference counts of the connections are exact, and the reply    *)
(* to a client goes to its latest connection.                              *)
(*                                                                         *)
(* That the pool is drained takes three arguments.  The order of ~rpcs:    *)
(* when the first pill is added the listener is gone and every connection  *)
(* is dead, so that got_pdu adds no job behind it.  The shape of the       *)
(* queue: the pills not yet taken are its last elements, so that a worker  *)
(* takes a pill only when no request is left.  And the count: each worker  *)
(* that has ended took one pill.                                           *)
(*                                                                         *)
(* The counts and the replies rest on ServerInv, which adds to the above   *)
(* what a worker knows of its connection and that a client gives up one    *)
(* connection before it makes the next.                                    *)
(***************************************************************************)
EXTENDS RpcServer, FiniteSetTheorems, TLAPS

USE ServerAssumption DEF NULL, Conn

Takers == {w \in Worker : wpc[w] = "take"}
Exited == {w \in Worker : wpc[w] = "exit"}

\* The part of the state that the pool and its deletion depend on.
PoolTypes ==
  /\ made \in 0 .. MaxConns /\ tconns \subseteq 1 .. made /\ accepting \in 0 .. made
  /\ dead_ \in [Conn -> BOOLEAN]
  /\ accepter \in {"run", "exit"}
  /\ jobq_ \in Seq(0 .. MaxConns)
  /\ pills \in Nat
  /\ wpc \in [Worker -> {"take", "wait", "dispatch", "check", "handler", "pick", "send",
                         "partial", "decref", "exit"}]
  /\ dpc \in {"run", "join_accepter", "close", "pills", "wait_space", "deleted"}

\* ~rpcs deletes the pool last.
Closing == dpc \in {"pills", "wait_space", "deleted"}

\* A connection that is not dead is with the listener, which goes first.
DeleteOrder ==
  /\ \A c \in 1 .. made : c \in tconns \/ c = accepting \/ dead_[c]
  /\ accepter = "exit" => accepting = NULL /\ dpc # "run"
  /\ Closing \/ dpc = "close" => accepter = "exit"
  /\ Closing => tconns = {}
  /\ pills > 0 => Closing
  /\ dpc = "deleted" => jobq_ = <<>>

\* The pills that nobody has taken are the last jobs of the queue, and the only
\* ones once a worker has ended.
PillsComeLast ==
  /\ Cardinality(Exited) <= pills
  /\ pills <= Len(jobq_) + Cardinality(Exited)
  /\ \A i \in 1 .. Len(jobq_) :
       jobq_[i] = NULL <=> i + pills > Len(jobq_) + Cardinality(Exited)
  /\ Exited # {} => pills = Len(jobq_) + Cardinality(Exited)

Inv == PoolTypes /\ DeleteOrder /\ PillsComeLast /\ NoWorkerSleepsOverAJob

\* The rest of the state.
ServerTypes ==
  /\ clt \in [Conn -> Client] /\ freed \subseteq 1 .. made
  /\ refno_ \in [Conn -> Int] /\ leaked \in [Conn -> Nat]
  /\ broken \in [Conn -> BOOLEAN]
  /\ conns_ \in [Client -> 0 .. made] /\ c_ \in [Worker -> 0 .. made]
  /\ Len(jobq_) <= MaxJobs /\ jobq_ \in Seq(0 .. made)
  /\ seen \in [Client -> {"new", "inprogress", "done"}]
  /\ accepting \notin tconns

\* Who counts a connection.
Listed(c) == IF c \in tconns \cup {accepting} THEN 1 ELSE 0
Kept(c) == {k \in Client : conns_[k] = c}
Queued(c) == {i \in DOMAIN jobq_ : jobq_[i] = c}
Served(c) == {w \in Worker : c_[w] = c}

References(c) ==
  Listed(c) + Cardinality(Kept(c)) + Cardinality(Queued(c)) + Cardinality(Served(c)) + leaked[c]

\* refno_ is exact before and after a connection is deleted.
Counted ==
  /\ \A c \in Conn : refno_[c] = References(c)
  /\ \A c \in freed : dead_[c] /\ refno_[c] = 0
  /\ \A c \in Conn : c > made => refno_[c] = 0

\* What a worker knows: the connection it serves, which is not later than the
\* one rpcs::conns_ has for the client once dispatch has looked.
WorkerOf(w) ==
  /\ c_[w] = NULL <=> wpc[w] \in {"take", "wait", "exit"}
  /\ wpc[w] \in {"check", "handler", "pick"} => conns_[clt[c_[w]]] >= c_[w]

\* Connections of a client are given up one after the other.
Superseded ==
  /\ \A k \in Client : conns_[k] # NULL => clt[conns_[k]] = k
  /\ \A c, d \in 1 .. made : c < d /\ clt[c] = clt[d] => broken[c]
  /\ \A c \in Conn : dead_[c] => broken[c]

\* Worker w will send k's reply on c, if it is not lost.
Delivers(w, k, c) ==
  \/ wpc[w] = "pick" /\ clt[c_[w]] = k
  \/ wpc[w] \in {"check", "send", "partial"} /\ c_[w] = c

\* A client with a call has somebody who answers it, where it was last seen.
AnswerOf(k) ==
  /\ seen[k] = "inprogress" => \E w \in Worker : wpc[w] = "handler" /\ clt[c_[w]] = k
  /\ conns_[k] # NULL /\ seen[k] = "done" =>
       \/ conns_[k] \in sent \/ broken[conns_[k]] \/ k \in misdirected
       \/ \E w \in Worker : Delivers(w, k, conns_[k])

ServerInv ==
  /\ Inv /\ ServerTypes /\ Counted /\ Superseded
  /\ \A w \in Worker : WorkerOf(w)
  /\ \A k \in Client : AnswerOf(k)

-----------------------------------------------------------------------------
(* Counting workers *)

\* Every set of workers is finite.
LEMMA WorkersFinite ==
  ASSUME NEW S \in SUBSET Worker
  PROVE  IsFiniteSet(S) /\ Cardinality(S) \in Nat
<1>1. IsFiniteSet(S)
  BY FS_Subset, ZenonT(30)
<1> QED
  BY <1>1, FS_CardinalityType, ZenonT(30)

\* The two sets that the invariant counts, and those of the next state.
LEMMA CountsAreNumbers ==
  /\ IsFiniteSet(Takers) /\ Cardinality(Takers) \in Nat
  /\ IsFiniteSet(Exited) /\ Cardinality(Exited) \in Nat
  /\ IsFiniteSet(Takers') /\ Cardinality(Takers') \in Nat
  /\ IsFiniteSet(Exited') /\ Cardinality(Exited') \in Nat
<1>1. /\ Takers \in SUBSET Worker /\ Exited \in SUBSET Worker
      /\ Takers' \in SUBSET Worker /\ Exited' \in SUBSET Worker
  BY ZenonT(30) DEF Takers, Exited
<1> QED
  BY <1>1, WorkersFinite, ZenonT(30)

\* A worker that goes on cannot make another one sleep: a larger set of takers
\* serves as many jobs.
LEMMA MoreTakers ==
  ASSUME Takers \subseteq Takers'
  PROVE  Cardinality(Takers) <= Cardinality(Takers')
BY CountsAreNumbers, FS_Subset, ZenonT(30)

\* While a connection is watched no pill has been added.
LEMMA NoPillWhileWatched ==
  ASSUME Inv, NEW c \in Conn, Watched(c)
  PROVE  pills = 0 /\ ~ Closing
<1>1. c \in tconns \/ c = accepting
  BY ZenonT(30) DEF Inv, DeleteOrder, Watched
<1>2. ~ Closing
  BY <1>1 DEF Inv, DeleteOrder, Watched
<1> QED
  BY <1>2 DEF Inv, DeleteOrder, PoolTypes

-----------------------------------------------------------------------------
(* The steps *)

\* A step that leaves the queue, the listener and ~rpcs alone, and in which a
\* worker neither ends nor goes to sleep.
LEMMA WorkerMoves ==
  ASSUME Inv, UNCHANGED <<made, accepting, tconns, accepter, jobq_, dpc, pills>>,
         dead_' \in [Conn -> BOOLEAN], \A c \in Conn : dead_[c] => dead_'[c],
         wpc' \in [Worker -> {"take", "wait", "dispatch", "check", "handler", "pick", "send",
                              "partial", "decref", "exit"}],
         \A w \in Worker : /\ wpc'[w] = "wait" <=> wpc[w] = "wait"
                           /\ wpc'[w] = "exit" <=> wpc[w] = "exit"
                           /\ wpc[w] = "take" => wpc'[w] = "take"
  PROVE  Inv'
<1>1. PoolTypes'
  BY ZenonT(30) DEF Inv, PoolTypes
<1>2. DeleteOrder'
  BY DEF Inv, DeleteOrder, Closing, PoolTypes
<1>3. Exited' = Exited /\ Waiting' = Waiting /\ Takers \subseteq Takers'
  BY ZenonT(30) DEF Exited, Waiting, Takers
<1>4. PillsComeLast'
  BY <1>3, ZenonT(30) DEF Inv, PillsComeLast
<1>5. NoWorkerSleepsOverAJob'
  <2>1. Len(jobq_) \in Nat
    BY DEF Inv, PoolTypes
  <2>2. Waiting # {} => Len(jobq_) <= Cardinality(Takers)
    BY ZenonT(30) DEF Inv, NoWorkerSleepsOverAJob, Takers
  <2>3. Waiting' # {} => Len(jobq_') <= Cardinality(Takers')
    BY <1>3, <2>1, <2>2, MoreTakers, CountsAreNumbers
  <2> QED
    BY <2>3, ZenonT(30) DEF NoWorkerSleepsOverAJob, Takers
<1> QED
  BY <1>1, <1>2, <1>4, <1>5, ZenonT(30) DEF Inv

\* fifo::enq wakes one worker if any sleeps: another job, another taker.
LEMMA EnqWakes ==
  ASSUME Inv, NEW j \in 0 .. MaxConns, enq(j)
  PROVE  /\ NoWorkerSleepsOverAJob' /\ Exited' = Exited
         /\ jobq_' \in Seq(0 .. MaxConns) /\ Len(jobq_') = Len(jobq_) + 1
         /\ \A i \in 1 .. Len(jobq_) : jobq_'[i] = jobq_[i]
         /\ jobq_'[Len(jobq_) + 1] = j
         /\ wpc' \in [Worker -> {"take", "wait", "dispatch", "check", "handler", "pick", "send",
                                 "partial", "decref", "exit"}]
<1> USE DEF Inv
<1>1. /\ jobq_' \in Seq(0 .. MaxConns) /\ Len(jobq_') = Len(jobq_) + 1
      /\ \A i \in 1 .. Len(jobq_) : jobq_'[i] = jobq_[i]
      /\ jobq_'[Len(jobq_) + 1] = j
      /\ Len(jobq_) \in Nat
  BY DEF PoolTypes, enq
<1>2. CASE Waiting = {} /\ UNCHANGED wpc
  BY <1>1, <1>2, ZenonT(30) DEF NoWorkerSleepsOverAJob, Waiting, Exited, PoolTypes
<1>3. ASSUME NEW w \in Waiting, wpc' = [wpc EXCEPT ![w] = "take"]
      PROVE  /\ NoWorkerSleepsOverAJob' /\ Exited' = Exited
             /\ wpc' \in [Worker -> {"take", "wait", "dispatch", "check", "handler", "pick",
                                     "send", "partial", "decref", "exit"}]
  <2>1. /\ w \in Worker /\ wpc[w] = "wait"
        /\ wpc' \in [Worker -> {"take", "wait", "dispatch", "check", "handler", "pick", "send",
                                "partial", "decref", "exit"}]
    BY <1>3, ZenonT(30) DEF Waiting, PoolTypes
  <2>2. Takers' = Takers \cup {w} /\ w \notin Takers /\ Exited' = Exited
    BY <1>3, <2>1, ZenonT(30) DEF Takers, Exited, PoolTypes
  <2>3. Len(jobq_) <= Cardinality(Takers)
    BY <1>3, ZenonT(30) DEF NoWorkerSleepsOverAJob, Takers
  <2>4. Cardinality(Takers') = Cardinality(Takers) + 1
    BY <2>2, CountsAreNumbers, FS_AddElement, ZenonT(30)
  <2>5. Len(jobq_') <= Cardinality(Takers')
    BY <1>1, <2>3, <2>4, CountsAreNumbers
  <2> QED
    BY <2>1, <2>2, <2>5, ZenonT(30) DEF NoWorkerSleepsOverAJob, Takers
<1> QED
  BY <1>1, <1>2, <1>3, ZenonT(30) DEF enq, SignalNonEmpty

\* A worker takes a request, takes a pill and ends, or goes to sleep.
LEMMA TakeJobStep ==
  ASSUME Inv, NEW w \in Worker, takeJob(w)
  PROVE  Inv'
<1> USE DEF Inv
<1>0. /\ UNCHANGED <<made, accepting, tconns, accepter, dead_, pills>>
      /\ wpc[w] = "take" /\ w \in Takers /\ w \notin Exited
  BY ZenonT(30) DEF takeJob, connVars, acptVars, Takers, Exited
<1>1. CASE jobq_ = <<>>
  <2>1. wpc' = [wpc EXCEPT ![w] = "wait"] /\ UNCHANGED <<jobq_, dpc>>
    BY <1>1, ZenonT(30) DEF takeJob
  <2>2. Exited' = Exited
    BY <1>0, <2>1, ZenonT(30) DEF Exited, PoolTypes
  <2>3. PoolTypes' /\ DeleteOrder'
    BY <1>0, <2>1, ZenonT(30) DEF PoolTypes, DeleteOrder, Closing
  <2>4. PillsComeLast'
    BY <1>0, <2>1, <2>2, ZenonT(30) DEF PillsComeLast
  <2>5. NoWorkerSleepsOverAJob'
    <3>1. Len(jobq_') = 0
      BY <1>1, <2>1, ZenonT(30)
    <3>2. Len(jobq_') <= Cardinality(Takers')
      BY <3>1, CountsAreNumbers
    <3> QED
      BY <3>2, ZenonT(30) DEF NoWorkerSleepsOverAJob, Takers
  <2> QED
    BY <2>3, <2>4, <2>5, ZenonT(30)
<1>2. CASE jobq_ # <<>>
  <2> DEFINE to == IF Head(jobq_) = NULL THEN "exit" ELSE "dispatch"
  <2>1. /\ jobq_' = Tail(jobq_) /\ wpc' = [wpc EXCEPT ![w] = to]
        /\ dpc' = IF dpc = "wait_space" THEN "pills" ELSE dpc
    BY <1>2, ZenonT(30) DEF takeJob, SignalHasSpace
  <2>2. /\ Len(jobq_) \in Nat \ {0} /\ Len(jobq_') \in Nat /\ Len(jobq_) = Len(jobq_') + 1
        /\ jobq_' \in Seq(0 .. MaxConns) /\ Head(jobq_) = jobq_[1]
        /\ \A i \in 1 .. Len(jobq_') : jobq_'[i] = jobq_[i + 1]
    BY <1>2, <2>1 DEF PoolTypes
  <2>3. PoolTypes'
    BY <1>0, <2>1, <2>2, ZenonT(30) DEF PoolTypes
  <2>4. DeleteOrder'
    BY <1>0, <1>2, <2>1, ZenonT(30) DEF DeleteOrder, Closing
  <2>5. NoWorkerSleepsOverAJob'
    <3>1. Takers' = Takers \ {w} /\ Waiting' = Waiting
      BY <1>0, <2>1, ZenonT(30) DEF Takers, Waiting, PoolTypes
    <3>2. Cardinality(Takers') = Cardinality(Takers) - 1
      BY <1>0, <3>1, CountsAreNumbers, FS_RemoveElement, ZenonT(30)
    <3>3. Waiting # {} => Len(jobq_) <= Cardinality(Takers)
      BY ZenonT(30) DEF NoWorkerSleepsOverAJob, Takers
    <3>4. Waiting' # {} => Len(jobq_') <= Cardinality(Takers')
      BY <2>2, <3>1, <3>2, <3>3, CountsAreNumbers
    <3> QED
      BY <3>4, ZenonT(30) DEF NoWorkerSleepsOverAJob, Takers
  <2>6. CASE Head(jobq_) = NULL
    <3>1. Exited' = Exited \cup {w}
      BY <1>0, <2>1, <2>6, ZenonT(30) DEF Exited, PoolTypes
    <3>2. Cardinality(Exited') = Cardinality(Exited) + 1
      BY <1>0, <3>1, CountsAreNumbers, FS_AddElement, ZenonT(30)
    <3>3. pills = Len(jobq_) + Cardinality(Exited)
      <4>1. 1 + pills > Len(jobq_) + Cardinality(Exited)
        BY <2>2, <2>6 DEF PillsComeLast
      <4>2. pills <= Len(jobq_) + Cardinality(Exited) /\ pills \in Nat
        BY ZenonT(30) DEF PillsComeLast, PoolTypes
      <4>3. Len(jobq_) \in Nat /\ Cardinality(Exited) \in Nat
        BY <2>2, CountsAreNumbers, ZenonT(30)
      <4> QED
        BY <4>1, <4>2, <4>3
    <3>4. ASSUME NEW i \in 1 .. Len(jobq_')
          PROVE  jobq_'[i] = NULL
      <4>1. i + 1 \in 1 .. Len(jobq_) /\ jobq_'[i] = jobq_[i + 1]
        BY <2>2
      <4>2. (i + 1) + pills > Len(jobq_) + Cardinality(Exited)
        BY <2>2, <3>3, CountsAreNumbers
      <4> QED
        BY <4>1, <4>2, ZenonT(30) DEF PillsComeLast
    <3>5. pills' = Len(jobq_') + Cardinality(Exited') /\ pills \in Nat
      BY <1>0, <2>2, <3>2, <3>3, CountsAreNumbers DEF PoolTypes
    <3>6. PillsComeLast'
      BY <1>0, <2>2, <3>4, <3>5, CountsAreNumbers DEF PillsComeLast
    <3> QED
      BY <2>3, <2>4, <2>5, <3>6, ZenonT(30)
  <2>7. CASE Head(jobq_) # NULL
    <3>1. Exited' = Exited
      BY <1>0, <2>1, <2>7, ZenonT(30) DEF Exited, PoolTypes
    <3>2. 1 + pills <= Len(jobq_) + Cardinality(Exited)
      BY <2>2, <2>7, CountsAreNumbers DEF PillsComeLast, PoolTypes
    <3>3. Exited = {}
      BY <2>2, <3>2, CountsAreNumbers DEF PillsComeLast, PoolTypes
    <3>4. ASSUME NEW i \in 1 .. Len(jobq_')
          PROVE  jobq_'[i] = NULL <=> i + pills > Len(jobq_') + Cardinality(Exited)
      <4>1. i + 1 \in 1 .. Len(jobq_) /\ jobq_'[i] = jobq_[i + 1]
        BY <2>2
      <4>2. jobq_[i + 1] = NULL <=> (i + 1) + pills > Len(jobq_) + Cardinality(Exited)
        BY <4>1, ZenonT(30) DEF PillsComeLast
      <4>3. pills \in Nat
        BY ZenonT(30) DEF PoolTypes
      <4> QED
        BY <2>2, <4>1, <4>2, <4>3, CountsAreNumbers, SMTT(30)
    <3>5. PillsComeLast'
      BY <1>0, <2>2, <3>1, <3>2, <3>3, <3>4, CountsAreNumbers DEF PillsComeLast, PoolTypes
    <3> QED
      BY <2>3, <2>4, <2>5, <3>5, ZenonT(30)
  <2> QED
    BY <2>6, <2>7, ZenonT(30)
<1> QED
  BY <1>1, <1>2, ZenonT(30)

\* got_pdu adds a request, and the queue holds no pill yet; or it adds nothing.
LEMMA GotPduStep ==
  ASSUME Inv, NEW c \in Conn, got_pdu(c)
  PROVE  Inv'
<1> USE DEF Inv
<1>0. /\ UNCHANGED <<made, accepting, tconns, accepter, dead_, pills, dpc>>
      /\ pills = 0 /\ ~ Closing
  BY NoPillWhileWatched, ZenonT(30) DEF got_pdu, acptVars
<1>1. CASE UNCHANGED <<jobq_, wpc>>
  BY <1>0, <1>1, WorkerMoves, ZenonT(30) DEF PoolTypes
<1>2. CASE enq(c)
  <2>1. /\ NoWorkerSleepsOverAJob' /\ Exited' = Exited
        /\ jobq_' \in Seq(0 .. MaxConns) /\ Len(jobq_') = Len(jobq_) + 1
        /\ \A i \in 1 .. Len(jobq_) : jobq_'[i] = jobq_[i]
        /\ jobq_'[Len(jobq_) + 1] = c
        /\ wpc' \in [Worker -> {"take", "wait", "dispatch", "check", "handler", "pick", "send",
                                "partial", "decref", "exit"}]
    BY <1>2, EnqWakes
  <2>2. PoolTypes' /\ DeleteOrder'
    BY <1>0, <2>1, ZenonT(30) DEF PoolTypes, DeleteOrder, Closing
  <2>3. Cardinality(Exited) = 0 /\ Exited = {} /\ Len(jobq_) \in Nat
    BY <1>0, CountsAreNumbers, FS_EmptySet DEF PillsComeLast, PoolTypes
  <2>4. \A i \in 1 .. Len(jobq_') : jobq_'[i] # NULL
    BY <1>0, <2>1, <2>3 DEF PillsComeLast
  <2>5. PillsComeLast'
    BY <1>0, <2>1, <2>3, <2>4 DEF PillsComeLast
  <2> QED
    BY <2>1, <2>2, <2>5, ZenonT(30)
<1> QED
  BY <1>1, <1>2, ZenonT(30) DEF got_pdu

\* The listener accepts a connection, keeps it and collects dead ones, or ends.
LEMMA AcceptSteps ==
  ASSUME Inv, AcceptStep
  PROVE  Inv'
<1> USE DEF Inv
<1>0. UNCHANGED <<dead_, jobq_, wpc, pills, dpc>>
  BY ZenonT(30) DEF AcceptStep, Accept, process_accept, AccepterStops, connVars, workVars
<1>1. PillsComeLast' /\ NoWorkerSleepsOverAJob'
  BY <1>0, ZenonT(30) DEF PillsComeLast, Exited, NoWorkerSleepsOverAJob, Waiting
<1>2. CASE Accept
  <2>1. /\ made' = made + 1 /\ made < MaxConns /\ accepting' = made' /\ accepting = NULL
        /\ accepter = "run" /\ dpc = "run" /\ UNCHANGED <<tconns, accepter>>
    BY <1>2, ZenonT(30) DEF Accept
  <2>2. PoolTypes'
    BY <1>0, <2>1 DEF PoolTypes
  <2>3. DeleteOrder'
    BY <1>0, <2>1 DEF PoolTypes, DeleteOrder, Closing
  <2> QED
    BY <1>1, <2>2, <2>3, ZenonT(30)
<1>3. CASE process_accept
  <2>1. /\ tconns' = (tconns \ Garbage) \cup {accepting} /\ accepting # NULL
        /\ accepting' = NULL /\ UNCHANGED <<made, accepter>>
    BY <1>3, ZenonT(30) DEF process_accept
  <2>2. \A c \in Garbage : c \in tconns /\ dead_[c]
    BY ZenonT(30) DEF Garbage
  <2>3. PoolTypes'
    <3>1. made \in Nat /\ tconns \subseteq 1 .. made /\ accepting \in 0 .. made
      BY DEF PoolTypes
    <3>2. accepting \in 1 .. made /\ accepting' \in 0 .. made'
      BY <2>1, <3>1
    <3>3. tconns' \subseteq 1 .. made
      BY <2>1, <3>1, <3>2, ZenonT(30)
    <3> QED
      BY <1>0, <2>1, <3>2, <3>3, ZenonT(30) DEF PoolTypes
  <2>4. accepter = "run" /\ ~ Closing /\ dpc # "close"
    BY <2>1, ZenonT(30) DEF PoolTypes, DeleteOrder
  <2>5. DeleteOrder'
    BY <1>0, <2>1, <2>2, <2>4, ZenonT(30) DEF DeleteOrder, Closing
  <2> QED
    BY <1>1, <2>3, <2>5, ZenonT(30)
<1>4. CASE AccepterStops
  <2>1. /\ accepting = NULL /\ dpc # "run" /\ accepter' = "exit"
        /\ UNCHANGED <<made, accepting, tconns>>
    BY <1>4, ZenonT(30) DEF AccepterStops, connVars
  <2>2. PoolTypes' /\ DeleteOrder'
    BY <1>0, <2>1, ZenonT(30) DEF PoolTypes, DeleteOrder, Closing
  <2> QED
    BY <1>1, <2>2, ZenonT(30)
<1> QED
  BY <1>2, <1>3, <1>4, ZenonT(30) DEF AcceptStep

\* ~rpcs begins, joins the listener's thread and closes its connections.
LEMMA DeleteListenerSteps ==
  ASSUME Inv, DeleteServer \/ AccepterJoined \/ closeconn
  PROVE  Inv'
<1> USE DEF Inv
<1>0. UNCHANGED <<made, accepting, accepter, jobq_, wpc, pills>>
  BY ZenonT(30) DEF DeleteServer, AccepterJoined, closeconn, connVars, acptVars, workVars
<1>1. PillsComeLast' /\ NoWorkerSleepsOverAJob'
  BY <1>0, ZenonT(30) DEF PillsComeLast, Exited, NoWorkerSleepsOverAJob, Waiting
<1>2. CASE DeleteServer
  <2>1. dpc = "run" /\ dpc' = "join_accepter" /\ UNCHANGED <<dead_, tconns>>
    BY <1>2, ZenonT(30) DEF DeleteServer, connVars, acptVars
  <2>2. PoolTypes' /\ DeleteOrder'
    BY <1>0, <2>1, ZenonT(30) DEF PoolTypes, DeleteOrder, Closing
  <2> QED
    BY <1>1, <2>2, ZenonT(30)
<1>3. CASE AccepterJoined
  <2>1. /\ dpc = "join_accepter" /\ accepter = "exit" /\ dpc' = "close"
        /\ UNCHANGED <<dead_, tconns>>
    BY <1>3, ZenonT(30) DEF AccepterJoined, connVars, acptVars
  <2>2. PoolTypes' /\ DeleteOrder'
    BY <1>0, <2>1, ZenonT(30) DEF PoolTypes, DeleteOrder, Closing
  <2> QED
    BY <1>1, <2>2, ZenonT(30)
<1>4. ASSUME dpc = "close", UNCHANGED dpc,
             NEW c \in tconns, dead_' = [dead_ EXCEPT ![c] = TRUE], tconns' = tconns \ {c}
      PROVE  Inv'
  <2>1. PoolTypes'
    BY <1>0, <1>4, ZenonT(30) DEF PoolTypes
  <2>2. DeleteOrder'
    BY <1>0, <1>4 DEF PoolTypes, DeleteOrder, Closing
  <2> QED
    BY <1>1, <2>1, <2>2, ZenonT(30)
<1>5. CASE dpc = "close" /\ tconns = {} /\ dpc' = "pills" /\ UNCHANGED <<dead_, tconns>>
  <2>1. PoolTypes' /\ DeleteOrder'
    BY <1>0, <1>5, ZenonT(30) DEF PoolTypes, DeleteOrder, Closing
  <2> QED
    BY <1>1, <2>1, ZenonT(30)
<1>6. CASE closeconn
  BY <1>4, <1>5, <1>6, ZenonT(30) DEF closeconn
<1> QED
  BY <1>2, <1>3, <1>6, ZenonT(30)

\* ~ThrPool adds a pill, waits for room, or joins the last worker, which took
\* the last pill.
LEMMA PoisonPillsStep ==
  ASSUME Inv, PoisonPills
  PROVE  Inv'
<1> USE DEF Inv
<1>0. dpc = "pills" /\ Closing /\ UNCHANGED <<made, accepting, tconns, accepter, dead_>>
  BY ZenonT(30) DEF PoisonPills, connVars, acptVars, Closing
<1>1. CASE enq(NULL) /\ pills' = pills + 1 /\ UNCHANGED dpc
  <2>1. /\ NoWorkerSleepsOverAJob' /\ Exited' = Exited
        /\ jobq_' \in Seq(0 .. MaxConns) /\ Len(jobq_') = Len(jobq_) + 1
        /\ \A i \in 1 .. Len(jobq_) : jobq_'[i] = jobq_[i]
        /\ jobq_'[Len(jobq_) + 1] = NULL
        /\ wpc' \in [Worker -> {"take", "wait", "dispatch", "check", "handler", "pick", "send",
                                "partial", "decref", "exit"}]
    BY <1>1, EnqWakes
  <2>2. PoolTypes' /\ DeleteOrder'
    BY <1>0, <1>1, <2>1 DEF PoolTypes, DeleteOrder, Closing
  <2>3. /\ Len(jobq_) \in Nat /\ pills \in Nat /\ Cardinality(Exited) \in Nat
        /\ Cardinality(Exited) <= pills /\ pills <= Len(jobq_) + Cardinality(Exited)
        /\ Exited # {} => pills = Len(jobq_) + Cardinality(Exited)
    BY CountsAreNumbers DEF PoolTypes, PillsComeLast
  <2>4. ASSUME NEW i \in 1 .. Len(jobq_')
        PROVE  jobq_'[i] = NULL <=> i + pills' > Len(jobq_') + Cardinality(Exited)
    <3>1. CASE i = Len(jobq_) + 1
      BY <1>1, <2>1, <2>3, <3>1
    <3>2. CASE i # Len(jobq_) + 1
      <4>1. i \in 1 .. Len(jobq_) /\ jobq_'[i] = jobq_[i]
        BY <2>1, <2>3, <3>2
      <4>2. jobq_[i] = NULL <=> i + pills > Len(jobq_) + Cardinality(Exited)
        BY <4>1, ZenonT(30) DEF PillsComeLast
      <4> QED
        BY <1>1, <2>1, <2>3, <4>1, <4>2, SMTT(30)
    <3> QED
      BY <3>1, <3>2, ZenonT(30)
  <2>5. PillsComeLast'
    BY <1>1, <2>1, <2>3, <2>4 DEF PillsComeLast
  <2> QED
    BY <2>1, <2>2, <2>5, ZenonT(30)
<1>2. CASE dpc' = "wait_space" /\ UNCHANGED <<jobq_, wpc, pills>>
  BY <1>0, <1>2, ZenonT(30) DEF PoolTypes, DeleteOrder, Closing, PillsComeLast, Exited,
                    NoWorkerSleepsOverAJob, Waiting
<1>3. CASE /\ pills = Cardinality(Worker) /\ \A w \in Worker : wpc[w] = "exit"
           /\ dpc' = "deleted" /\ UNCHANGED <<jobq_, wpc, pills>>
  <2>1. Exited = Worker
    BY <1>3, ZenonT(30) DEF Exited
  <2>2. jobq_ = <<>>
    BY <1>3, <2>1, CountsAreNumbers DEF PillsComeLast, PoolTypes
  <2>3. PoolTypes' /\ DeleteOrder'
    BY <1>0, <1>3, <2>2, ZenonT(30) DEF PoolTypes, DeleteOrder, Closing
  <2>4. PillsComeLast' /\ NoWorkerSleepsOverAJob'
    BY <1>3, ZenonT(30) DEF PillsComeLast, Exited, NoWorkerSleepsOverAJob, Waiting
  <2> QED
    BY <2>3, <2>4, ZenonT(30)
<1> QED
  BY <1>1, <1>2, <1>3, ZenonT(30) DEF PoisonPills

\* The other steps of a worker, from dispatch to its return.
LEMMA DispatchSteps ==
  ASSUME Inv, NEW w \in Worker, WorkerStep(w), ~ takeJob(w)
  PROVE  Inv'
<1> USE DEF Inv
<1>1. UNCHANGED <<made, accepting, tconns, accepter, jobq_, dpc, pills>>
  BY ZenonT(30) DEF WorkerStep, OldServer, SaveConnection, checkduplicate, HandlerReturns, Pick, Send,
         SendCompletes, DispatchReturns, connVars, acptVars
<1> DEFINE Moves ==
      /\ \E to \in {"take", "check", "handler", "pick", "send", "partial", "decref"} : Step(w, to)
      /\ wpc[w] \in {"dispatch", "check", "handler", "pick", "send", "partial", "decref"}
      /\ UNCHANGED dead_ \/ dead_' = [dead_ EXCEPT ![c_[w]] = TRUE]
<1>2. Moves
  <2>1. CASE OldServer(w)
    BY <2>1, ZenonT(30) DEF OldServer, connVars
  <2>2. CASE SaveConnection(w)
    BY <2>2, ZenonT(30) DEF SaveConnection
  <2>3. CASE checkduplicate(w)
    BY <2>3, ZenonT(30) DEF checkduplicate, connVars
  <2>4. CASE HandlerReturns(w)
    BY <2>4, ZenonT(30) DEF HandlerReturns, connVars
  <2>5. CASE Pick(w)
    BY <2>5, ZenonT(30) DEF Pick
  <2>6. CASE Send(w)
    BY <2>6, ZenonT(30) DEF Send
  <2>7. CASE SendCompletes(w)
    BY <2>7, ZenonT(30) DEF SendCompletes, connVars
  <2>8. CASE DispatchReturns(w)
    BY <2>8, ZenonT(30) DEF DispatchReturns
  <2> QED
    BY <2>1, <2>2, <2>3, <2>4, <2>5, <2>6, <2>7, <2>8, ZenonT(30) DEF WorkerStep
<1>3. dead_' \in [Conn -> BOOLEAN] /\ \A c \in Conn : dead_[c] => dead_'[c]
  BY <1>2, ZenonT(30) DEF PoolTypes
<1>4. /\ wpc' \in [Worker -> {"take", "wait", "dispatch", "check", "handler", "pick", "send",
                              "partial", "decref", "exit"}]
      /\ \A v \in Worker : /\ wpc'[v] = "wait" <=> wpc[v] = "wait"
                           /\ wpc'[v] = "exit" <=> wpc[v] = "exit"
                           /\ wpc[v] = "take" => wpc'[v] = "take"
  BY <1>2, ZenonT(60) DEF Step, PoolTypes
<1> HIDE DEF Inv
<1> QED
  BY <1>1, <1>3, <1>4, WorkerMoves, ZenonT(30)

\* A lost connection is found dead, and a sender on it goes on.
LEMMA ReadEofStep ==
  ASSUME Inv, NEW c \in Conn, read_eof(c)
  PROVE  Inv'
<1> USE DEF Inv
<1>1. UNCHANGED <<made, accepting, tconns, accepter, jobq_, dpc, pills>>
  BY ZenonT(30) DEF read_eof, acptVars
<1>2. dead_' \in [Conn -> BOOLEAN] /\ \A d \in Conn : dead_[d] => dead_'[d]
  BY ZenonT(30) DEF read_eof, PoolTypes
<1>3. /\ wpc' \in [Worker -> {"take", "wait", "dispatch", "check", "handler", "pick", "send",
                              "partial", "decref", "exit"}]
      /\ \A v \in Worker : /\ wpc'[v] = "wait" <=> wpc[v] = "wait"
                           /\ wpc'[v] = "exit" <=> wpc[v] = "exit"
                           /\ wpc[v] = "take" => wpc'[v] = "take"
  BY ZenonT(30) DEF read_eof, PoolTypes
<1> QED
  BY <1>1, <1>2, <1>3, WorkerMoves, ZenonT(30)

\* A step that touches nothing the pool depends on.
LEMMA PoolFrame ==
  ASSUME Inv, UNCHANGED <<made, accepting, tconns, accepter, dead_, jobq_, wpc, dpc, pills>>
  PROVE  Inv'
BY WorkerMoves, ZenonT(30) DEF Inv, PoolTypes

-----------------------------------------------------------------------------
(* The theorems *)

\* A new server has an empty queue and all its workers on their way to it.
LEMMA InitInv == Init => Inv
<1> SUFFICES ASSUME Init
             PROVE  Inv
  OBVIOUS
<1>1. Exited = {} /\ Waiting = {} /\ Len(jobq_) = 0
  BY ZenonT(30) DEF Init, Exited, Waiting
<1>2. Cardinality(Exited) = 0
  BY <1>1, FS_EmptySet, ZenonT(30)
<1>3. PoolTypes
  BY DEF Init, PoolTypes
<1>4. DeleteOrder
  BY DEF Init, DeleteOrder, Closing
<1>5. PillsComeLast
  BY <1>1, <1>2 DEF Init, PillsComeLast
<1>6. NoWorkerSleepsOverAJob
  BY <1>1, ZenonT(30) DEF NoWorkerSleepsOverAJob
<1> QED
  BY <1>3, <1>4, <1>5, <1>6, ZenonT(30) DEF Inv

\* Every step of the server, its clients and its deletion keeps the invariant.
LEMMA NextInv == Inv /\ [Next]_vars => Inv'
<1> SUFFICES ASSUME Inv, [Next]_vars
             PROVE  Inv'
  OBVIOUS
<1>1. CASE UNCHANGED vars
  BY <1>1, PoolFrame, ZenonT(30) DEF vars, connVars, acptVars, workVars
<1>2. CASE GotPduReturns
  BY <1>2, PoolFrame, ZenonT(30) DEF GotPduReturns, connVars, acptVars, workVars
<1>3. CASE \E c \in Conn : got_pdu(c) \/ read_eof(c)
  BY <1>3, GotPduStep, ReadEofStep, ZenonT(30)
<1>4. CASE AcceptStep
  BY <1>4, AcceptSteps, ZenonT(30)
<1>5. CASE DeleteServer \/ DeleteStep
  BY <1>5, DeleteListenerSteps, PoisonPillsStep, ZenonT(30) DEF DeleteStep
<1>6. ASSUME NEW w \in Worker, WorkerStep(w)
      PROVE  Inv'
  BY <1>6, TakeJobStep, DispatchSteps, ZenonT(30)
<1>7. CASE \E c \in Conn : ClientBreaks(c)
  BY <1>7, PoolFrame, ZenonT(30) DEF ClientBreaks, acptVars, workVars
<1>8. CASE set_reachable
  BY <1>8, PoolFrame, ZenonT(30) DEF set_reachable, connVars, acptVars, workVars
<1> QED
  BY <1>1, <1>2, <1>3, <1>4, <1>5, <1>6, <1>7, <1>8, ZenonT(30) DEF Next, PollStep

\* fifo::enq signals one thread for each job, and that is enough: whenever a
\* worker waits on non_empty_c_, all jobs have other workers on their way.
THEOREM NoWorkerEverSleepsOverAJob == Spec => []NoWorkerSleepsOverAJob
<1>1. Inv => NoWorkerSleepsOverAJob
  BY ZenonT(30) DEF Inv
<1> QED
  BY <1>1, InitInv, NextInv, PTL DEF Spec

\* What the invariant says of the pool when ~rpcs is through with it.
LEMMA InvDrained == Inv => PoolIsDrained
<1> SUFFICES ASSUME Inv
             PROVE  PoolIsDrained
  OBVIOUS
<1>1. ASSUME NEW i \in 1 .. Len(jobq_), jobq_[i] = NULL, NEW j \in i .. Len(jobq_)
      PROVE  jobq_[j] = NULL
  <2>1. /\ i + pills > Len(jobq_) + Cardinality(Exited) /\ j \in 1 .. Len(jobq_)
        /\ Len(jobq_) \in Nat /\ pills \in Nat /\ Cardinality(Exited) \in Nat
    BY <1>1, CountsAreNumbers, SMTT(30) DEF Inv, PillsComeLast, PoolTypes
  <2>2. j + pills > Len(jobq_) + Cardinality(Exited)
    BY <2>1
  <2> QED
    BY <2>1, <2>2, ZenonT(30) DEF Inv, PillsComeLast
<1>2. DOMAIN jobq_ = 1 .. Len(jobq_)
  BY DEF Inv, PoolTypes
<1>3. ASSUME dpc = "deleted"
      PROVE  jobq_ = <<>> /\ \A c \in 1 .. made : dead_[c]
  BY <1>3 DEF Inv, DeleteOrder, Closing, PoolTypes
<1> QED
  BY <1>1, <1>2, <1>3, ZenonT(30) DEF PoolIsDrained

\* ~rpcs deletes the listener before the pool: no request follows a poison
\* pill, and no job and no open connection outlives the pool.
THEOREM PoolIsAlwaysDrained == Spec => []PoolIsDrained
BY InvDrained, InitInv, NextInv, PTL DEF Spec

-----------------------------------------------------------------------------
(* Counting references *)

Same(x, y) == IF x = y THEN 1 ELSE 0

\* Where a table or a queue refers to c.
Places(f, c) == {i \in DOMAIN f : f[i] = c}

\* A table with one entry changed.
Changed(f, x, d) == [f EXCEPT ![x] = d]

\* One entry of a table changes: one count less, another one more.
LEMMA EntryMoves ==
  ASSUME NEW f, NEW x \in DOMAIN f, NEW d, NEW c, IsFiniteSet(Places(f, c))
  PROVE  Cardinality(Places(Changed(f, x, d), c)) =
           Cardinality(Places(f, c)) - Same(f[x], c) + Same(d, c)
<1> USE DEF Changed
<1> DEFINE g == [f EXCEPT ![x] = d]
           F == Places(f, c)
           G == Places(g, c)
<1>0. Cardinality(F) \in Nat
  BY FS_CardinalityType, Zenon
<1>1. F = {y \in DOMAIN f : f[y] = c} /\ G = {y \in DOMAIN f : g[y] = c}
  BY Zenon DEF Places
<1>2. CASE f[x] = c /\ d = c
  <2>1. G = F
    BY <1>1, <1>2, Zenon
  <2> HIDE DEF F, G
  <2>2. Cardinality(G) = Cardinality(F) - Same(f[x], c) + Same(d, c)
    BY <1>0, <1>2, <2>1 DEF Same
  <2> QED BY <2>2, Zenon DEF F, G
<1>3. CASE f[x] # c /\ d # c
  <2>1. G = F
    BY <1>1, <1>3, Zenon
  <2> HIDE DEF F, G
  <2>2. Cardinality(G) = Cardinality(F) - Same(f[x], c) + Same(d, c)
    BY <1>0, <1>3, <2>1 DEF Same
  <2> QED BY <2>2, Zenon DEF F, G
<1>4. CASE f[x] = c /\ d # c
  <2>1. G = F \ {x} /\ x \in F /\ IsFiniteSet(F)
    BY <1>1, <1>4, Zenon
  <2> HIDE DEF F, G
  <2>2. Cardinality(G) = Cardinality(F) - 1
    BY <2>1, FS_RemoveElement, Zenon
  <2>3. Cardinality(G) = Cardinality(F) - Same(f[x], c) + Same(d, c)
    BY <1>0, <1>4, <2>2 DEF Same
  <2> QED BY <2>3, Zenon DEF F, G
<1>5. CASE f[x] # c /\ d = c
  <2>1. G = F \cup {x} /\ x \notin F /\ IsFiniteSet(F)
    BY <1>1, <1>5, Zenon
  <2> HIDE DEF F, G
  <2>2. Cardinality(G) = Cardinality(F) + 1
    BY <2>1, FS_AddElement, Zenon
  <2>3. Cardinality(G) = Cardinality(F) - Same(f[x], c) + Same(d, c)
    BY <1>0, <1>5, <2>2 DEF Same
  <2> QED BY <2>3, Zenon DEF F, G
<1> QED BY <1>2, <1>3, <1>4, <1>5, Zenon

\* The places of c in a queue are finitely many.
LEMMA PlacesFinite ==
  ASSUME NEW T, NEW s \in Seq(T), NEW c
  PROVE  IsFiniteSet(Places(s, c)) /\ Cardinality(Places(s, c)) \in Nat
<1>1. DOMAIN s = 1 .. Len(s) /\ Len(s) \in Nat
  OBVIOUS
<1>2. IsFiniteSet(1 .. Len(s))
  BY <1>1, FS_Interval
<1>3. Places(s, c) \in SUBSET (1 .. Len(s))
  BY <1>1, Zenon DEF Places
<1> QED BY <1>2, <1>3, FS_Subset, FS_CardinalityType, Zenon

\* Append adds a place.
LEMMA PlaceAdded ==
  ASSUME NEW T, NEW s \in Seq(T), NEW d \in T, NEW c
  PROVE  Cardinality(Places(Append(s, d), c)) = Cardinality(Places(s, c)) + Same(d, c)
<1> DEFINE t == Append(s, d)
           n == Len(s) + 1
           F == Places(s, c)
           G == Places(t, c)
<1>1. /\ DOMAIN s = 1 .. Len(s) /\ Len(s) \in Nat /\ DOMAIN t = 1 .. n
      /\ \A i \in 1 .. Len(s) : t[i] = s[i]
      /\ t[n] = d
  OBVIOUS
<1>2. 1 .. n = (1 .. Len(s)) \cup {n} /\ n \notin 1 .. Len(s)
  BY <1>1
<1>3. IsFiniteSet(F) /\ Cardinality(F) \in Nat
  BY PlacesFinite, Zenon
<1> HIDE DEF n, t
<1>4. CASE d = c
  <2>1. G = F \cup {n} /\ n \notin F
    BY <1>1, <1>2, <1>4, Zenon DEF Places
  <2> HIDE DEF F, G
  <2>2. Cardinality(G) = Cardinality(F) + 1
    BY <1>3, <2>1, FS_AddElement, Zenon
  <2>3. Cardinality(G) = Cardinality(F) + Same(d, c)
    BY <1>4, <2>2 DEF Same
  <2> QED BY <2>3, Zenon DEF F, G, t
<1>5. CASE d # c
  <2>1. G = F
    BY <1>1, <1>2, <1>5, Zenon DEF Places
  <2> HIDE DEF F, G
  <2>2. Cardinality(G) = Cardinality(F) + Same(d, c)
    BY <1>3, <1>5, <2>1 DEF Same
  <2> QED BY <2>2, Zenon DEF F, G, t
<1> QED BY <1>4, <1>5, Zenon

\* The head and the tail of a queue.
LEMMA TailTypes ==
  ASSUME NEW T, NEW s \in Seq(T), s # <<>>
  PROVE  /\ Head(s) \in T /\ Tail(s) \in Seq(T)
         /\ Len(s) \in Nat \ {0} /\ Len(Tail(s)) = Len(s) - 1
OBVIOUS

\* Tail takes the first place; the others move up.
LEMMA PlaceTaken ==
  ASSUME NEW T, NEW s \in Seq(T), s # <<>>, NEW c
  PROVE  Cardinality(Places(s, c)) = Cardinality(Places(Tail(s), c)) + Same(Head(s), c)
<1> DEFINE t == Tail(s)
           F == Places(s, c)
           G == Places(t, c)
           H == F \ {1}
           up == [i \in G |-> i + 1]
<1>1. /\ DOMAIN s = 1 .. Len(s) /\ Len(s) \in Nat \ {0} /\ Head(s) = s[1] /\ t \in Seq(T)
      /\ DOMAIN t = 1 .. (Len(s) - 1)
      /\ \A i \in 1 .. (Len(s) - 1) : t[i] = s[i + 1]
  OBVIOUS
<1>2. IsFiniteSet(F) /\ Cardinality(F) \in Nat /\ IsFiniteSet(G) /\ Cardinality(G) \in Nat
  BY <1>1, PlacesFinite, Zenon
<1> HIDE DEF t
<1>3. up \in [G -> H]
  BY <1>1 DEF Places
<1>4. \A i, j \in G : up[i] = up[j] => i = j
  BY <1>1 DEF Places
<1>5. \A j \in H : \E i \in G : up[i] = j
  <2> SUFFICES ASSUME NEW j \in H PROVE \E i \in G : up[i] = j
    OBVIOUS
  <2>1. j - 1 \in G /\ up[j - 1] = j
    BY <1>1 DEF Places
  <2> QED BY <2>1, Zenon
<1>6. Cardinality(H) = Cardinality(G)
  <2> HIDE DEF up, G, H
  <2>0. IsInjective(up)
    BY <1>3, <1>4, Zenon DEF IsInjective
  <2>1. up \in Bijection(G, H)
    BY <1>3, <1>5, <2>0, Zenon DEF Bijection, Injection, Surjection
  <2>2. ExistsBijection(G, H)
    BY <2>1, Zenon DEF ExistsBijection
  <2> QED BY <1>2, <2>2, FS_Bijection, Zenon
<1>7. Cardinality(H) = IF 1 \in F THEN Cardinality(F) - 1 ELSE Cardinality(F)
  BY <1>2, FS_RemoveElement, Zenon
<1>8. 1 \in F <=> Head(s) = c
  BY <1>1 DEF Places
<1> HIDE DEF F, G, H
<1>9. Cardinality(F) = Cardinality(G) + Same(Head(s), c)
  BY <1>2, <1>6, <1>7, <1>8 DEF Same
<1> QED BY <1>9, Zenon DEF F, G, t

\* Each of the sets that count a connection is finite.
LEMMA ReferenceTypes ==
  ASSUME ServerInv, NEW c \in Conn
  PROVE  /\ IsFiniteSet(Kept(c)) /\ Cardinality(Kept(c)) \in Nat
         /\ IsFiniteSet(Queued(c)) /\ Cardinality(Queued(c)) \in Nat
         /\ IsFiniteSet(Served(c)) /\ Cardinality(Served(c)) \in Nat
         /\ Listed(c) \in {0, 1} /\ leaked[c] \in Nat /\ refno_[c] \in Int
<1>1. Kept(c) \in SUBSET {clt[c]} /\ IsFiniteSet({clt[c]})
  <2>1. c # NULL
    OBVIOUS
  <2> QED BY <2>1, FS_Singleton, Zenon DEF Kept, ServerInv, Superseded
<1>2. IsFiniteSet(Kept(c)) /\ Cardinality(Kept(c)) \in Nat
  BY <1>1, FS_Subset, FS_CardinalityType, Zenon
<1>3. IsFiniteSet(Queued(c)) /\ Cardinality(Queued(c)) \in Nat
  <2>1. jobq_ \in Seq(0 .. made)
    BY Zenon DEF ServerInv, ServerTypes
  <2> QED BY <2>1, PlacesFinite, Zenon DEF Queued, Places
<1>4. Served(c) \in SUBSET Worker
  BY Zenon DEF Served
<1>5. Listed(c) \in {0, 1} /\ leaked[c] \in Nat /\ refno_[c] \in Int
  BY Zenon DEF Listed, ServerInv, ServerTypes
<1> QED BY <1>2, <1>3, <1>4, <1>5, WorkersFinite, Zenon

\* What is referred to is counted, so it has not been deleted.
LEMMA ReferencedIsLive ==
  ASSUME ServerInv, NEW c \in Conn,
         c \in tconns \cup {accepting} \/ Kept(c) # {} \/ Queued(c) # {} \/ Served(c) # {}
  PROVE  refno_[c] >= 1 /\ c \notin freed
<1>1. \/ Listed(c) = 1 \/ Cardinality(Kept(c)) # 0
      \/ Cardinality(Queued(c)) # 0 \/ Cardinality(Served(c)) # 0
  BY ReferenceTypes, FS_EmptySet, Zenon DEF Listed
<1>2. refno_[c] = References(c)
  BY Zenon DEF ServerInv, Counted
<1>3. refno_[c] >= 1
  BY <1>1, <1>2, ReferenceTypes DEF References
<1>4. c \in freed => refno_[c] = 0
  BY Zenon DEF ServerInv, Counted
<1> QED BY <1>3, <1>4

\* The connection a worker serves.
LEMMA ServedIsLive ==
  ASSUME ServerInv, NEW w \in Worker, wpc[w] \notin {"take", "wait", "exit"}
  PROVE  /\ c_[w] \in 1 .. made /\ c_[w] \in Conn /\ clt[c_[w]] \in Client
         /\ w \in Served(c_[w]) /\ refno_[c_[w]] >= 1 /\ c_[w] \notin freed
<1>1. c_[w] \in 0 .. made /\ made \in 0 .. MaxConns /\ c_[w] # NULL
  BY Zenon DEF ServerInv, ServerTypes, WorkerOf, Inv, PoolTypes
<1>2. c_[w] \in 1 .. made /\ c_[w] \in Conn
  BY <1>1
<1>3. w \in Served(c_[w]) /\ clt[c_[w]] \in Client
  BY <1>2, Zenon DEF Served, ServerInv, ServerTypes
<1> QED BY <1>2, <1>3, ReferencedIsLive, Zenon

\* The connection a client was last seen on.
LEMMA KeptIsLive ==
  ASSUME ServerInv, NEW k \in Client, conns_[k] # NULL
  PROVE  /\ conns_[k] \in 1 .. made /\ conns_[k] \in Conn /\ clt[conns_[k]] = k
         /\ k \in Kept(conns_[k]) /\ refno_[conns_[k]] >= 1 /\ conns_[k] \notin freed
<1>1. conns_[k] \in 0 .. made /\ made \in 0 .. MaxConns
  BY Zenon DEF ServerInv, ServerTypes, Inv, PoolTypes
<1>2. conns_[k] \in 1 .. made /\ conns_[k] \in Conn
  BY <1>1
<1>3. k \in Kept(conns_[k]) /\ clt[conns_[k]] = k
  BY <1>2, Zenon DEF Kept, ServerInv, Superseded
<1> QED BY <1>2, <1>3, ReferencedIsLive, Zenon

\* A step that moves no reference.
LEMMA CountedFrame ==
  ASSUME ServerInv, UNCHANGED <<made, freed, refno_, tconns, accepting, conns_, jobq_, c_, leaked>>,
         \A c \in Conn : dead_[c] => dead_'[c]
  PROVE  Counted'
<1>1. \A c \in Conn : References(c)' = References(c)
  BY Zenon DEF References, Listed, Kept, Queued, Served
<1>2. freed \subseteq Conn
  BY DEF ServerInv, ServerTypes, Inv, PoolTypes
<1> QED BY <1>1, <1>2, Zenon DEF ServerInv, Counted

\* A step in which the count of each connection changes as its references do,
\* and which deletes only what is dead and no longer counted.
LEMMA CountedStep ==
  ASSUME ServerInv, ServerTypes', PoolTypes', UNCHANGED made,
         \A c \in Conn : dead_[c] => dead_'[c],
         \A c \in Conn : refno_'[c] - refno_[c] = References(c)' - References(c),
         \A c \in Conn : References(c)' \in Int,
         \A c \in Conn : refno_'[c] # refno_[c] => refno_[c] >= 1,
         \A c \in Conn : c \in freed' \ freed => dead_'[c] /\ refno_'[c] = 0
  PROVE  Counted'
<1>1. \A c \in Conn : refno_'[c] = References(c)'
  <2> SUFFICES ASSUME NEW c \in Conn PROVE refno_'[c] = References(c)'
    OBVIOUS
  <2>1. refno_[c] = References(c) /\ refno_[c] \in Int /\ refno_'[c] \in Int
    BY Zenon DEF ServerInv, Counted, ServerTypes
  <2>2. refno_'[c] - refno_[c] = References(c)' - References(c) /\ References(c)' \in Int
    OBVIOUS
  <2> QED BY <2>1, <2>2
<1>2. freed' \subseteq Conn
  BY DEF ServerTypes, PoolTypes
<1>3. ASSUME NEW c \in Conn, refno_[c] = 0
      PROVE  refno_'[c] = 0
  BY <1>3
<1>4. \A c \in freed' : dead_'[c] /\ refno_'[c] = 0
  BY <1>2, <1>3, Zenon DEF ServerInv, Counted
<1>5. \A c \in Conn : c > made' => refno_'[c] = 0
  BY <1>3, Zenon DEF ServerInv, Counted
<1> QED BY <1>1, <1>4, <1>5, Zenon DEF Counted

-----------------------------------------------------------------------------
(* The references and the steps *)

\* One count goes up or down.
LEMMA CountChanges ==
  ASSUME NEW f \in [Conn -> Int], NEW c \in Conn
  PROVE  /\ Drop(f, c) \in [Conn -> Int] /\ [f EXCEPT ![c] = @ + 1] \in [Conn -> Int]
         /\ \A d \in Conn : Drop(f, c)[d] = f[d] - Same(c, d)
         /\ \A d \in Conn : [f EXCEPT ![c] = @ + 1][d] = f[d] + Same(c, d)
BY DEF Drop, Same

\* The state keeps its types.
LEMMA TypesNext ==
  ASSUME ServerInv, Next
  PROVE  ServerTypes' /\ PoolTypes' /\ (made' = made \/ Accept)
<1>0. Inv' /\ PoolTypes' /\ PoolTypes
  BY NextInv, Zenon DEF ServerInv, Inv
<1> USE DEF ServerInv
<1>1. CASE GotPduReturns \/ DeleteServer \/ AccepterJoined \/ AccepterStops \/ set_reachable
  BY <1>0, <1>1, Zenon DEF GotPduReturns, DeleteServer, AccepterJoined, AccepterStops, set_reachable,
     connVars, acptVars, workVars, histVars, ServerTypes
<1>2. ASSUME NEW c \in Conn, got_pdu(c)
      PROVE  ServerTypes' /\ made' = made
  <2>1. /\ UNCHANGED <<made, freed, clt, broken, conns_, seen, c_, leaked, tconns, accepting>>
        /\ c \in 1 .. made
    BY <1>2, Zenon DEF got_pdu, acptVars, histVars, Watched
  <2>2. CASE UNCHANGED <<jobq_, refno_>>
    BY <2>1, <2>2, Zenon DEF ServerTypes
  <2>3. CASE enq(c) /\ refno_' = [refno_ EXCEPT ![c] = @ + 1]
    <3>1. jobq_ \in Seq(0 .. made) /\ c \in 0 .. made /\ Len(jobq_) < MaxJobs
          /\ jobq_' = Append(jobq_, c)
      BY <2>1, <2>3 DEF ServerTypes, enq
    <3>2. jobq_' \in Seq(0 .. made) /\ Len(jobq_') <= MaxJobs
      BY <3>1
    <3>3. refno_' \in [Conn -> Int]
      BY <2>3 DEF ServerTypes
    <3> QED BY <2>1, <3>2, <3>3, Zenon DEF ServerTypes
  <2> QED BY <1>2, <2>1, <2>2, <2>3, Zenon DEF got_pdu
<1>3. ASSUME NEW c \in Conn, read_eof(c) \/ ClientBreaks(c)
      PROVE  ServerTypes' /\ made' = made
  BY <1>3, Zenon DEF read_eof, ClientBreaks, acptVars, histVars, workVars, ServerTypes
<1>4. CASE Accept
  <2>1. /\ made' = made + 1 /\ accepting' = made' /\ made < MaxConns /\ made \in Nat
        /\ refno_' = [refno_ EXCEPT ![made'] = 1] /\ tconns \subseteq 1 .. made
        /\ UNCHANGED <<freed, clt, broken, conns_, seen, c_, leaked, tconns, jobq_>>
    BY <1>0, <1>4 DEF Accept, histVars, workVars, PoolTypes
  <2>2. 0 .. made \subseteq 0 .. made' /\ 1 .. made \subseteq 1 .. made' /\ accepting' \notin tconns'
    BY <2>1
  <2>3. refno_' \in [Conn -> Int]
    BY <2>1 DEF ServerTypes
  <2>4. jobq_' \in Seq(0 .. made') /\ Len(jobq_') <= MaxJobs
    BY <2>1, <2>2 DEF ServerTypes
  <2>5. conns_' \in [Client -> 0 .. made'] /\ c_' \in [Worker -> 0 .. made']
    BY <2>1, <2>2 DEF ServerTypes
  <2> QED BY <1>0, <1>4, <2>1, <2>2, <2>3, <2>4, <2>5, ZenonT(30) DEF ServerTypes
<1>5. CASE process_accept
  <2>1. /\ refno_' = [c \in Conn |-> IF c \in Garbage THEN refno_[c] - 1 ELSE refno_[c]]
        /\ freed' = freed \cup Garbage /\ accepting' = NULL
        /\ Garbage \subseteq tconns
        /\ UNCHANGED <<made, clt, broken, conns_, seen, c_, leaked, jobq_>>
    BY <1>5, Zenon DEF process_accept, Garbage, histVars, workVars
  <2>2. tconns' \subseteq 1 .. made' /\ tconns \subseteq 1 .. made
    BY <1>0, Zenon DEF PoolTypes
  <2>3. accepting' \notin tconns' /\ freed' \subseteq 1 .. made'
    BY <2>1, <2>2 DEF ServerTypes
  <2>4. refno_' \in [Conn -> Int]
    BY <2>1 DEF ServerTypes
  <2> QED BY <1>0, <2>1, <2>3, <2>4, Zenon DEF ServerTypes
<1>6. CASE closeconn
  <2>1. UNCHANGED <<made, clt, conns_, seen, c_, leaked, jobq_, accepting>>
    BY <1>6, Zenon DEF closeconn, histVars, workVars
  <2>2. CASE UNCHANGED <<refno_, freed, tconns, broken>>
    BY <1>0, <2>1, <2>2, Zenon DEF ServerTypes
  <2>3. ASSUME NEW c \in tconns, refno_' = Drop(refno_, c), tconns' = tconns \ {c},
               broken' = [broken EXCEPT ![c] = TRUE],
               freed' = IF refno_'[c] = 0 THEN freed \cup {c} ELSE freed
        PROVE  ServerTypes'
    <3>1. c \in 1 .. made /\ freed' \subseteq 1 .. made' /\ accepting' \notin tconns'
      BY <1>0, <2>1, <2>3, Zenon DEF ServerTypes, PoolTypes
    <3>2. refno_' \in [Conn -> Int]
      <4>1. c \in Conn /\ refno_ \in [Conn -> Int]
        BY <1>0, <3>1 DEF ServerTypes, PoolTypes
      <4> QED BY <2>3, <4>1, CountChanges, Zenon
    <3>3. broken' \in [Conn -> BOOLEAN]
      BY <2>3, Zenon DEF ServerTypes
    <3> QED BY <2>1, <3>1, <3>2, <3>3, Zenon DEF ServerTypes
  <2> QED BY <1>0, <1>6, <2>1, <2>2, <2>3, Zenon DEF closeconn
<1>7. CASE PoisonPills
  <2>1. UNCHANGED <<made, freed, clt, refno_, broken, conns_, seen, c_, leaked, tconns, accepting>>
    BY <1>7, Zenon DEF PoisonPills, connVars, acptVars, histVars
  <2>2. CASE UNCHANGED jobq_
    BY <1>0, <2>1, <2>2, Zenon DEF ServerTypes
  <2>3. CASE enq(NULL)
    <3>1. jobq_ \in Seq(0 .. made) /\ NULL \in 0 .. made /\ Len(jobq_) < MaxJobs
          /\ jobq_' = Append(jobq_, NULL)
      BY <1>0, <2>3 DEF ServerTypes, enq, PoolTypes
    <3>2. jobq_' \in Seq(0 .. made) /\ Len(jobq_') <= MaxJobs
      BY <3>1
    <3> QED BY <1>0, <2>1, <3>2, Zenon DEF ServerTypes
  <2> QED BY <1>7, <2>2, <2>3, Zenon DEF PoisonPills
<1>8. ASSUME NEW w \in Worker, takeJob(w)
      PROVE  ServerTypes' /\ made' = made
  <2>1. UNCHANGED <<made, freed, clt, refno_, broken, conns_, seen, leaked, tconns, accepting>>
    BY <1>8, Zenon DEF takeJob, connVars, acptVars, histVars
  <2>2. CASE UNCHANGED <<jobq_, c_>>
    BY <2>1, <2>2, Zenon DEF ServerTypes
  <2>3. CASE jobq_ # <<>> /\ jobq_' = Tail(jobq_) /\ c_' = [c_ EXCEPT ![w] = Head(jobq_)]
    <3>1. /\ jobq_' \in Seq(0 .. made) /\ Head(jobq_) \in 0 .. made
          /\ Len(jobq_) \in Nat \ {0} /\ Len(jobq_') = Len(jobq_) - 1
      BY <2>3, TailTypes, Zenon DEF ServerTypes
    <3>2. Len(jobq_') <= MaxJobs
      BY <3>1 DEF ServerTypes
    <3>3. c_' \in [Worker -> 0 .. made]
      BY <2>3, <3>1, Zenon DEF ServerTypes
    <3> QED BY <2>1, <3>1, <3>2, <3>3, Zenon DEF ServerTypes
  <2> QED BY <1>8, <2>1, <2>2, <2>3, Zenon DEF takeJob
<1>9. ASSUME NEW w \in Worker, OldServer(w) \/ checkduplicate(w) \/ HandlerReturns(w)
                               \/ Send(w) \/ SendCompletes(w)
      PROVE  ServerTypes' /\ made' = made
  <2>1. UNCHANGED <<made, freed, clt, refno_, broken, conns_, c_, leaked, tconns, accepting, jobq_>>
    BY <1>9, Zenon DEF OldServer, checkduplicate, HandlerReturns, Send, SendCompletes, connVars,
       acptVars, histVars
  <2>2. seen' \in [Client -> {"new", "inprogress", "done"}]
    <3>1. \/ UNCHANGED seen \/ seen' = [seen EXCEPT ![clt[c_[w]]] = "inprogress"]
          \/ seen' = [seen EXCEPT ![clt[c_[w]]] = "done"]
      BY <1>9, Zenon DEF OldServer, checkduplicate, HandlerReturns, Send, SendCompletes
    <3> QED BY <3>1, Zenon DEF ServerTypes
  <2> QED BY <2>1, <2>2, Zenon DEF ServerTypes
<1>10. ASSUME NEW w \in Worker, SaveConnection(w)
       PROVE  ServerTypes' /\ made' = made
  <2>1. /\ UNCHANGED <<made, clt, broken, c_, leaked, tconns, accepting, jobq_, seen>>
        /\ wpc[w] = "dispatch"
    BY <1>10, Zenon DEF SaveConnection, acptVars, histVars
  <2>2. PICK c \in Conn, k \in Client : c = c_[w] /\ c \in 1 .. made /\ c \in 0 .. made /\ k = clt[c]
    BY <2>1, ServedIsLive
  <2>3. CASE UNCHANGED <<conns_, refno_, freed>>
    BY <2>1, <2>3, Zenon DEF ServerTypes
  <2>4. CASE conns_[k] < c
    <3> DEFINE old == conns_[k]
               counts == [refno_ EXCEPT ![c] = @ + 1]
    <3>1. /\ conns_' = [conns_ EXCEPT ![k] = c]
          /\ refno_' = IF old = NULL THEN counts ELSE Drop(counts, old)
          /\ freed' = IF old = NULL THEN freed ELSE freed \cup Deleted(refno_', old)
      BY <1>10, <2>2, <2>4, Zenon DEF SaveConnection
    <3>2. counts \in [Conn -> Int]
      BY CountChanges, Zenon DEF ServerTypes
    <3>3. refno_' \in [Conn -> Int]
      <4> HIDE DEF counts
      <4> QED BY <2>2, <3>1, <3>2, CountChanges, KeptIsLive, Zenon
    <3>4. old # NULL => Deleted(refno_', old) \subseteq 1 .. made
      BY <2>2, KeptIsLive, Zenon DEF Deleted
    <3>5. conns_' \in [Client -> 0 .. made]
      BY <2>2, <3>1, Zenon DEF ServerTypes
    <3>6. freed' \subseteq 1 .. made
      BY <3>1, <3>4, Zenon DEF ServerTypes
    <3> QED BY <2>1, <3>3, <3>5, <3>6, Zenon DEF ServerTypes
  <2> QED BY <1>10, <2>1, <2>2, <2>3, <2>4, Zenon DEF SaveConnection
<1>11. ASSUME NEW w \in Worker, Pick(w)
       PROVE  ServerTypes' /\ made' = made
  <2>1. /\ UNCHANGED <<made, clt, broken, conns_, leaked, tconns, accepting, jobq_, seen>>
        /\ wpc[w] = "pick"
    BY <1>11, Zenon DEF Pick, acptVars
  <2>2. PICK c \in Conn, k \in Client : c = c_[w] /\ c \in 1 .. made /\ k = clt[c]
    BY <2>1, ServedIsLive
  <2>3. CASE UNCHANGED <<c_, refno_, freed>>
    BY <2>1, <2>3, Zenon DEF ServerTypes
  <2>4. CASE Latest(c) # c
    <3> DEFINE latest == conns_[k]
    <3>1. /\ c_' = [c_ EXCEPT ![w] = latest]
          /\ refno_' = [Drop(refno_, c) EXCEPT ![latest] = @ + 1]
          /\ freed' = freed \cup Deleted(refno_', c)
      BY <1>11, <2>2, <2>4, Zenon DEF Pick, Latest
    <3>2. refno_' \in [Conn -> Int]
      <4>1. Drop(refno_, c) \in [Conn -> Int]
        BY CountChanges, Zenon DEF ServerTypes
      <4>2. latest \in Conn
        <5>1. latest >= c /\ latest \in 0 .. made
          BY <2>1, <2>2, Zenon DEF WorkerOf, ServerTypes
        <5> QED BY <1>0, <5>1 DEF PoolTypes
      <4> QED BY <3>1, <4>1, <4>2, CountChanges, Zenon
    <3>3. latest \in 0 .. made /\ Deleted(refno_', c) \subseteq 1 .. made
      BY <2>2, Zenon DEF Deleted, ServerTypes
    <3>4. c_' \in [Worker -> 0 .. made] /\ freed' \subseteq 1 .. made
      BY <3>1, <3>3, Zenon DEF ServerTypes
    <3> QED BY <2>1, <3>2, <3>4, Zenon DEF ServerTypes
  <2> QED BY <1>11, <2>1, <2>2, <2>3, <2>4, Zenon DEF Pick
<1>12. ASSUME NEW w \in Worker, DispatchReturns(w)
       PROVE  ServerTypes' /\ made' = made
  <2>1. /\ UNCHANGED <<made, clt, broken, conns_, tconns, accepting, jobq_, seen>>
        /\ c_' = [c_ EXCEPT ![w] = NULL] /\ wpc[w] = "decref"
    BY <1>12, Zenon DEF DispatchReturns, acptVars
  <2>2. c_[w] \in 1 .. made /\ c_[w] \in Conn /\ 0 \in 0 .. made
    <3>1. wpc[w] \notin {"take", "wait", "exit"}
      BY <2>1
    <3>2. c_[w] \in 1 .. made /\ c_[w] \in Conn
      BY <3>1, ServedIsLive, Zenon
    <3>3. 0 \in 0 .. made
      BY <1>0 DEF PoolTypes
    <3> QED BY <3>2, <3>3, Zenon
  <2>3. c_' \in [Worker -> 0 .. made]
    BY <2>1, <2>2, Zenon DEF ServerTypes
  <2>4. CASE leaked' = [leaked EXCEPT ![c_[w]] = @ + 1] /\ UNCHANGED <<refno_, freed>>
    <3>1. leaked' \in [Conn -> Nat]
      <4>1. leaked \in [Conn -> Nat]
        BY Zenon DEF ServerTypes
      <4> QED BY <2>2, <2>4, <4>1
    <3> QED BY <2>1, <2>3, <2>4, <3>1, Zenon DEF ServerTypes
  <2>5. CASE decref(c_[w]) /\ UNCHANGED leaked
    <3>1. refno_' \in [Conn -> Int]
      BY <2>2, <2>5, CountChanges, Zenon DEF ServerTypes, decref
    <3>2. freed' \subseteq 1 .. made
      BY <2>2, <2>5, Zenon DEF ServerTypes, decref, Deleted
    <3> QED BY <2>1, <2>3, <2>5, <3>1, <3>2, Zenon DEF ServerTypes
  <2> QED BY <1>12, <2>1, <2>4, <2>5, Zenon DEF DispatchReturns
<1>13. made' = made \/ Accept
  BY <1>1, <1>2, <1>3, <1>8, <1>9, <1>10, <1>11, <1>12, ZenonT(30)
     DEF Next, PollStep, AcceptStep, DeleteStep, WorkerStep, process_accept, closeconn, PoisonPills,
     GotPduReturns, DeleteServer, AccepterJoined, AccepterStops, set_reachable, connVars
<1>14. ServerTypes'
  BY <1>1, <1>2, <1>3, <1>4, <1>5, <1>6, <1>7, <1>8, <1>9, <1>10, <1>11, <1>12, ZenonT(30)
     DEF Next, PollStep, AcceptStep, DeleteStep, WorkerStep
<1> QED BY <1>0, <1>13, <1>14, Zenon

\* A worker turns to another connection.
LEMMA ServedMoves ==
  ASSUME ServerInv, NEW w \in Worker, NEW d \in 0 .. made, c_' = [c_ EXCEPT ![w] = d],
         NEW c \in Conn
  PROVE  Cardinality(Served(c)') = Cardinality(Served(c)) - Same(c_[w], c)
                                     + Same(d, c)
<1>1. DOMAIN c_ = Worker
  BY Zenon DEF ServerInv, ServerTypes
<1>2. Served(c) = Places(c_, c) /\ Served(c)' = Places(Changed(c_, w, d), c)
  BY <1>1, Zenon DEF Served, Places, Changed
<1>3. IsFiniteSet(Places(c_, c)) /\ w \in DOMAIN c_
  BY <1>1, <1>2, ReferenceTypes, Zenon
<1>4. Cardinality(Places(Changed(c_, w, d), c)) =
        Cardinality(Places(c_, c)) - Same(c_[w], c) + Same(d, c)
  BY <1>3, EntryMoves, SMT
<1> QED BY <1>2, <1>4, Zenon

\* rpcs::conns_ has another connection for a client.
LEMMA KeptMoves ==
  ASSUME ServerInv, NEW k \in Client, NEW d \in 0 .. made, conns_' = [conns_ EXCEPT ![k] = d],
         NEW c \in Conn
  PROVE  Cardinality(Kept(c)') = Cardinality(Kept(c)) - Same(conns_[k], c)
                                   + Same(d, c)
<1>1. DOMAIN conns_ = Client
  BY Zenon DEF ServerInv, ServerTypes
<1>2. Kept(c) = Places(conns_, c) /\ Kept(c)' = Places(Changed(conns_, k, d), c)
  BY <1>1, Zenon DEF Kept, Places, Changed
<1>3. IsFiniteSet(Places(conns_, c)) /\ k \in DOMAIN conns_
  BY <1>1, <1>2, ReferenceTypes, Zenon
<1>4. Cardinality(Places(Changed(conns_, k, d), c)) =
        Cardinality(Places(conns_, c)) - Same(conns_[k], c) + Same(d, c)
  BY <1>3, EntryMoves, SMT
<1> QED BY <1>2, <1>4, Zenon

\* takeJob: the reference of the job becomes the worker's.
LEMMA TakeJobCounted ==
  ASSUME ServerInv, Next, NEW w \in Worker, takeJob(w)
  PROVE  Counted'
<1>1. /\ UNCHANGED <<made, freed, refno_, tconns, accepting, conns_, leaked, dead_>>
      /\ wpc[w] = "take"
  BY Zenon DEF takeJob, connVars, acptVars, histVars
<1>2. CASE UNCHANGED <<jobq_, c_>>
  BY <1>1, <1>2, CountedFrame, Zenon
<1>3. CASE jobq_ # <<>> /\ jobq_' = Tail(jobq_) /\ c_' = [c_ EXCEPT ![w] = Head(jobq_)]
  <2>1. /\ jobq_ \in Seq(0 .. made) /\ c_ \in [Worker -> 0 .. made] /\ c_[w] = NULL
        /\ Head(jobq_) \in 0 .. made
    BY <1>1, <1>3, TailTypes, Zenon DEF ServerInv, ServerTypes, WorkerOf
  <2>2. ASSUME NEW c \in Conn
        PROVE  References(c)' = References(c) /\ References(c) \in Int
    <3>1. Cardinality(Queued(c)) = Cardinality(Queued(c)') + Same(Head(jobq_), c)
      <4>1. Queued(c) = Places(jobq_, c) /\ Queued(c)' = Places(Tail(jobq_), c)
        BY <1>3, Zenon DEF Queued, Places
      <4> QED BY <1>3, <2>1, <4>1, PlaceTaken, Zenon
    <3>2. Cardinality(Served(c)') = Cardinality(Served(c)) - Same(c_[w], c)
                                      + Same(Head(jobq_), c)
      BY <1>3, <2>1, ServedMoves, Zenon
    <3>3. Listed(c)' = Listed(c) /\ Kept(c)' = Kept(c) /\ leaked'[c] = leaked[c]
      BY <1>1, Zenon DEF Listed, Kept
    <3>4. c_[w] # c
      BY <2>1
    <3>5. Cardinality(Queued(c)') \in Nat
      <4>1. jobq_' \in Seq(0 .. made)
        BY <1>3, <2>1, TailTypes, Zenon
      <4> QED BY <4>1, PlacesFinite, Zenon DEF Queued, Places
    <3> QED BY <3>1, <3>2, <3>3, <3>4, <3>5, ReferenceTypes DEF References, Same
  <2>3. \A c \in Conn : refno_'[c] = References(c)'
    BY <1>1, <2>2, Zenon DEF ServerInv, Counted
  <2> QED BY <1>1, <2>3, Zenon DEF ServerInv, Counted
<1> QED BY <1>2, <1>3, Zenon DEF takeJob

\* got_pdu: the job that is queued counts its connection, which PollMgr watches.
LEMMA GotPduCounted ==
  ASSUME ServerInv, Next, NEW c \in Conn, got_pdu(c)
  PROVE  Counted'
<1>1. UNCHANGED <<made, freed, tconns, accepting, conns_, leaked, dead_, c_>>
  BY Zenon DEF got_pdu, acptVars, histVars
<1>2. CASE UNCHANGED <<jobq_, refno_>>
  BY <1>1, <1>2, CountedFrame, Zenon
<1>3. CASE enq(c) /\ refno_' = [refno_ EXCEPT ![c] = @ + 1]
  <2>1. /\ jobq_ \in Seq(0 .. made) /\ c \in 0 .. made /\ c \in 1 .. made /\ c \notin freed
        /\ jobq_' = Append(jobq_, c) /\ made \in Nat /\ refno_ \in [Conn -> Int]
    <3>1. c \in 1 .. made /\ ~ dead_[c]
      BY Zenon DEF got_pdu, Watched
    <3>2. c \notin freed /\ jobq_ \in Seq(0 .. made) /\ refno_ \in [Conn -> Int]
      BY <3>1, Zenon DEF ServerInv, Counted, ServerTypes
    <3>3. jobq_' = Append(jobq_, c) /\ made \in 0 .. MaxConns
      BY <1>3, Zenon DEF enq, ServerInv, Inv, PoolTypes
    <3> QED BY <3>1, <3>2, <3>3
  <2>2. ASSUME NEW d \in Conn
        PROVE  References(d)' = References(d) + Same(d, c) /\ References(d) \in Int
    <3>1. Cardinality(Queued(d)') = Cardinality(Queued(d)) + Same(c, d)
      <4>1. Queued(d) = Places(jobq_, d) /\ Queued(d)' = Places(Append(jobq_, c), d)
        BY <2>1, Zenon DEF Queued, Places
      <4>2. Cardinality(Places(Append(jobq_, c), d)) = Cardinality(Places(jobq_, d)) + Same(c, d)
        BY <2>1, PlaceAdded
      <4> QED BY <4>1, <4>2, Zenon
    <3>2. /\ Listed(d)' = Listed(d) /\ Kept(d)' = Kept(d) /\ Served(d)' = Served(d)
          /\ leaked'[d] = leaked[d]
      BY <1>1, Zenon DEF Listed, Kept, Served
    <3> QED BY <3>1, <3>2, ReferenceTypes DEF References, Same
  <2>3. ASSUME NEW d \in Conn
        PROVE  refno_'[d] = References(d)' /\ (d # c => refno_'[d] = refno_[d])
    <3>1. refno_'[d] = refno_[d] + Same(c, d)
      BY <1>3, <2>1, CountChanges, Zenon
    <3>2. refno_[d] = References(d) /\ refno_[d] \in Int
      BY ReferenceTypes, Zenon DEF ServerInv, Counted
    <3> QED BY <2>2, <3>1, <3>2 DEF Same
  <2>4. \A d \in Conn : d > made => refno_'[d] = 0
    <3>1. ~ (c > made)
      BY <2>1
    <3> QED BY <2>3, <3>1, Zenon DEF ServerInv, Counted
  <2>5. freed \subseteq Conn
    BY DEF ServerInv, ServerTypes, Inv, PoolTypes
  <2> QED BY <1>1, <2>1, <2>3, <2>4, <2>5, Zenon DEF ServerInv, Counted
<1> QED BY <1>2, <1>3, Zenon DEF got_pdu

\* Accept: nobody has referred to the new connection before.
LEMMA AcceptCounted ==
  ASSUME ServerInv, Next, Accept
  PROVE  Counted'
<1>1. /\ made' = made + 1 /\ accepting' = made' /\ accepting = NULL /\ made < MaxConns
      /\ refno_' = [refno_ EXCEPT ![made'] = 1]
      /\ UNCHANGED <<freed, tconns, conns_, leaked, dead_, jobq_, c_>>
  BY Zenon DEF Accept, acptVars, histVars, workVars
<1>2. /\ made \in Nat /\ tconns \subseteq 1 .. made /\ freed \subseteq 1 .. made
      /\ refno_ \in [Conn -> Int]
  <2>1. /\ made \in 0 .. MaxConns /\ tconns \subseteq 1 .. made /\ freed \subseteq 1 .. made
        /\ refno_ \in [Conn -> Int]
    BY Zenon DEF ServerInv, Inv, PoolTypes, ServerTypes
  <2> QED BY <2>1
<1>3. made' \in Conn /\ made' > made /\ made' \notin tconns /\ made' \notin freed
      /\ made' # accepting /\ made' # 0
  BY <1>1, <1>2
<1>4. ASSUME NEW c \in Conn
      PROVE  References(c)' = References(c) + (IF c = made' THEN 1 ELSE 0) /\ References(c) \in Int
  <2>1. /\ Kept(c)' = Kept(c) /\ Served(c)' = Served(c) /\ Queued(c)' = Queued(c)
        /\ leaked'[c] = leaked[c]
    BY <1>1, Zenon DEF Kept, Served, Queued
  <2>2. c # 0
    OBVIOUS
  <2>3. IF c = made' THEN Listed(c) = 0 /\ Listed(c)' = 1 ELSE Listed(c)' = Listed(c)
    BY <1>1, <1>3, <2>2, Zenon DEF Listed
  <2> QED BY <2>1, <2>3, ReferenceTypes DEF References
<1>5. ASSUME NEW c \in Conn
      PROVE  refno_'[c] = References(c)' /\ (c # made' => refno_'[c] = refno_[c])
  <2>1. refno_'[c] = (IF c = made' THEN 1 ELSE refno_[c])
    BY <1>1, <1>2, <1>3, Zenon
  <2>2. refno_[c] = References(c) /\ (c = made' => refno_[c] = 0)
    BY <1>3, Zenon DEF ServerInv, Counted
  <2> QED BY <1>4, <2>1, <2>2
<1>6. \A c \in Conn : c > made' => refno_'[c] = 0
  <2> SUFFICES ASSUME NEW c \in Conn, c > made' PROVE refno_'[c] = 0
    OBVIOUS
  <2>1. c > made /\ c # made'
    BY <1>1, <1>2
  <2> QED BY <1>5, <2>1, Zenon DEF ServerInv, Counted
<1>7. freed \subseteq Conn
  BY <1>1, <1>2
<1> QED BY <1>1, <1>3, <1>5, <1>6, <1>7, Zenon DEF ServerInv, Counted

\* process_accept: a connection that is collected was counted by tcpsconn only.
LEMMA ProcessAcceptCounted ==
  ASSUME ServerInv, Next, process_accept
  PROVE  Counted'
<1>1. /\ tconns' = (tconns \ Garbage) \cup {accepting} /\ accepting # NULL /\ accepting' = NULL
      /\ refno_' = [c \in Conn |-> IF c \in Garbage THEN refno_[c] - 1 ELSE refno_[c]]
      /\ freed' = freed \cup Garbage
      /\ UNCHANGED <<made, conns_, leaked, dead_, jobq_, c_>>
  BY Zenon DEF process_accept, histVars, workVars
<1>2. ServerTypes' /\ PoolTypes' /\ accepting \notin tconns
  BY TypesNext, Zenon DEF ServerInv, ServerTypes
<1>3. \A c \in Conn : c \in Garbage <=> c \in tconns /\ dead_[c] /\ refno_[c] = 1
  BY Zenon DEF Garbage
<1>4. ASSUME NEW c \in Conn
      PROVE  /\ refno_'[c] - refno_[c] = References(c)' - References(c)
             /\ References(c)' \in Int
             /\ refno_'[c] # refno_[c] => refno_[c] >= 1
             /\ c \in freed' \ freed => dead_'[c] /\ refno_'[c] = 0
  <2>1. /\ Kept(c)' = Kept(c) /\ Served(c)' = Served(c) /\ Queued(c)' = Queued(c)
        /\ leaked'[c] = leaked[c]
    BY <1>1, Zenon DEF Kept, Served, Queued
  <2>2. c # 0 /\ refno_'[c] = IF c \in Garbage THEN refno_[c] - 1 ELSE refno_[c]
    BY <1>1
  <2>3. IF c \in Garbage THEN Listed(c) = 1 /\ Listed(c)' = 0 ELSE Listed(c)' = Listed(c)
    BY <1>1, <1>2, <1>3, <2>2, Zenon DEF Listed
  <2>4. c \in freed' \ freed => c \in Garbage
    BY <1>1, Zenon
  <2>5. c \in Garbage => dead_'[c] /\ refno_[c] = 1
    BY <1>1, <1>3, Zenon
  <2>6. References(c)' = References(c) - (IF c \in Garbage THEN 1 ELSE 0) /\ References(c) \in Int
    BY <2>1, <2>3, ReferenceTypes DEF References
  <2>7. refno_[c] \in Int
    BY ReferenceTypes, Zenon
  <2> QED BY <2>2, <2>4, <2>5, <2>6, <2>7
<1> QED BY <1>1, <1>2, <1>4, CountedStep, Zenon

\* SaveConnection: rpcs::conns_ lets go of an older connection of the client.
LEMMA SaveConnectionCounted ==
  ASSUME ServerInv, Next, NEW w \in Worker, SaveConnection(w)
  PROVE  Counted'
<1>1. /\ UNCHANGED <<made, leaked, tconns, accepting, jobq_, c_, dead_>>
      /\ wpc[w] = "dispatch"
  BY Zenon DEF SaveConnection, acptVars, histVars
<1>2. PICK c \in Conn, k \in Client :
        c = c_[w] /\ c \in 1 .. made /\ c \in 0 .. made /\ k = clt[c] /\ refno_[c] >= 1
  BY <1>1, ServedIsLive
<1>3. CASE UNCHANGED <<conns_, refno_, freed>>
  BY <1>1, <1>3, CountedFrame, Zenon
<1>4. CASE conns_[k] < c
  <2> DEFINE old == conns_[k]
             counts == [refno_ EXCEPT ![c] = @ + 1]
  <2>1. /\ conns_' = [conns_ EXCEPT ![k] = c]
        /\ refno_' = IF old = NULL THEN counts ELSE Drop(counts, old)
        /\ freed' = IF old = NULL THEN freed ELSE freed \cup Deleted(refno_', old)
    BY <1>2, <1>4, Zenon DEF SaveConnection
  <2>2. /\ ServerTypes' /\ PoolTypes' /\ refno_ \in [Conn -> Int]
        /\ old # NULL => old \in Conn /\ refno_[old] >= 1
    BY TypesNext, KeptIsLive, Zenon DEF ServerInv, ServerTypes
  <2>3. old \in Int /\ old # c
    <3>1. old \in 0 .. made
      BY Zenon DEF ServerInv, ServerTypes
    <3> QED BY <1>4, <3>1 DEF ServerInv, Inv, PoolTypes
  <2>4. ASSUME NEW d \in Conn
        PROVE  /\ refno_'[d] = refno_[d] - Same(old, d) + Same(c, d)
               /\ d \in freed' \ freed => dead_'[d] /\ refno_'[d] = 0
    <3>1. counts \in [Conn -> Int] /\ counts[d] = refno_[d] + Same(c, d)
      BY <2>2, CountChanges, Zenon
    <3> HIDE DEF counts
    <3>2. CASE old = NULL
      <4>1. refno_'[d] = counts[d] /\ freed' = freed /\ old # d
        BY <2>1, <3>2
      <4> QED BY <2>2, <3>1, <4>1 DEF Same
    <3>3. CASE old # NULL
      <4>0. refno_' = Drop(counts, old) /\ old \in Conn
        BY <2>1, <2>2, <3>3, Zenon
      <4>1. refno_'[d] = counts[d] - Same(old, d)
        BY <3>1, <4>0 DEF Drop, Same
      <4>2. d \in freed' \ freed => dead_'[d] /\ refno_'[d] = 0
        BY <1>1, <2>1, <3>3, Zenon DEF Deleted
      <4> QED BY <2>2, <2>3, <3>1, <4>1, <4>2 DEF Same
    <3> QED BY <3>2, <3>3, Zenon
  <2>5. ASSUME NEW d \in Conn
        PROVE  References(d)' = References(d) - Same(old, d) + Same(c, d) /\ References(d) \in Int
    <3>1. Cardinality(Kept(d)') = Cardinality(Kept(d)) - Same(old, d) + Same(c, d)
      BY <1>2, <2>1, KeptMoves, Zenon
    <3>2. /\ Listed(d)' = Listed(d) /\ Queued(d)' = Queued(d) /\ Served(d)' = Served(d)
          /\ leaked'[d] = leaked[d]
      BY <1>1, Zenon DEF Listed, Queued, Served
    <3> QED BY <3>1, <3>2, ReferenceTypes DEF References, Same
  <2>6. ASSUME NEW d \in Conn
        PROVE  refno_'[d] - refno_[d] = References(d)' - References(d) /\ References(d)' \in Int
    <3>1. refno_[d] \in Int /\ Same(old, d) \in Int /\ Same(c, d) \in Int
      BY <2>2 DEF Same
    <3>2. refno_'[d] = refno_[d] - Same(old, d) + Same(c, d)
      BY <2>4, Zenon
    <3>3. References(d)' = References(d) - Same(old, d) + Same(c, d) /\ References(d) \in Int
      BY <2>5, Zenon
    <3> QED BY <3>1, <3>2, <3>3
  <2>7. \A d \in Conn : refno_'[d] # refno_[d] => refno_[d] >= 1
    <3> SUFFICES ASSUME NEW d \in Conn, d # c, d # old PROVE refno_'[d] = refno_[d]
      BY <1>2, <2>2
    <3> QED BY <2>2, <2>4 DEF Same
  <2> QED BY <1>1, <2>2, <2>4, <2>6, <2>7, CountedStep, Zenon
<1> QED BY <1>1, <1>2, <1>3, <1>4, Zenon DEF SaveConnection

\* Pick: the worker turns to the client's latest connection.
LEMMA PickCounted ==
  ASSUME ServerInv, Next, NEW w \in Worker, Pick(w)
  PROVE  Counted'
<1>1. /\ UNCHANGED <<made, leaked, tconns, accepting, jobq_, conns_, dead_>>
      /\ wpc[w] = "pick"
  BY Zenon DEF Pick, acptVars
<1>2. PICK c \in Conn, k \in Client :
        c = c_[w] /\ c \in 1 .. made /\ k = clt[c] /\ refno_[c] >= 1
  BY <1>1, ServedIsLive
<1>3. CASE UNCHANGED <<c_, refno_, freed>>
  BY <1>1, <1>3, CountedFrame, Zenon
<1>4. CASE Latest(c) # c
  <2> DEFINE latest == conns_[k]
  <2>1. /\ c_' = [c_ EXCEPT ![w] = latest] /\ latest # c
        /\ refno_' = [Drop(refno_, c) EXCEPT ![latest] = @ + 1]
        /\ freed' = freed \cup Deleted(refno_', c)
    BY <1>2, <1>4, Zenon DEF Pick, Latest
  <2>2. latest # NULL /\ latest \in 0 .. made
    <3>1. latest >= c /\ latest \in 0 .. made
      BY <1>1, <1>2, Zenon DEF ServerInv, WorkerOf, ServerTypes
    <3> QED BY <3>1
  <2>3. /\ ServerTypes' /\ PoolTypes' /\ refno_ \in [Conn -> Int]
        /\ latest \in Conn /\ refno_[latest] >= 1
    BY <2>2, TypesNext, KeptIsLive, Zenon DEF ServerInv, ServerTypes
  <2>4. ASSUME NEW d \in Conn
        PROVE  /\ refno_'[d] = refno_[d] - Same(c, d) + Same(latest, d)
               /\ d \in freed' \ freed => dead_'[d] /\ refno_'[d] = 0
    <3> DEFINE less == Drop(refno_, c)
    <3>1. less \in [Conn -> Int] /\ less[d] = refno_[d] - Same(c, d)
      BY <1>2, <2>3 DEF Drop, Same
    <3>2. refno_' = [less EXCEPT ![latest] = @ + 1]
      BY <2>1, Zenon
    <3> HIDE DEF less
    <3>3. refno_'[d] = less[d] + Same(latest, d)
      BY <2>3, <3>1, <3>2 DEF Same
    <3>4. d \in freed' \ freed => dead_'[d] /\ refno_'[d] = 0
      BY <1>1, <2>1, Zenon DEF Deleted
    <3>5. refno_'[d] = refno_[d] - Same(c, d) + Same(latest, d)
      BY <3>1, <3>3, Zenon
    <3> QED BY <3>4, <3>5, Zenon
  <2>5. ASSUME NEW d \in Conn
        PROVE  References(d)' = References(d) - Same(c, d) + Same(latest, d) /\ References(d) \in Int
    <3>1. Cardinality(Served(d)') = Cardinality(Served(d)) - Same(c, d) + Same(latest, d)
      BY <1>2, <2>1, <2>2, ServedMoves, Zenon
    <3>2. /\ Listed(d)' = Listed(d) /\ Queued(d)' = Queued(d) /\ Kept(d)' = Kept(d)
          /\ leaked'[d] = leaked[d]
      BY <1>1, Zenon DEF Listed, Queued, Kept
    <3> QED BY <3>1, <3>2, ReferenceTypes DEF References, Same
  <2>6. ASSUME NEW d \in Conn
        PROVE  refno_'[d] - refno_[d] = References(d)' - References(d) /\ References(d)' \in Int
    <3>1. refno_[d] \in Int /\ Same(latest, d) \in Int /\ Same(c, d) \in Int
      BY <2>3 DEF Same
    <3>2. refno_'[d] = refno_[d] - Same(c, d) + Same(latest, d)
      BY <2>4, Zenon
    <3>3. References(d)' = References(d) - Same(c, d) + Same(latest, d) /\ References(d) \in Int
      BY <2>5, Zenon
    <3> QED BY <3>1, <3>2, <3>3
  <2>7. \A d \in Conn : refno_'[d] # refno_[d] => refno_[d] >= 1
    <3> SUFFICES ASSUME NEW d \in Conn, d # c, d # latest PROVE refno_'[d] = refno_[d]
      BY <1>2, <2>3
    <3> QED BY <2>3, <2>4 DEF Same
  <2> QED BY <1>1, <2>3, <2>4, <2>6, <2>7, CountedStep, Zenon
<1> QED BY <1>1, <1>2, <1>3, <1>4, Zenon DEF Pick

\* DispatchReturns: the worker drops its reference, or leaves it behind.
LEMMA DispatchReturnsCounted ==
  ASSUME ServerInv, Next, NEW w \in Worker, DispatchReturns(w)
  PROVE  Counted'
<1>1. /\ UNCHANGED <<made, tconns, accepting, jobq_, conns_, dead_>>
      /\ wpc[w] = "decref" /\ c_' = [c_ EXCEPT ![w] = NULL]
  BY Zenon DEF DispatchReturns, acptVars
<1>2. PICK c \in Conn : c = c_[w] /\ refno_[c] >= 1
  BY <1>1, ServedIsLive
<1>3. /\ ServerTypes' /\ PoolTypes' /\ refno_ \in [Conn -> Int] /\ leaked \in [Conn -> Nat]
      /\ NULL \in 0 .. made
  <2>1. NULL \in 0 .. made
    BY DEF ServerInv, Inv, PoolTypes
  <2> QED BY <2>1, TypesNext, Zenon DEF ServerInv, ServerTypes
<1>4. ASSUME NEW d \in Conn
      PROVE  /\ Cardinality(Served(d)') = Cardinality(Served(d)) - Same(c, d)
             /\ Listed(d)' = Listed(d) /\ Queued(d)' = Queued(d) /\ Kept(d)' = Kept(d)
  <2>1. Cardinality(Served(d)') = Cardinality(Served(d)) - Same(c, d) + Same(NULL, d)
    BY <1>1, <1>2, <1>3, ServedMoves, Zenon
  <2>2. Cardinality(Served(d)') = Cardinality(Served(d)) - Same(c, d)
    BY <2>1, ReferenceTypes DEF Same
  <2> QED BY <1>1, <2>2, Zenon DEF Listed, Queued, Kept
<1>5. CASE leaked' = [leaked EXCEPT ![c] = @ + 1] /\ UNCHANGED <<refno_, freed>>
  <2>1. ASSUME NEW d \in Conn
        PROVE  References(d)' = References(d) /\ References(d) \in Int
    <3>1. leaked'[d] = (IF d = c THEN leaked[d] + 1 ELSE leaked[d])
      BY <1>3, <1>5
    <3> QED BY <1>4, <3>1, ReferenceTypes DEF References, Same
  <2> QED BY <1>1, <1>5, <2>1, Zenon DEF ServerInv, Counted
<1>6. CASE decref(c) /\ UNCHANGED leaked
  <2>1. ASSUME NEW d \in Conn
        PROVE  /\ refno_'[d] = refno_[d] - Same(c, d)
               /\ d \in freed' \ freed => dead_'[d] /\ refno_'[d] = 0
    BY <1>1, <1>3, <1>6, CountChanges, Zenon DEF decref, Deleted
  <2>2. ASSUME NEW d \in Conn
        PROVE  References(d)' = References(d) - Same(c, d) /\ References(d) \in Int
    <3>1. leaked'[d] = leaked[d]
      BY <1>6, Zenon
    <3> QED BY <1>4, <3>1, ReferenceTypes DEF References, Same
  <2>3. ASSUME NEW d \in Conn
        PROVE  /\ refno_'[d] - refno_[d] = References(d)' - References(d)
               /\ References(d)' \in Int /\ (refno_'[d] # refno_[d] => refno_[d] >= 1)
    <3>1. refno_[d] \in Int /\ Same(c, d) \in Int /\ (d # c => Same(c, d) = 0)
      BY <1>3 DEF Same
    <3>2. refno_'[d] = refno_[d] - Same(c, d)
      BY <2>1, Zenon
    <3>3. References(d)' = References(d) - Same(c, d) /\ References(d) \in Int
      BY <2>2, Zenon
    <3>4. d = c => refno_[d] >= 1
      BY <1>2, Zenon
    <3> QED BY <3>1, <3>2, <3>3, <3>4
  <2> QED BY <1>1, <1>3, <2>1, <2>3, CountedStep, Zenon
<1> QED BY <1>2, <1>5, <1>6, Zenon DEF DispatchReturns

\* closeconn: tcpsconn drops the connections it lists.
LEMMA CloseconnCounted ==
  ASSUME ServerInv, Next, closeconn
  PROVE  Counted'
<1>1. UNCHANGED <<made, accepting, jobq_, conns_, c_, leaked>>
  BY Zenon DEF closeconn, histVars, workVars
<1>2. CASE UNCHANGED <<dead_, refno_, freed, tconns>>
  BY <1>1, <1>2, CountedFrame, Zenon
<1>3. ASSUME NEW c \in tconns, refno_' = Drop(refno_, c), tconns' = tconns \ {c},
             dead_' = [dead_ EXCEPT ![c] = TRUE],
             freed' = IF refno_'[c] = 0 THEN freed \cup {c} ELSE freed
      PROVE  Counted'
  <2>1. c \in Conn
    BY DEF ServerInv, Inv, PoolTypes
  <2>2. /\ refno_[c] >= 1 /\ refno_ \in [Conn -> Int] /\ accepting # c
        /\ dead_ \in [Conn -> BOOLEAN] /\ ServerTypes' /\ PoolTypes'
    BY <2>1, TypesNext, ReferencedIsLive, Zenon DEF ServerInv, ServerTypes, Inv, PoolTypes
  <2>3. \A d \in Conn : dead_[d] => dead_'[d]
    BY <1>3, <2>2, Zenon
  <2>4. ASSUME NEW d \in Conn
        PROVE  /\ refno_'[d] = refno_[d] - Same(c, d)
               /\ d \in freed' \ freed => dead_'[d] /\ refno_'[d] = 0
    BY <1>3, <2>1, <2>2, CountChanges, Zenon
  <2>5. ASSUME NEW d \in Conn
        PROVE  References(d)' = References(d) - Same(c, d) /\ References(d) \in Int
    <3>1. /\ Kept(d)' = Kept(d) /\ Queued(d)' = Queued(d) /\ Served(d)' = Served(d)
          /\ leaked'[d] = leaked[d]
      BY <1>1, Zenon DEF Kept, Queued, Served
    <3>2. IF d = c THEN Listed(d) = 1 /\ Listed(d)' = 0 ELSE Listed(d)' = Listed(d)
      BY <1>1, <1>3, <2>2, Zenon DEF Listed
    <3> QED BY <3>1, <3>2, ReferenceTypes DEF References, Same
  <2>6. ASSUME NEW d \in Conn
        PROVE  /\ refno_'[d] - refno_[d] = References(d)' - References(d)
               /\ References(d)' \in Int /\ (refno_'[d] # refno_[d] => refno_[d] >= 1)
    <3>1. refno_[d] \in Int /\ Same(c, d) \in Int /\ (d # c => Same(c, d) = 0)
      BY <2>2 DEF Same
    <3>2. refno_'[d] = refno_[d] - Same(c, d)
      BY <2>4, Zenon
    <3>3. References(d)' = References(d) - Same(c, d) /\ References(d) \in Int
      BY <2>5, Zenon
    <3>4. d = c => refno_[d] >= 1
      BY <2>2, Zenon
    <3> QED BY <3>1, <3>2, <3>3, <3>4
  <2> QED BY <1>1, <2>2, <2>3, <2>4, <2>6, CountedStep, Zenon
<1> QED BY <1>2, <1>3, Zenon DEF closeconn

\* ~ThrPool: a pill is no reference to a connection.
LEMMA PoisonPillsCounted ==
  ASSUME ServerInv, Next, PoisonPills
  PROVE  Counted'
<1>1. UNCHANGED <<made, freed, refno_, dead_, tconns, accepting, conns_, c_, leaked>>
  BY Zenon DEF PoisonPills, connVars, acptVars, histVars
<1>2. CASE UNCHANGED jobq_
  BY <1>1, <1>2, CountedFrame, Zenon
<1>3. CASE enq(NULL)
  <2>1. jobq_ \in Seq(0 .. made) /\ jobq_' = Append(jobq_, NULL)
    BY <1>3, Zenon DEF enq, ServerInv, ServerTypes
  <2>2. ASSUME NEW c \in Conn
        PROVE  Queued(c)' = Queued(c)
    BY <2>1 DEF Queued
  <2>3. \A c \in Conn : References(c)' = References(c)
    BY <1>1, <2>2, Zenon DEF References, Listed, Kept, Served
  <2>4. freed \subseteq Conn
    BY DEF ServerInv, ServerTypes, Inv, PoolTypes
  <2> QED BY <1>1, <2>3, <2>4, Zenon DEF ServerInv, Counted
<1> QED BY <1>2, <1>3, Zenon DEF PoisonPills

\* Every step keeps the counts exact.
LEMMA CountedNext ==
  ASSUME ServerInv, Next
  PROVE  Counted'
<1>0. dead_ \in [Conn -> BOOLEAN]
  BY Zenon DEF ServerInv, Inv, PoolTypes
<1>1. CASE GotPduReturns \/ DeleteServer \/ AccepterJoined \/ AccepterStops \/ set_reachable
  <2>1. UNCHANGED <<made, freed, refno_, dead_, tconns, accepting, conns_, jobq_, c_, leaked>>
    BY <1>1, Zenon DEF GotPduReturns, DeleteServer, AccepterJoined, AccepterStops, set_reachable,
       connVars, acptVars, workVars, histVars
  <2> QED BY <2>1, CountedFrame, Zenon
<1>2. ASSUME NEW c \in Conn, read_eof(c) \/ ClientBreaks(c)
      PROVE  Counted'
  <2>1. /\ UNCHANGED <<made, freed, refno_, tconns, accepting, conns_, jobq_, c_, leaked>>
        /\ dead_' = dead_ \/ dead_' = [dead_ EXCEPT ![c] = TRUE]
    BY <1>2, Zenon DEF read_eof, ClientBreaks, acptVars, workVars, histVars
  <2>2. \A d \in Conn : dead_[d] => dead_'[d]
    BY <1>0, <2>1, Zenon
  <2> QED BY <2>1, <2>2, CountedFrame, Zenon
<1>3. ASSUME NEW w \in Worker, OldServer(w) \/ checkduplicate(w) \/ HandlerReturns(w)
                               \/ Send(w) \/ SendCompletes(w)
      PROVE  Counted'
  <2>1. /\ UNCHANGED <<made, freed, refno_, tconns, accepting, conns_, jobq_, c_, leaked>>
        /\ dead_' = dead_ \/ dead_' = [dead_ EXCEPT ![c_[w]] = TRUE]
    BY <1>3, Zenon DEF OldServer, checkduplicate, HandlerReturns, Send, SendCompletes, connVars,
       acptVars, workVars, histVars
  <2>2. \A d \in Conn : dead_[d] => dead_'[d]
    BY <1>0, <2>1, Zenon
  <2> QED BY <2>1, <2>2, CountedFrame, Zenon
<1>4. ASSUME NEW w \in Worker, WorkerStep(w)
      PROVE  Counted'
  BY <1>3, <1>4, TakeJobCounted, SaveConnectionCounted, PickCounted, DispatchReturnsCounted, Zenon
     DEF WorkerStep
<1>5. ASSUME NEW c \in Conn, got_pdu(c)
      PROVE  Counted'
  BY <1>5, GotPduCounted, Zenon
<1>6. CASE AcceptStep
  BY <1>1, <1>6, AcceptCounted, ProcessAcceptCounted, Zenon DEF AcceptStep
<1>7. CASE DeleteStep
  BY <1>1, <1>7, CloseconnCounted, PoisonPillsCounted, Zenon DEF DeleteStep
<1> QED BY <1>1, <1>2, <1>4, <1>5, <1>6, <1>7, Zenon DEF Next, PollStep

-----------------------------------------------------------------------------
(* The replies and the steps *)

\* A connection that is lost stays lost, a dead one is lost, and the client of
\* a connection is always the same.
LEMMA LostStaysLost ==
  ASSUME ServerInv, Next
  PROVE  /\ UNCHANGED clt
         /\ \A c \in Conn : broken[c] => broken'[c]
         /\ \A c \in Conn : dead_'[c] => broken'[c]
         /\ sent \subseteq sent' /\ misdirected \subseteq misdirected'
<1>0. /\ dead_ \in [Conn -> BOOLEAN] /\ broken \in [Conn -> BOOLEAN]
      /\ \A c \in Conn : dead_[c] => broken[c]
  BY Zenon DEF ServerInv, Inv, PoolTypes, ServerTypes, Superseded
<1>1. CASE GotPduReturns \/ DeleteServer \/ AccepterJoined \/ AcceptStep \/ PoisonPills \/ set_reachable
  <2>1. UNCHANGED <<clt, broken, dead_, sent, misdirected>>
    BY <1>1, Zenon DEF GotPduReturns, DeleteServer, AccepterJoined, AccepterStops, set_reachable,
       Accept, process_accept, AcceptStep, PoisonPills, connVars, histVars
  <2> QED BY <1>0, <2>1, Zenon
<1>2. ASSUME NEW c \in Conn, got_pdu(c) \/ read_eof(c) \/ ClientBreaks(c)
      PROVE  /\ UNCHANGED <<clt, sent, misdirected>>
             /\ \A d \in Conn : broken[d] => broken'[d]
             /\ \A d \in Conn : dead_'[d] => broken'[d]
  <2>1. /\ UNCHANGED <<clt, sent, misdirected>>
        /\ broken' = broken \/ broken' = [broken EXCEPT ![c] = TRUE]
        /\ dead_' = dead_ \/ (broken[c] /\ dead_' = [dead_ EXCEPT ![c] = TRUE])
    BY <1>2, Zenon DEF got_pdu, read_eof, ClientBreaks, histVars
  <2> QED BY <1>0, <2>1, Zenon
<1>3. CASE closeconn
  <2>1. UNCHANGED <<clt, sent, misdirected>>
    BY <1>3, Zenon DEF closeconn, histVars
  <2>2. CASE UNCHANGED <<broken, dead_>>
    BY <1>0, <2>1, <2>2, Zenon
  <2>3. ASSUME NEW c \in tconns, dead_' = [dead_ EXCEPT ![c] = TRUE],
               broken' = [broken EXCEPT ![c] = TRUE]
        PROVE  /\ \A d \in Conn : broken[d] => broken'[d]
               /\ \A d \in Conn : dead_'[d] => broken'[d]
    BY <1>0, <2>3, Zenon
  <2> QED BY <1>3, <2>1, <2>2, <2>3, Zenon DEF closeconn
<1>4. ASSUME NEW w \in Worker, WorkerStep(w)
      PROVE  /\ UNCHANGED clt /\ sent \subseteq sent' /\ misdirected \subseteq misdirected'
             /\ \A d \in Conn : broken[d] => broken'[d]
             /\ \A d \in Conn : dead_'[d] => broken'[d]
  <2>1. /\ UNCHANGED <<clt, broken>> /\ sent \subseteq sent' /\ misdirected \subseteq misdirected'
        /\ dead_' = dead_ \/ (broken[c_[w]] /\ dead_' = [dead_ EXCEPT ![c_[w]] = TRUE])
    BY <1>4, Zenon DEF WorkerStep, takeJob, OldServer, SaveConnection, checkduplicate,
       HandlerReturns, Pick, Send, SendCompletes, DispatchReturns, connVars, histVars
  <2> QED BY <1>0, <2>1, Zenon
<1> QED BY <1>1, <1>2, <1>3, <1>4, Zenon DEF Next, PollStep, DeleteStep

\* rpcs::conns_ changes only in dispatch, to a later connection of the client.
LEMMA LatestMoves ==
  ASSUME ServerInv, Next, NEW k \in Client, conns_'[k] # conns_[k]
  PROVE  \E w \in Worker : /\ SaveConnection(w) /\ wpc[w] = "dispatch" /\ wpc'[w] = "check"
                           /\ c_[w] \in 1 .. made /\ clt[c_[w]] = k /\ UNCHANGED <<c_, seen>>
                           /\ conns_'[k] = c_[w] /\ conns_[k] < c_[w]
<1>1. \E w \in Worker : SaveConnection(w)
  BY Zenon DEF Next, PollStep, AcceptStep, DeleteStep, WorkerStep, GotPduReturns, got_pdu, read_eof,
     Accept, process_accept, AccepterStops, DeleteServer, AccepterJoined, closeconn, PoisonPills,
     takeJob, OldServer, checkduplicate, HandlerReturns, Pick, Send, SendCompletes, DispatchReturns,
     ClientBreaks, set_reachable
<1>2. PICK w \in Worker : SaveConnection(w)
  BY <1>1, Zenon
<1>3. /\ wpc[w] = "dispatch" /\ wpc' = [wpc EXCEPT ![w] = "check"] /\ UNCHANGED <<c_, seen>>
      /\ \/ UNCHANGED conns_
         \/ /\ conns_[clt[c_[w]]] < c_[w]
            /\ conns_' = [conns_ EXCEPT ![clt[c_[w]]] = c_[w]]
  BY <1>2, Zenon DEF SaveConnection, Step
<1>4. wpc[w] \notin {"take", "wait", "exit"}
  BY <1>3
<1>5. c_[w] \in 1 .. made /\ clt[c_[w]] \in Client /\ wpc'[w] = "check"
  BY <1>3, <1>4, ServedIsLive, Zenon DEF ServerInv, Inv, PoolTypes
<1>6. conns_[clt[c_[w]]] < c_[w] /\ conns_' = [conns_ EXCEPT ![clt[c_[w]]] = c_[w]]
  BY <1>3, Zenon
<1>7. clt[c_[w]] = k /\ conns_'[k] = c_[w]
  BY <1>5, <1>6, Zenon DEF ServerInv, ServerTypes
<1> QED BY <1>2, <1>3, <1>5, <1>6, <1>7, Zenon

\* The connections of a client stay in order: a client connects again only
\* when it has lost its connection.
LEMMA SupersededNext ==
  ASSUME ServerInv, Next
  PROVE  Superseded'
<1>1. ASSUME NEW k \in Client, conns_'[k] # NULL
      PROVE  clt'[conns_'[k]] = k
  <2>1. CASE conns_'[k] = conns_[k]
    BY <1>1, <2>1, LostStaysLost, Zenon DEF ServerInv, Superseded
  <2>2. CASE conns_'[k] # conns_[k]
    BY <2>2, LatestMoves, LostStaysLost, Zenon
  <2> QED BY <2>1, <2>2, Zenon
<1>2. ASSUME NEW c \in 1 .. made', NEW d \in 1 .. made', c < d, clt[c] = clt[d]
      PROVE  broken'[c]
  <2>0. made \in 0 .. MaxConns /\ made' \in 0 .. MaxConns
    BY TypesNext, Zenon DEF ServerInv, Inv, PoolTypes
  <2>1. CASE c \in 1 .. made /\ d \in 1 .. made
    <3>1. broken[c] /\ c \in Conn
      BY <1>2, <2>0, <2>1 DEF ServerInv, Superseded
    <3> QED BY <3>1, LostStaysLost, Zenon
  <2>2. CASE ~ (c \in 1 .. made /\ d \in 1 .. made)
    <3>1. Accept
      BY <2>2, TypesNext, Zenon
    <3>2. made' = made + 1 /\ UNCHANGED broken /\ \A a \in 1 .. made : clt[a] = clt[made + 1] => broken[a]
      BY <3>1, Zenon DEF Accept
    <3>3. c \in 1 .. made /\ d = made + 1
      BY <1>2, <2>0, <2>2, <3>2
    <3> QED BY <1>2, <3>2, <3>3, Zenon
  <2> QED BY <2>1, <2>2, Zenon
<1>3. UNCHANGED clt /\ \A c \in Conn : dead_'[c] => broken'[c]
  BY LostStaysLost, Zenon
<1> QED BY <1>1, <1>2, <1>3, Zenon DEF Superseded

\* What can happen to a worker: it takes a step, it is woken, or the connection
\* it sends on is found lost.
LEMMA WorkerChanges ==
  ASSUME ServerInv, Next, NEW w \in Worker
  PROVE  \/ wpc'[w] = wpc[w] /\ c_'[w] = c_[w]
         \/ WorkerStep(w)
         \/ wpc[w] = "wait" /\ wpc'[w] = "take" /\ c_'[w] = c_[w]
         \/ wpc[w] = "partial" /\ wpc'[w] = "decref" /\ c_'[w] = c_[w] /\ dead_'[c_[w]]
<1>0. /\ DOMAIN wpc = Worker /\ DOMAIN c_ = Worker
      /\ dead_ \in [Conn -> BOOLEAN]
  BY Zenon DEF ServerInv, Inv, PoolTypes, ServerTypes
<1> DEFINE Woken == wpc[w] = "wait" /\ wpc'[w] = "take" /\ c_'[w] = c_[w]
           Left == wpc'[w] = wpc[w] /\ c_'[w] = c_[w]
<1>1. CASE GotPduReturns \/ DeleteServer \/ AccepterJoined \/ AcceptStep \/ closeconn \/ set_reachable
  BY <1>1, Zenon DEF GotPduReturns, DeleteServer, AccepterJoined, AccepterStops, set_reachable,
     Accept, process_accept, AcceptStep, closeconn, workVars
<1>2. ASSUME UNCHANGED wpc \/ SignalNonEmpty, UNCHANGED c_
      PROVE  Left \/ Woken
  BY <1>0, <1>2, Zenon DEF SignalNonEmpty, Waiting
<1>3. ASSUME NEW c \in Conn, got_pdu(c)
      PROVE  Left \/ Woken
  <2>1. (UNCHANGED wpc \/ SignalNonEmpty) /\ UNCHANGED c_
    BY <1>3, Zenon DEF got_pdu, enq
  <2> QED BY <1>2, <2>1, Zenon
<1>4. CASE PoisonPills
  <2>1. (UNCHANGED wpc \/ SignalNonEmpty) /\ UNCHANGED c_
    BY <1>4, Zenon DEF PoisonPills, enq
  <2> QED BY <1>2, <2>1, Zenon
<1>5. ASSUME NEW c \in Conn, read_eof(c)
      PROVE  \/ Left
             \/ wpc[w] = "partial" /\ wpc'[w] = "decref" /\ c_'[w] = c_[w] /\ dead_'[c_[w]]
  BY <1>0, <1>5, Zenon DEF read_eof
<1>6. ASSUME NEW c \in Conn, ClientBreaks(c)
      PROVE  Left
  BY <1>6, Zenon DEF ClientBreaks, workVars
<1>7. ASSUME NEW v \in Worker, WorkerStep(v), v # w
      PROVE  Left
  BY <1>0, <1>7, Zenon DEF WorkerStep, takeJob, OldServer, SaveConnection, checkduplicate,
     HandlerReturns, Pick, Send, SendCompletes, DispatchReturns, Step
<1> QED BY <1>1, <1>3, <1>4, <1>5, <1>6, <1>7, Zenon DEF Next, PollStep, DeleteStep

\* rpcs::conns_ never goes back to an earlier connection of the client.
LEMMA LatestGrows ==
  ASSUME ServerInv, Next, NEW k \in Client
  PROVE  conns_[k] \in Int /\ conns_'[k] \in Int /\ conns_'[k] >= conns_[k]
<1>1. conns_[k] \in 0 .. made /\ conns_'[k] \in 0 .. made'
  BY TypesNext, Zenon DEF ServerInv, ServerTypes
<1>2. CASE conns_'[k] = conns_[k]
  BY <1>1, <1>2
<1>3. CASE conns_'[k] # conns_[k]
  <2>1. conns_[k] < conns_'[k]
    BY <1>3, LatestMoves, Zenon
  <2> QED BY <1>1, <2>1
<1> QED BY <1>2, <1>3, Zenon

\* The workers know what they serve, and that it is not later than the
\* connection rpcs::conns_ has.
LEMMA WorkersNext ==
  ASSUME ServerInv, Next, NEW w \in Worker
  PROVE  WorkerOf(w)'
<1>0. /\ WorkerOf(w) /\ wpc \in [Worker -> {"take", "wait", "dispatch", "check", "handler", "pick",
                              "send", "partial", "decref", "exit"}]
      /\ c_ \in [Worker -> 0 .. made] /\ clt' = clt
  BY LostStaysLost, Zenon DEF ServerInv, Inv, PoolTypes, ServerTypes
<1>1. ASSUME wpc[w] \in {"check", "handler", "pick"}
      PROVE  conns_'[clt[c_[w]]] >= c_[w]
  <2>1. wpc[w] \notin {"take", "wait", "exit"}
    BY <1>1
  <2>2. PICK k \in Client : k = clt[c_[w]]
    BY <2>1, ServedIsLive, Zenon
  <2>3. conns_[k] >= c_[w] /\ c_[w] \in 1 .. made
    BY <1>0, <1>1, <2>1, <2>2, ServedIsLive, Zenon DEF WorkerOf
  <2>4. conns_[k] \in Int /\ conns_'[k] \in Int /\ conns_'[k] >= conns_[k]
    BY LatestGrows, Zenon
  <2>5. made \in Int
    BY DEF ServerInv, Inv, PoolTypes
  <2>6. conns_'[k] >= c_[w]
    BY <2>3, <2>4, <2>5
  <2> QED BY <2>2, <2>6, Zenon
<1>2. ASSUME c_'[w] = c_[w], wpc'[w] \in {"check", "handler", "pick"} => wpc[w] \in {"check", "handler", "pick"},
             wpc'[w] \in {"take", "wait", "exit"} <=> wpc[w] \in {"take", "wait", "exit"}
      PROVE  WorkerOf(w)'
  BY <1>0, <1>1, <1>2, Zenon DEF WorkerOf
<1>3. CASE wpc'[w] = wpc[w] /\ c_'[w] = c_[w]
  BY <1>2, <1>3, Zenon
<1>4. CASE wpc[w] = "wait" /\ wpc'[w] = "take" /\ c_'[w] = c_[w]
  BY <1>2, <1>4
<1>5. CASE wpc[w] = "partial" /\ wpc'[w] = "decref" /\ c_'[w] = c_[w]
  BY <1>2, <1>5
<1>6. CASE takeJob(w)
  <2>1. CASE jobq_ = <<>>
    <3>1. wpc[w] = "take" /\ wpc'[w] = "wait" /\ c_'[w] = c_[w]
      BY <1>0, <1>6, <2>1, Zenon DEF takeJob
    <3> QED BY <1>2, <3>1
  <2>2. CASE jobq_ # <<>>
    <3>1. c_'[w] = Head(jobq_) /\ wpc'[w] = IF Head(jobq_) = NULL THEN "exit" ELSE "dispatch"
      BY <1>0, <1>6, <2>2, Zenon DEF takeJob
    <3> QED BY <3>1 DEF WorkerOf
  <2> QED BY <2>1, <2>2, Zenon
<1>7. CASE OldServer(w) \/ Send(w) \/ SendCompletes(w)
  <2>1. /\ c_'[w] = c_[w] /\ wpc[w] \in {"dispatch", "send", "partial"}
        /\ wpc'[w] \in {"send", "partial", "decref"}
    BY <1>0, <1>7, Zenon DEF OldServer, Send, SendCompletes, Step
  <2> QED BY <1>2, <2>1
<1>8. CASE SaveConnection(w)
  <2>1. /\ c_' = c_ /\ wpc[w] = "dispatch" /\ wpc'[w] = "check"
        /\ conns_[clt[c_[w]]] < c_[w] => conns_' = [conns_ EXCEPT ![clt[c_[w]]] = c_[w]]
    BY <1>0, <1>8, Zenon DEF SaveConnection, Step
  <2>2. c_[w] \in 1 .. made /\ clt[c_[w]] \in Client /\ made \in Int
    BY <2>1, ServedIsLive DEF ServerInv, Inv, PoolTypes
  <2>3. PICK k \in Client : k = clt[c_[w]]
    BY <2>2, Zenon
  <2>4. conns_'[k] >= c_[w]
    <3>1. CASE conns_[k] < c_[w]
      <4>1. conns_'[k] = c_[w]
        BY <2>1, <2>3, <3>1, Zenon DEF ServerInv, ServerTypes
      <4> QED BY <2>2, <4>1
    <3>2. CASE ~ (conns_[k] < c_[w])
      <4>1. conns_[k] \in Int /\ conns_'[k] \in Int /\ conns_'[k] >= conns_[k]
        BY LatestGrows, Zenon
      <4> QED BY <2>2, <3>2, <4>1
    <3> QED BY <3>1, <3>2, Zenon
  <2>5. c_[w] # NULL
    BY <2>2
  <2>6. WorkerOf(w)' <=> /\ c_[w] = NULL <=> FALSE
                         /\ conns_'[clt[c_[w]]] >= c_[w]
    BY <1>0, <2>1 DEF WorkerOf
  <2> QED BY <2>3, <2>4, <2>5, <2>6, Zenon
<1>9. CASE checkduplicate(w) \/ HandlerReturns(w)
  <2>1. /\ c_'[w] = c_[w] /\ wpc[w] \in {"check", "handler"}
        /\ wpc'[w] \in {"handler", "decref", "send", "pick"}
    BY <1>0, <1>9, Zenon DEF checkduplicate, HandlerReturns, Step
  <2> QED BY <1>2, <2>1
<1>10. CASE Pick(w)
  <2>1. /\ wpc[w] = "pick" /\ wpc'[w] = "send"
        /\ c_'[w] = c_[w] \/ c_'[w] = conns_[clt[c_[w]]]
    BY <1>0, <1>10, Zenon DEF Pick, Step, Latest
  <2>2. conns_[clt[c_[w]]] >= c_[w] /\ c_[w] \in 1 .. made /\ clt[c_[w]] \in Client
    <3>1. wpc[w] \notin {"take", "wait", "exit"} /\ wpc[w] \in {"check", "handler", "pick"}
      BY <2>1
    <3> QED BY <1>0, <3>1, ServedIsLive, Zenon DEF WorkerOf
  <2>3. PICK l : l = conns_[clt[c_[w]]] /\ l \in 0 .. made
    BY <2>2, Zenon DEF ServerInv, ServerTypes
  <2>4. c_'[w] # NULL
    BY <2>1, <2>2, <2>3
  <2> QED BY <2>1, <2>4 DEF WorkerOf
<1>11. CASE DispatchReturns(w)
  <2>1. c_'[w] = NULL /\ wpc'[w] = "take"
    BY <1>0, <1>11, Zenon DEF DispatchReturns, Step
  <2> QED BY <2>1 DEF WorkerOf
<1> QED BY <1>3, <1>4, <1>5, <1>6, <1>7, <1>8, <1>9, <1>10, <1>11, WorkerChanges, Zenon DEF WorkerStep

\* A call in progress has a worker in its handler.
LEMMA HandlerNext ==
  ASSUME ServerInv, Next, NEW k \in Client, seen'[k] = "inprogress"
  PROVE  \E w \in Worker : wpc'[w] = "handler" /\ clt'[c_'[w]] = k
<1>0. /\ clt' = clt /\ seen \in [Client -> {"new", "inprogress", "done"}]
      /\ DOMAIN wpc = Worker
  BY LostStaysLost, Zenon DEF ServerInv, ServerTypes, Inv, PoolTypes
<1>1. CASE seen[k] = "inprogress"
  <2>1. PICK w \in Worker : wpc[w] = "handler" /\ clt[c_[w]] = k
    BY <1>1, Zenon DEF ServerInv, AnswerOf
  <2>2. ~ HandlerReturns(w)
    BY <1>0, <2>1 DEF HandlerReturns
  <2>3. ~ WorkerStep(w)
    BY <2>1, <2>2, ZenonT(30) DEF WorkerStep, takeJob, OldServer, SaveConnection, checkduplicate, Pick, Send,
       SendCompletes, DispatchReturns
  <2>4. wpc'[w] = wpc[w] /\ c_'[w] = c_[w]
    BY <2>1, <2>3, WorkerChanges, ZenonT(30)
  <2> QED BY <1>0, <2>1, <2>4, Zenon
<1>2. CASE seen[k] # "inprogress"
  <2>1. \E w \in Worker : checkduplicate(w) \/ HandlerReturns(w)
    BY <1>2, Zenon DEF Next, PollStep, AcceptStep, DeleteStep, WorkerStep, GotPduReturns, got_pdu,
       read_eof, Accept, process_accept, AccepterStops, DeleteServer, AccepterJoined, closeconn,
       PoisonPills, takeJob, OldServer, SaveConnection, Pick, Send, SendCompletes, DispatchReturns,
       ClientBreaks, set_reachable
  <2>2. PICK w \in Worker : checkduplicate(w) \/ HandlerReturns(w)
    BY <2>1, Zenon
  <2>3. ~ HandlerReturns(w)
    BY <1>0, <1>2 DEF HandlerReturns
  <2>4. checkduplicate(w) /\ UNCHANGED c_
    BY <2>2, <2>3, Zenon DEF checkduplicate
  <2>5. /\ seen' = [seen EXCEPT ![clt[c_[w]]] = "inprogress"]
        /\ wpc' = [wpc EXCEPT ![w] = "handler"]
    BY <1>2, <2>4, Zenon DEF checkduplicate, Step
  <2>6. clt[c_[w]] = k /\ wpc'[w] = "handler"
    BY <1>0, <1>2, <2>5
  <2> QED BY <1>0, <2>4, <2>6, Zenon
<1> QED BY <1>1, <1>2, Zenon

\* A worker on its way with the reply delivers it, or hands it to nobody who
\* could miss it: the connection is lost, or the reply was misdirected.
LEMMA DeliveryNext ==
  ASSUME ServerInv, Next, NEW k \in Client, NEW w \in Worker, conns_[k] # NULL, seen[k] = "done",
         conns_'[k] = conns_[k], Delivers(w, k, conns_[k])
  PROVE  \/ conns_[k] \in sent' \/ broken'[conns_[k]] \/ k \in misdirected'
         \/ Delivers(w, k, conns_[k])'
<1> DEFINE c == conns_[k]
           Done == \/ c \in sent' \/ broken'[c] \/ k \in misdirected'
                   \/ Delivers(w, k, conns_[k])'
<1>0. /\ c \in Conn /\ c \in 1 .. made /\ clt[c] = k /\ clt' = clt
      /\ (broken[c] => broken'[c]) /\ (dead_[c] => broken[c]) /\ (dead_'[c] => broken'[c])
      /\ DOMAIN wpc = Worker /\ DOMAIN c_ = Worker
  BY KeptIsLive, LostStaysLost, Zenon DEF ServerInv, Superseded, ServerTypes, Inv, PoolTypes
<1>1. CASE wpc'[w] = wpc[w] /\ c_'[w] = c_[w]
  BY <1>0, <1>1, Zenon DEF Delivers
<1>2. CASE wpc[w] = "wait"
  BY <1>2 DEF Delivers
<1>3. CASE wpc[w] = "partial" /\ dead_'[c_[w]]
  <2>1. c_[w] = c
    BY <1>3 DEF Delivers
  <2> QED BY <1>0, <1>3, <2>1, Zenon
<1>4. CASE WorkerStep(w) /\ wpc[w] = "pick" /\ clt[c_[w]] = k
  <2>1. Pick(w)
    BY <1>4, ZenonT(30) DEF WorkerStep, takeJob, OldServer, SaveConnection, checkduplicate, HandlerReturns, Send,
       SendCompletes, DispatchReturns
  <2>2. /\ wpc'[w] = "send" /\ UNCHANGED broken
        /\ c_'[w] = Latest(c_[w]) \/ (Latest(c_[w]) = c_[w] /\ c_'[w] = c_[w])
        /\ broken[c_[w]] /\ ~ dead_[c_[w]] => k \in misdirected'
    BY <1>0, <1>4, <2>1, Zenon DEF Pick, Step
  <2>3. c_[w] \in 1 .. made /\ c_[w] \in Conn /\ c >= c_[w]
    <3>1. wpc[w] \notin {"take", "wait", "exit"} /\ wpc[w] \in {"check", "handler", "pick"}
      BY <1>4, ZenonT(30)
    <3> QED BY <1>4, <3>1, ServedIsLive, Zenon DEF ServerInv, WorkerOf
  <2>4. CASE dead_[c_[w]]
    <3>1. c_'[w] = c
      BY <1>4, <2>2, <2>4, Zenon DEF Latest
    <3> QED BY <2>2, <3>1, ZenonT(30) DEF Delivers
  <2>5. CASE ~ dead_[c_[w]] /\ broken[c_[w]]
    BY <2>2, <2>5, Zenon
  <2>6. CASE ~ broken[c_[w]]
    <3>1. c_[w] = c
      <4>1. ~ (c_[w] < c)
        BY <1>0, <1>4, <2>3, <2>6, Zenon DEF ServerInv, Superseded
      <4>2. made \in Int
        BY DEF ServerInv, Inv, PoolTypes
      <4> QED BY <1>0, <2>3, <4>1, <4>2
    <3>2. Latest(c_[w]) = c
      BY <1>0, <2>6, <3>1, Zenon DEF Latest
    <3>3. c_'[w] = c
      BY <2>2, <3>1, <3>2, Zenon
    <3> QED BY <2>2, <3>3 DEF Delivers
  <2> QED BY <2>4, <2>5, <2>6, Zenon
<1>5. CASE WorkerStep(w) /\ wpc[w] = "check" /\ c_[w] = c
  <2>1. checkduplicate(w)
    BY <1>5, ZenonT(30) DEF WorkerStep, takeJob, OldServer, SaveConnection, Pick, HandlerReturns, Send,
       SendCompletes, DispatchReturns
  <2>2. wpc' = [wpc EXCEPT ![w] = "send"] /\ c_'[w] = c
    BY <1>0, <1>5, <2>1, ZenonT(30) DEF checkduplicate, Step
  <2>3. wpc'[w] = "send"
    BY <1>0, <2>2, Zenon
  <2> QED BY <2>2, <2>3 DEF Delivers
<1>6. CASE WorkerStep(w) /\ wpc[w] = "send" /\ c_[w] = c
  <2>1. Send(w)
    BY <1>6, ZenonT(30) DEF WorkerStep, takeJob, OldServer, SaveConnection, Pick, HandlerReturns, checkduplicate,
       SendCompletes, DispatchReturns
  <2>2. dead_[c] \/ c \in sent' \/ broken[c] \/ (wpc' = [wpc EXCEPT ![w] = "partial"] /\ c_' = c_)
    BY <1>6, <2>1, Zenon DEF Send, Step
  <2>3. CASE wpc' = [wpc EXCEPT ![w] = "partial"] /\ c_' = c_
    <3>1. wpc'[w] = "partial" /\ c_'[w] = c
      BY <1>0, <1>6, <2>3, Zenon
    <3> QED BY <3>1, ZenonT(30) DEF Delivers
  <2> QED BY <1>0, <2>2, <2>3, Zenon
<1>7. CASE WorkerStep(w) /\ wpc[w] = "partial" /\ c_[w] = c
  <2>1. SendCompletes(w)
    BY <1>7, ZenonT(30) DEF WorkerStep, takeJob, OldServer, SaveConnection, Pick, HandlerReturns, checkduplicate,
       Send, DispatchReturns
  <2> QED BY <1>7, <2>1, Zenon DEF SendCompletes
<1>8. \/ wpc[w] = "pick" /\ clt[c_[w]] = k
      \/ wpc[w] = "check" /\ c_[w] = c
      \/ wpc[w] = "send" /\ c_[w] = c
      \/ wpc[w] = "partial" /\ c_[w] = c
  BY ZenonT(30) DEF Delivers
<1> QED BY <1>1, <1>2, <1>3, <1>4, <1>5, <1>6, <1>7, <1>8, WorkerChanges, Zenon

\* Every step keeps an answer on its way to where the client was last seen.
LEMMA AnswersNext ==
  ASSUME ServerInv, Next, NEW k \in Client
  PROVE  AnswerOf(k)'
<1>0. /\ clt' = clt /\ seen \in [Client -> {"new", "inprogress", "done"}]
      /\ DOMAIN wpc = Worker /\ sent \subseteq sent' /\ misdirected \subseteq misdirected'
  BY LostStaysLost, Zenon DEF ServerInv, ServerTypes, Inv, PoolTypes
<1> DEFINE Answered == \/ conns_'[k] \in sent' \/ broken'[conns_'[k]] \/ k \in misdirected'
                       \/ \E w \in Worker : Delivers(w, k, conns_[k])'
<1>1. ASSUME conns_'[k] # NULL, seen'[k] = "done"
      PROVE  Answered
  <2>1. CASE conns_'[k] # conns_[k]
    <3>1. PICK w \in Worker : wpc'[w] = "check" /\ conns_'[k] = c_[w] /\ UNCHANGED <<c_, seen>>
      BY <2>1, LatestMoves, Zenon
    <3>2. c_'[w] = c_[w]
      BY <3>1, Zenon
    <3> QED BY <3>1, <3>2, ZenonT(30) DEF Delivers
  <2>2. CASE conns_'[k] = conns_[k] /\ seen[k] = "done"
    <3>1. conns_[k] \in Conn /\ (broken[conns_[k]] => broken'[conns_[k]])
      BY <1>1, <2>2, KeptIsLive, LostStaysLost, Zenon
    <3>2. \/ conns_[k] \in sent \/ broken[conns_[k]] \/ k \in misdirected
          \/ \E w \in Worker : Delivers(w, k, conns_[k])
      BY <1>1, <2>2, Zenon DEF ServerInv, AnswerOf
    <3>3. ASSUME NEW w \in Worker, Delivers(w, k, conns_[k])
          PROVE  Answered
      BY <1>1, <2>2, <3>3, DeliveryNext, Zenon
    <3> QED BY <1>0, <2>2, <3>1, <3>2, <3>3, Zenon
  <2>3. CASE seen[k] # "done"
    <3>1. \E w \in Worker : checkduplicate(w) \/ HandlerReturns(w)
      BY <1>1, <2>3, Zenon DEF Next, PollStep, AcceptStep, DeleteStep, WorkerStep, GotPduReturns, got_pdu,
         read_eof, Accept, process_accept, AccepterStops, DeleteServer, AccepterJoined, closeconn,
         PoisonPills, takeJob, OldServer, SaveConnection, Pick, Send, SendCompletes, DispatchReturns,
         ClientBreaks, set_reachable
    <3>2. PICK w \in Worker : checkduplicate(w) \/ HandlerReturns(w)
      BY <3>1, Zenon
    <3>3. ~ checkduplicate(w)
      BY <1>0, <1>1, <2>3, ZenonT(30) DEF checkduplicate
    <3>4. /\ seen' = [seen EXCEPT ![clt[c_[w]]] = "done"] /\ c_' = c_
          /\ wpc' = [wpc EXCEPT ![w] = "pick"]
      BY <3>2, <3>3, Zenon DEF HandlerReturns, Step
    <3>5. clt[c_[w]] = k /\ wpc'[w] = "pick"
      BY <1>0, <1>1, <2>3, <3>4, ZenonT(30)
    <3> QED BY <1>0, <3>4, <3>5, Zenon DEF Delivers
  <2> QED BY <2>1, <2>2, <2>3, Zenon
<1> QED BY <1>1, HandlerNext, Zenon DEF AnswerOf

-----------------------------------------------------------------------------
(* The references and the replies, always *)

\* Nothing is counted at first.
LEMMA ServerInit == Init => ServerInv
<1> SUFFICES ASSUME Init
             PROVE  ServerInv
  OBVIOUS
<1>1. ServerTypes
  <2>1. refno_ \in [Conn -> Int] /\ leaked \in [Conn -> Nat] /\ Len(jobq_) <= MaxJobs
        /\ conns_ \in [Client -> 0 .. made] /\ c_ \in [Worker -> 0 .. made]
        /\ jobq_ \in Seq(0 .. made)
    BY DEF Init
  <2> QED BY <2>1, Zenon DEF Init, ServerTypes
<1>2. ASSUME NEW c \in Conn
      PROVE  References(c) = 0 /\ refno_[c] = 0
  <2>1. c # 0
    OBVIOUS
  <2>2. Kept(c) = {} /\ Served(c) = {} /\ Listed(c) = 0 /\ leaked[c] = 0 /\ refno_[c] = 0
    BY <2>1, Zenon DEF Init, Kept, Served, Listed
  <2>3. Queued(c) = {}
    BY DEF Init, Queued
  <2>4. Cardinality({}) = 0
    BY FS_EmptySet, Zenon
  <2> QED BY <2>2, <2>3, <2>4 DEF References
<1>3. Counted
  BY <1>2, Zenon DEF Counted, Init
<1>4. Superseded
  BY DEF Superseded, Init
<1>5. \A w \in Worker : WorkerOf(w)
  BY DEF WorkerOf, Init
<1>6. \A k \in Client : AnswerOf(k)
  BY DEF AnswerOf, Init
<1> QED BY <1>1, <1>3, <1>4, <1>5, <1>6, InitInv, Zenon DEF ServerInv

\* Every step keeps all of it.
LEMMA ServerNext == ServerInv /\ [Next]_vars => ServerInv'
<1> SUFFICES ASSUME ServerInv, [Next]_vars
             PROVE  ServerInv'
  OBVIOUS
<1>1. CASE Next
  <2>1. Inv'
    BY <1>1, NextInv, Zenon DEF ServerInv
  <2>2. ServerTypes' /\ Counted' /\ Superseded'
    BY <1>1, TypesNext, CountedNext, SupersededNext, Zenon
  <2>3. \A w \in Worker : WorkerOf(w)'
    BY <1>1, WorkersNext, Zenon
  <2>4. \A k \in Client : AnswerOf(k)'
    BY <1>1, AnswersNext, Zenon
  <2> QED BY <2>1, <2>2, <2>3, <2>4, Zenon DEF ServerInv
<1>2. CASE UNCHANGED vars
  <2>1. Inv'
    BY NextInv, Zenon DEF ServerInv
  <2>2. UNCHANGED <<made, freed, clt, dead_, refno_, broken, tconns, accepting, conns_, seen, jobq_,
                    wpc, c_, sent, misdirected, leaked>>
    BY <1>2, Zenon DEF vars, connVars, acptVars, workVars, histVars
  <2>3. Counted'
    BY <2>2, CountedFrame, Zenon
  <2>4. ServerTypes' /\ Superseded'
    BY <2>2, Zenon DEF ServerInv, ServerTypes, Superseded
  <2>5. \A w \in Worker : WorkerOf(w)'
    BY <2>2, Zenon DEF ServerInv, WorkerOf
  <2>6. ASSUME NEW k \in Client
        PROVE  AnswerOf(k)'
    <3>1. \A w \in Worker : Delivers(w, k, conns_[k]) => Delivers(w, k, conns_[k])'
      BY <2>2, Zenon DEF Delivers
    <3>2. AnswerOf(k)
      BY Zenon DEF ServerInv
    <3> QED BY <2>2, <3>1, <3>2, Zenon DEF AnswerOf
  <2> QED BY <2>1, <2>3, <2>4, <2>5, <2>6, Zenon DEF ServerInv
<1> QED BY <1>1, <1>2, Zenon

\* What the invariant says of the connections.
LEMMA InvCounted == ServerInv => ConnectionsAreCounted
<1> SUFFICES ASSUME ServerInv
             PROVE  ConnectionsAreCounted
  OBVIOUS
<1>0. made \in 0 .. MaxConns /\ freed \subseteq 1 .. made /\ 1 .. made \subseteq Conn /\ 0 \notin freed
  BY DEF ServerInv, ServerTypes, Inv, PoolTypes
<1>1. TypeOK
  <2>1. ASSUME NEW c \in Conn
        PROVE  refno_[c] \in Nat
    <3>1. refno_[c] = References(c)
      BY Zenon DEF ServerInv, Counted
    <3> QED BY <3>1, ReferenceTypes DEF References
  <2>2. Range(jobq_) \subseteq 0 .. made
    <3>1. jobq_ \in Seq(0 .. made)
      BY Zenon DEF ServerInv, ServerTypes
    <3>2. \A S, s : s \in Seq(S) => Range(s) \subseteq S
      BY DEF Range
    <3> QED BY <3>1, <3>2, Zenon
  <2> QED BY <1>0, <2>1, <2>2, Zenon DEF TypeOK, ServerInv, ServerTypes, Inv, PoolTypes
<1>2. \A c \in (1 .. made) \ freed : refno_[c] = References(c)
  BY <1>0, Zenon DEF ServerInv, Counted
<1>3. ASSUME NEW c \in freed
      PROVE  c \notin tconns \cup {accepting} \cup Range(conns_) \cup Range(jobq_) \cup Range(c_)
  <2>1. c \in Conn
    BY <1>0, Zenon
  <2>2. c \notin tconns \cup {accepting} /\ Kept(c) = {} /\ Queued(c) = {} /\ Served(c) = {}
    BY <1>3, <2>1, ReferencedIsLive, Zenon
  <2>3. DOMAIN conns_ = Client /\ DOMAIN c_ = Worker
    BY Zenon DEF ServerInv, ServerTypes
  <2>4. c \notin Range(conns_) /\ c \notin Range(jobq_) /\ c \notin Range(c_)
    BY <2>2, <2>3, Zenon DEF Range, Kept, Queued, Served
  <2> QED BY <2>2, <2>4, Zenon
<1>4. (tconns \cup {accepting} \cup Range(conns_) \cup Range(jobq_) \cup Range(c_)) \cap freed = {}
  BY <1>3, Zenon
<1> QED BY <1>1, <1>2, <1>4, Zenon
        DEF ConnectionsAreCounted, References, Listed, Kept, Queued, Served

\* The references of connection::incref and decref are exact: refno_ is the
\* number of places that have the connection, plus what dispatch forgets to
\* drop, and nothing has one that was deleted - not the queue, not a worker,
\* not rpcs::conns_.
THEOREM ReferencesAreExact == Spec => []ConnectionsAreCounted
BY InvCounted, ServerInit, ServerNext, PTL DEF Spec

\* What the invariant says of the replies.
LEMMA InvReplies == ServerInv => ReplyFollowsTheClient
<1> SUFFICES ASSUME ServerInv, NEW k \in Client, conns_[k] # NULL, seen[k] = "done", ~ Busy(k)
             PROVE  conns_[k] \in sent \/ broken[conns_[k]] \/ k \in misdirected
  BY Zenon DEF ReplyFollowsTheClient
<1>1. ASSUME NEW w \in Worker, Delivers(w, k, conns_[k])
      PROVE  Busy(k)
  <2>1. wpc[w] \notin {"take", "wait", "exit"}
    BY <1>1 DEF Delivers
  <2>2. c_[w] # NULL
    BY <2>1, Zenon DEF ServerInv, WorkerOf
  <2>3. clt[c_[w]] = k
    BY <1>1, KeptIsLive, Zenon DEF Delivers
  <2> QED BY <2>2, <2>3, Zenon DEF Busy
<1> QED BY <1>1, Zenon DEF ServerInv, AnswerOf

\* Two connections of a client, a retransmission on each, a handler that
\* returns after the first is lost: the reply gets to the latest connection,
\* or that one is lost as well, or the reply was sent on a connection that was
\* lost and not yet found dead.
THEOREM RepliesFollowTheClient == Spec => []ReplyFollowsTheClient
BY InvReplies, ServerInit, ServerNext, PTL DEF Spec

=============================================================================
