----------------------------- MODULE Connection -----------------------------
(***************************************************************************)
(* The client's connections and the event loop under them                  *)
(* (rpc/connection.cc, rpc/pollmgr.cc with SelectAIO, and the parts of     *)
(* rpc/rpc.cc that own a connection).  Threads that call share rpcc::chan_ *)
(* and replace it when it is dead; the thread of PollMgr runs the          *)
(* callbacks; the thread that deletes the rpcc closes its connection.      *)
(*                                                                         *)
(* A step is a section under one mutex.  A PDU is two chunks: the one with *)
(* the size, and the rest.  Connections and file descriptors are numbers,  *)
(* 0 being NULL; a descriptor is given out again once it is closed.        *)
(***************************************************************************)
EXTENDS Naturals, FiniteSets, SequencesExt

CONSTANTS
  Caller,     \* the threads in rpcc::call1, one call each
  Owner,      \* the thread that runs ~rpcc when the calls are over
  Fd,         \* file descriptors, positive numbers
  MaxConns,   \* bound: connections made
  MaxBreaks,  \* bound: connections lost to the network
  MaxPipe,    \* bound: bytes kept in SelectAIO's pipe
  None

ASSUME ConnectionAssumption ==
  /\ Owner \notin Caller /\ None \notin Caller \cup {Owner}
  /\ Fd \subseteq Nat \ {0} /\ MaxConns \in Nat /\ MaxBreaks \in Nat /\ MaxPipe \in Nat \ {0}

Thread == Caller \cup {Owner}
Conn   == 1 .. MaxConns
NULL   == 0

VARIABLES
  chan_,                            \* rpcc
  ca_done,                          \* caller::done
  pc, ch,                           \* threads; the connection a thread has
  made, freed,                      \* connections made, and those deleted
  fd_, dead_, refno_,               \* connection
  writer, solong,                   \* wpdu_: whose PDU it is, chunks written
  rpdu_,                            \* the reply of which the size is read
  callbacks_, pending_change_,      \* PollMgr
  rfds_, wfds_, pipe,               \* SelectAIO; bytes in its pipe
  ppc, trfds, twfds, readable, writable, cb, errno,  \* the thread of PollMgr
  stream, input, full, broken,      \* the sockets
  failed                            \* the VERIFY that ended the process

connVars == <<made, freed, fd_, dead_, refno_, writer, solong, rpdu_>>
mgrVars  == <<callbacks_, pending_change_, rfds_, wfds_, pipe>>
pollVars == <<ppc, trfds, twfds, readable, writable, cb, errno>>
sockVars == <<stream, input, full, broken>>
vars == <<chan_, ca_done, pc, ch, connVars, mgrVars, pollVars, sockVars, failed>>

Open == (1 .. made) \ freed

Init ==
  /\ chan_ = NULL
  /\ ca_done = [t \in Caller |-> FALSE]
  /\ pc = [t \in Thread |-> IF t = Owner THEN "run" ELSE "connect"]
  /\ ch = [t \in Thread |-> NULL]
  /\ made = 0 /\ freed = {}
  /\ fd_ = [c \in Conn |-> NULL]
  /\ dead_ = [c \in Conn |-> FALSE]
  /\ refno_ = [c \in Conn |-> 0]
  /\ writer = [c \in Conn |-> None]
  /\ solong = [c \in Conn |-> 0]
  /\ rpdu_ = [c \in Conn |-> None]
  /\ callbacks_ = [f \in Fd |-> NULL]
  /\ pending_change_ = FALSE
  /\ rfds_ = {} /\ wfds_ = {} /\ pipe = 0
  /\ ppc = "top" /\ trfds = {} /\ twfds = {} /\ readable = {} /\ writable = {}
  /\ cb = NULL /\ errno = "other"
  /\ stream = [c \in Conn |-> <<>>]
  /\ input = [c \in Conn |-> <<>>]
  /\ full = [c \in Conn |-> FALSE]
  /\ broken = [c \in Conn |-> FALSE]
  /\ failed = "none"

-----------------------------------------------------------------------------
(* Condition variables, reference counts, sockets *)

\* The threads of S that wait at the first place go on from the second.
Wake(S, from, to) == [t \in Thread |-> IF t \in S /\ pc[t] = from THEN to ELSE pc[t]]

UsersOf(c) == {t \in Thread : ch[t] = c}

\* A byte in the pipe of SelectAIO; what matters of it is whether there is one.
WakeSelect == pipe' = IF pipe < MaxPipe THEN pipe + 1 ELSE pipe

Drop(counts, c) == [counts EXCEPT ![c] = @ - 1]

\* connection::decref deletes what nobody counts any more, if it is dead; the
\* destructor asserts that no send is under way.
Deleted(counts, dropped) == {c \in dropped : counts[c] = 0 /\ dead_[c]}

\* What write() takes of the rest of the PDU: nothing (EAGAIN) when the
\* socket's buffer is full, else some, and the buffer is then full, or all.
\* On a broken connection it may also fail; see the actions.
Write(c, t, n) ==
  /\ n <= 2 - solong[c]
  /\ n = 0 <=> (full[c] \/ solong[c] = 2)
  /\ stream' = [stream EXCEPT ![c] = @ \o [i \in 1 .. n |-> t]]
  /\ \E b \in BOOLEAN :
       /\ solong[c] + n < 2 => b
       /\ full' = [full EXCEPT ![c] = b]

-----------------------------------------------------------------------------
(* PollMgr's callbacks, with watch_fd and unwatch_fd of SelectAIO *)

\* PollMgr::add_callback for CB_RDONLY ("r") or CB_WRONLY ("w"); it asserts
\* that the descriptor is registered for no other connection.
add_callback(f, flag, c) ==
  /\ rfds_' = IF flag = "r" THEN rfds_ \cup {f} ELSE rfds_
  /\ wfds_' = IF flag = "w" THEN wfds_ \cup {f} ELSE wfds_
  /\ WakeSelect
  /\ callbacks_' = [callbacks_ EXCEPT ![f] = c]
  /\ failed' = IF callbacks_[f] \in {NULL, c} THEN failed ELSE "add_callback"

\* SelectAIO::unwatch_fd for CB_WRONLY ({"w"}) and CB_RDWR ({"r", "w"}).
unwatch_fd(f, flags) ==
  /\ rfds_' = IF "r" \in flags THEN rfds_ \ {f} ELSE rfds_
  /\ wfds_' = wfds_ \ {f}
  /\ IF "r" \in flags THEN WakeSelect ELSE UNCHANGED pipe

\* Mutant: unwatched, but still registered.
del_callback_unwatch(c, flags) ==
  /\ unwatch_fd(fd_[c], flags)
  /\ UNCHANGED callbacks_

\* PollMgr::del_callback: a descriptor no longer watched has no callback.
del_callback(c, flags) ==
  /\ unwatch_fd(fd_[c], flags)
  /\ callbacks_' = IF fd_[c] \in rfds_' THEN callbacks_
                   ELSE [callbacks_ EXCEPT ![fd_[c]] = NULL]

-----------------------------------------------------------------------------
(* rpcc: get_refconn, and the caller's loop in call1 *)

\* connect_to_dst and the constructor of connection, which registers the
\* read callback; f is a descriptor that is free.
NewConnection(f) ==
  /\ made < MaxConns
  /\ made' = made + 1
  /\ chan_' = made'
  /\ fd_' = [fd_ EXCEPT ![made'] = f]
  /\ add_callback(f, "r", made')

get_refconn(t) ==
  /\ pc[t] = "connect"
  /\ \/ /\ chan_ # NULL /\ ~ dead_[chan_]
        /\ ch' = [ch EXCEPT ![t] = chan_]
        /\ LET counts == IF ch[t] = NULL THEN refno_ ELSE Drop(refno_, ch[t]) IN
           /\ refno_' = [counts EXCEPT ![chan_] = @ + 1]
           /\ freed' = freed \cup Deleted(refno_', {ch[t]} \ {NULL})
        /\ UNCHANGED <<chan_, made, fd_, rfds_, wfds_, pipe, callbacks_, failed>>
     \/ /\ chan_ # NULL => dead_[chan_]
        /\ LET old    == {chan_, ch[t]} \ {NULL}
               counts == IF chan_ = NULL THEN refno_ ELSE Drop(refno_, chan_)
               gone   == Deleted(counts, {chan_} \ {NULL})
           IN  \/ \E f \in Fd \ {fd_[c] : c \in Open \ gone} :
                    /\ NewConnection(f)
                    /\ LET c2 == IF ch[t] = NULL THEN counts ELSE Drop(counts, ch[t])
                       IN  refno_' = [c2 EXCEPT ![made'] = 2]
                    /\ ch' = [ch EXCEPT ![t] = made']
                    /\ freed' = freed \cup Deleted(refno_', old)
               \/ /\ chan_' = NULL                    \* connect() fails
                  /\ refno_' = counts
                  /\ freed' = freed \cup gone
                  /\ UNCHANGED <<ch, made, fd_, rfds_, wfds_, pipe, callbacks_, failed>>
  /\ pc' = [pc EXCEPT ![t] = IF ch'[t] = NULL THEN "await" ELSE "send"]
  /\ UNCHANGED <<ca_done, dead_, writer, solong, rpdu_, pending_change_, pollVars, sockVars>>

\* The caller wakes at its deadline: it transmits again if its connection is
\* gone, or goes on waiting.
Retransmit(t) ==
  /\ pc[t] = "await" /\ ~ ca_done[t]
  /\ ch[t] # NULL => dead_[ch[t]]
  /\ pc' = [pc EXCEPT ![t] = "connect"]
  /\ UNCHANGED <<chan_, ca_done, ch, connVars, mgrVars, pollVars, sockVars, failed>>

\* The reply is there, or the final deadline has passed: the caller drops its
\* connection.
Return(t) ==
  /\ t \in Caller /\ pc[t] = "await"
  /\ pc' = [pc EXCEPT ![t] = "over"]
  /\ ch' = [ch EXCEPT ![t] = NULL]
  /\ refno_' = IF ch[t] = NULL THEN refno_ ELSE Drop(refno_, ch[t])
  /\ freed' = freed \cup Deleted(refno_', {ch[t]} \ {NULL})
  /\ UNCHANGED <<chan_, ca_done, made, fd_, dead_, writer, solong, rpdu_, mgrVars, pollVars,
                 sockVars, failed>>

-----------------------------------------------------------------------------
(* connection::send *)

\* send returns: the next sender may go.
EndSend(t, c) ==
  /\ writer' = [writer EXCEPT ![c] = None]
  /\ solong' = [solong EXCEPT ![c] = 0]
  /\ pc' = [Wake(UsersOf(c), "send_wait", "send") EXCEPT ![t] = "await"]

\* Mutant: nobody waits for a PDU that is being written.
WriteBusy_never(c) == FALSE

\* wpdu_.buf is set: a PDU is being written.
WriteBusy(c) == writer[c] # None

\* Entered, or woken from send_wait_: the connection is dead, another PDU is
\* being written, or this one is.
send(t) ==
  /\ pc[t] = "send"
  /\ LET c == ch[t] IN
     \/ /\ dead_[c]
        /\ pc' = [pc EXCEPT ![t] = "await"]
        /\ UNCHANGED <<dead_, writer, solong, rfds_, wfds_, pipe, callbacks_, stream, full,
                       failed>>
     \/ /\ ~ dead_[c] /\ WriteBusy(c)
        /\ pc' = [pc EXCEPT ![t] = "send_wait"]
        /\ UNCHANGED <<dead_, writer, solong, rfds_, wfds_, pipe, callbacks_, stream, full,
                       failed>>
     \/ /\ ~ dead_[c] /\ ~ WriteBusy(c)
        /\ \/ /\ Write(c, t, 2)
              /\ EndSend(t, c)
              /\ UNCHANGED <<dead_, rfds_, wfds_, pipe, callbacks_, failed>>
           \/ /\ \E n \in 0 .. 1 : Write(c, t, n) /\ solong' = [solong EXCEPT ![c] = n]
              /\ writer' = [writer EXCEPT ![c] = t]
              /\ add_callback(fd_[c], "w", c)
              /\ pc' = [pc EXCEPT ![t] = "send_complete"]
              /\ UNCHANGED dead_
           \/ /\ broken[c]
              /\ writer' = [writer EXCEPT ![c] = t]
              /\ dead_' = [dead_ EXCEPT ![c] = TRUE]
              /\ pc' = [pc EXCEPT ![t] = "remove"]
              /\ UNCHANGED <<solong, rfds_, wfds_, pipe, callbacks_, stream, full, failed>>
  /\ UNCHANGED <<chan_, ca_done, ch, made, freed, fd_, refno_, rpdu_, pending_change_,
                 pollVars, input, broken>>

\* Woken from send_complete_.
SendWoken(t) ==
  /\ pc[t] = "send_woken"
  /\ IF ~ dead_[ch[t]] /\ solong[ch[t]] < 2
     THEN pc' = [pc EXCEPT ![t] = "send_complete"] /\ UNCHANGED <<writer, solong>>
     ELSE EndSend(t, ch[t])
  /\ UNCHANGED <<chan_, ca_done, ch, made, freed, fd_, dead_, refno_, rpdu_, mgrVars, pollVars,
                 sockVars, failed>>

-----------------------------------------------------------------------------
(* PollMgr::block_remove_fd, connection::closeconn and the end of the rpcc *)

\* Mutant: it does not wait for the loop of PollMgr.
block_remove_fd_at_once(t) ==
  /\ pc[t] = "remove"
  /\ unwatch_fd(fd_[ch[t]], {"r", "w"})
  /\ pc' = [pc EXCEPT ![t] = "change_done"]
  /\ UNCHANGED <<chan_, ca_done, ch, connVars, callbacks_, pending_change_, pollVars, sockVars,
                 failed>>

block_remove_fd(t) ==
  /\ pc[t] = "remove"
  /\ unwatch_fd(fd_[ch[t]], {"r", "w"})
  /\ pending_change_' = TRUE
  /\ pc' = [pc EXCEPT ![t] = "change_wait"]
  /\ UNCHANGED <<chan_, ca_done, ch, connVars, callbacks_, pollVars, sockVars, failed>>

\* changedone_c_ was broadcast: the callback goes, and the caller of
\* block_remove_fd goes on.
Removed(t) ==
  /\ pc[t] = "change_done"
  /\ callbacks_' = [callbacks_ EXCEPT ![fd_[ch[t]]] = NULL]
  /\ \/ /\ t \in Caller
        /\ EndSend(t, ch[t])
     \/ /\ t = Owner
        /\ pc' = [pc EXCEPT ![t] = "drop"]
        /\ UNCHANGED <<writer, solong>>
  /\ UNCHANGED <<chan_, ca_done, ch, made, freed, fd_, dead_, refno_, rpdu_, pending_change_,
                 rfds_, wfds_, pipe, pollVars, sockVars, failed>>

\* ~rpcc, which may run only when no thread is inside the rpcc.
closeconn(t) ==
  /\ t = Owner /\ pc[t] = "run"
  /\ \A u \in Caller : pc[u] = "over"
  /\ ch' = [ch EXCEPT ![t] = chan_]
  /\ chan_' = NULL
  /\ \/ /\ chan_ = NULL
        /\ pc' = [pc EXCEPT ![t] = "over"]
        /\ UNCHANGED <<dead_, broken>>
     \/ /\ chan_ # NULL /\ dead_[chan_]
        /\ pc' = [pc EXCEPT ![t] = "drop"]
        /\ UNCHANGED <<dead_, broken>>
     \/ /\ chan_ # NULL /\ ~ dead_[chan_]
        /\ dead_' = [dead_ EXCEPT ![chan_] = TRUE]
        /\ broken' = [broken EXCEPT ![chan_] = TRUE]
        /\ pc' = [pc EXCEPT ![t] = "remove"]
  /\ UNCHANGED <<ca_done, made, freed, fd_, refno_, writer, solong, rpdu_, mgrVars, pollVars,
                 stream, input, full, failed>>

decref(t) ==
  /\ pc[t] = "drop"
  /\ refno_' = Drop(refno_, ch[t])
  /\ freed' = freed \cup Deleted(refno_', {ch[t]})
  /\ ch' = [ch EXCEPT ![t] = NULL]
  /\ pc' = [pc EXCEPT ![t] = "over"]
  /\ UNCHANGED <<chan_, ca_done, made, fd_, dead_, writer, solong, rpdu_, mgrVars, pollVars,
                 sockVars, failed>>

-----------------------------------------------------------------------------
(* The thread of PollMgr: wait_loop and SelectAIO::wait_ready *)

\* The head of the loop answers the callers of block_remove_fd.
LoopTop ==
  /\ ppc = "top"
  /\ ppc' = "snapshot"
  /\ pending_change_' = FALSE
  /\ pc' = IF pending_change_ THEN Wake(Thread, "change_wait", "change_done") ELSE pc
  /\ UNCHANGED <<chan_, ca_done, ch, connVars, callbacks_, rfds_, wfds_, pipe, trfds, twfds,
                 readable, writable, cb, errno, sockVars, failed>>

Snapshot ==
  /\ ppc = "snapshot"
  /\ ppc' = "select"
  /\ trfds' = rfds_ /\ twfds' = wfds_
  /\ UNCHANGED <<chan_, ca_done, pc, ch, connVars, mgrVars, readable, writable, cb, errno,
                 sockVars, failed>>

Readable(c) == input[c] # <<>> \/ broken[c]
Writable(c) == ~ full[c] \/ broken[c]

\* select() returns when a watched descriptor or the pipe is ready; one byte
\* is taken from the pipe.  It fails (EBADF) on a descriptor that is closed.
Select ==
  /\ ppc = "select"
  /\ LET r == {fd_[c] : c \in {d \in Open : fd_[d] \in trfds /\ Readable(d)}}
         w == {fd_[c] : c \in {d \in Open : fd_[d] \in twfds /\ Writable(d)}}
         shut == (trfds \cup twfds) \ {fd_[c] : c \in Open}
     IN  /\ r \cup w # {} \/ pipe > 0 \/ shut # {}
         /\ readable' = r /\ writable' = w
         /\ ppc' = IF r \cup w = {} THEN "top" ELSE "dispatch"
         /\ failed' = IF shut = {} THEN failed ELSE "select"
  /\ pipe' = IF pipe > 0 THEN pipe - 1 ELSE 0
  /\ trfds' = {} /\ twfds' = {}
  /\ UNCHANGED <<chan_, ca_done, pc, ch, connVars, callbacks_, pending_change_, rfds_, wfds_,
                 cb, errno, sockVars>>

\* The next descriptor, readable ones first: its callback is read without a lock.
PickCallback ==
  /\ ppc = "dispatch"
  /\ \/ \E f \in readable :
          /\ readable' = readable \ {f} /\ UNCHANGED writable
          /\ cb' = callbacks_[f]
          /\ ppc' = IF cb' # NULL THEN "read_cb"
                    ELSE IF readable' \cup writable = {} THEN "top" ELSE "dispatch"
     \/ /\ readable = {}
        /\ \E f \in writable :
             /\ writable' = writable \ {f} /\ UNCHANGED readable
             /\ cb' = callbacks_[f]
             /\ ppc' = IF cb' # NULL THEN "write_cb"
                       ELSE IF writable' = {} THEN "top" ELSE "dispatch"
  /\ UNCHANGED <<chan_, ca_done, pc, ch, connVars, mgrVars, trfds, twfds, errno, sockVars,
                 failed>>

EndCallback ==
  /\ cb' = NULL
  /\ ppc' = IF readable \cup writable = {} THEN "top" ELSE "dispatch"

\* Mutant: the sender is not told.
DieInCallback_silent(c) ==
  /\ del_callback(c, {"r", "w"})
  /\ dead_' = [dead_ EXCEPT ![c] = TRUE]
  /\ UNCHANGED pc

\* The connection died under a callback: del_callback, dead_, and the signal
\* to a sender that waits for the end of its PDU.
DieInCallback(c) ==
  /\ del_callback(c, {"r", "w"})
  /\ dead_' = [dead_ EXCEPT ![c] = TRUE]
  /\ pc' = Wake(UsersOf(c), "send_complete", "send_woken")

\* connection::write_cb
write_cb ==
  /\ ppc = "write_cb"
  /\ EndCallback
  /\ \/ /\ dead_[cb]
        /\ failed' = "write_cb"
        /\ UNCHANGED <<pc, dead_, solong, callbacks_, rfds_, wfds_, pipe, stream, full, errno>>
     \/ /\ ~ dead_[cb] /\ ~ WriteBusy(cb)
        /\ del_callback(cb, {"w"})
        /\ UNCHANGED <<pc, dead_, solong, stream, full, errno, failed>>
     \/ /\ ~ dead_[cb] /\ WriteBusy(cb)
        /\ \/ /\ \E n \in 0 .. 2 :
                   /\ Write(cb, writer[cb], n)
                   /\ solong' = [solong EXCEPT ![cb] = @ + n]
                   /\ errno' = IF n = 0 /\ solong[cb] < 2 THEN "EAGAIN" ELSE errno
              /\ pc' = IF solong'[cb] < 2 THEN pc
                       ELSE Wake(UsersOf(cb), "send_complete", "send_woken")
              /\ UNCHANGED <<dead_, callbacks_, rfds_, wfds_, pipe>>
           \/ /\ broken[cb] /\ solong[cb] < 2
              /\ DieInCallback(cb)
              /\ errno' = "other"
              /\ UNCHANGED <<solong, stream, full>>
        /\ UNCHANGED failed
  /\ UNCHANGED <<chan_, ca_done, ch, made, freed, fd_, refno_, writer, rpdu_, pending_change_,
                 trfds, twfds, readable, writable, input, broken>>

\* rpcc::got_pdu: the caller the reply is for, if it still waits, is told.
got_pdu(t) == ca_done' = [ca_done EXCEPT ![t] = @ \/ pc[t] # "over"]

\* The chunks of replies that have come, the one read_cb has begun included.
Arrived(c) == (IF rpdu_[c] = None THEN <<>> ELSE <<rpdu_[c]>>) \o input[c]

Alive == UNCHANGED <<pc, dead_, callbacks_, rfds_, wfds_, pipe>>

\* connection::readpdu and what read_cb makes of its result: the size is read,
\* unless it is there already, then the rest.  When the peer is gone the
\* second read fails with an error, or returns 0 and leaves errno as it was.
readpdu(c) ==
  LET head == IF rpdu_[c] = None THEN 1 ELSE 0 IN
  \/ /\ rpdu_[c] = None /\ input[c] = <<>>
     /\ failed' = IF broken[c] THEN failed ELSE "readpdu"
     /\ errno' \in {errno, "other"}
     /\ DieInCallback(c)
     /\ UNCHANGED <<ca_done, rpdu_, input>>
  \/ /\ Len(input[c]) > head
     /\ got_pdu(Head(input[c]))
     /\ input' = [input EXCEPT ![c] = SubSeq(@, head + 2, Len(@))]
     /\ rpdu_' = [rpdu_ EXCEPT ![c] = None]
     /\ Alive /\ UNCHANGED <<errno, failed>>
  \/ /\ Len(input[c]) = head
     /\ input' = [input EXCEPT ![c] = <<>>]
     /\ \/ /\ ~ broken[c] \/ errno = "EAGAIN"
           /\ errno' = "EAGAIN"
           /\ rpdu_' = [rpdu_ EXCEPT ![c] = Head(Arrived(c))]
           /\ Alive
        \/ /\ broken[c]
           /\ errno' = "other"
           /\ rpdu_' = [rpdu_ EXCEPT ![c] = None]
           /\ DieInCallback(c)
     /\ UNCHANGED <<ca_done, failed>>

\* connection::read_cb
read_cb ==
  /\ ppc = "read_cb"
  /\ EndCallback
  /\ \/ dead_[cb] /\ Alive /\ UNCHANGED <<ca_done, rpdu_, input, errno, failed>>
     \/ ~ dead_[cb] /\ readpdu(cb)
  /\ UNCHANGED <<chan_, ch, made, freed, fd_, refno_, writer, solong, pending_change_, trfds,
                 twfds, readable, writable, stream, full, broken>>

-----------------------------------------------------------------------------
(* The network and the peer *)

\* The peer answers a request it has in full; the two chunks of the reply
\* arrive one after the other.
Answerable(c, t) ==
  /\ Cardinality({i \in DOMAIN stream[c] : stream[c][i] = t}) = 2
  /\ ~ ca_done[t] /\ pc[t] # "over"

PeerAnswers(c) ==
  /\ c \in Open /\ ~ broken[c]
  /\ \/ /\ Len(Arrived(c)) % 2 = 0
        /\ \E t \in Caller :
             /\ Answerable(c, t)
             /\ t \notin Range(Arrived(c))
             /\ input' = [input EXCEPT ![c] = Append(@, t)]
     \/ /\ Len(Arrived(c)) % 2 = 1
        /\ input' = [input EXCEPT ![c] = Append(@, Last(Arrived(c)))]
  /\ UNCHANGED <<chan_, ca_done, pc, ch, connVars, mgrVars, pollVars, stream, full, broken,
                 failed>>

\* The peer reads: there is room in the socket's buffer again.
PeerReads(c) ==
  /\ full[c]
  /\ full' = [full EXCEPT ![c] = FALSE]
  /\ UNCHANGED <<chan_, ca_done, pc, ch, connVars, mgrVars, pollVars, stream, input, broken,
                 failed>>

\* The connection is lost: the peer closes or resets it, or the lossy test of
\* send shuts it down.
ConnectionBreaks(c) ==
  /\ c \in Open /\ ~ broken[c]
  /\ Cardinality({d \in Conn : broken[d]}) < MaxBreaks
  /\ broken' = [broken EXCEPT ![c] = TRUE]
  /\ UNCHANGED <<chan_, ca_done, pc, ch, connVars, mgrVars, pollVars, stream, input, full,
                 failed>>

ThreadStep(t) ==
  \/ get_refconn(t) \/ send(t) \/ SendWoken(t) \/ block_remove_fd(t) \/ Removed(t)
  \/ Retransmit(t) \/ Return(t) \/ closeconn(t) \/ decref(t)

PollStep == LoopTop \/ Snapshot \/ Select \/ PickCallback \/ read_cb \/ write_cb

NetworkStep == \E c \in Conn : PeerAnswers(c) \/ PeerReads(c) \/ ConnectionBreaks(c)

\* A VERIFY that fails ends the process.
Next == failed = "none" /\ ((\E t \in Thread : ThreadStep(t)) \/ PollStep \/ NetworkStep)

Spec == Init /\ [][Next]_vars

-----------------------------------------------------------------------------
(* Properties *)

\* Types: the counts stay within a PDU, and the process ends only at an
\* assertion of the code.
TypeOK ==
  /\ chan_ \in 0 .. made /\ made \in 0 .. MaxConns /\ freed \subseteq 1 .. made
  /\ \A t \in Thread : ch[t] \in 0 .. made
  /\ \A c \in Conn : solong[c] \in 0 .. 2 /\ writer[c] \in Caller \cup {None}
  /\ failed \in {"none", "write_cb", "add_callback", "readpdu", "select"}

\* A connection is counted exactly by rpcc::chan_ and the threads that have
\* it, and nothing that may still be followed - chan_, a thread's pointer,
\* callbacks_, the callback PollMgr is about to run - leads to one that
\* decref has deleted, although callbacks_ counts nothing.
NoDanglingConnection ==
  /\ TypeOK
  /\ \A c \in Open :
       refno_[c] = Cardinality(UsersOf(c)) + (IF chan_ = c THEN 1 ELSE 0)
  /\ ({chan_, cb} \cup Range(ch) \cup Range(callbacks_)) \cap freed = {}

\* The chunks of the PDUs on a connection are never interleaved: send writes
\* one PDU at a time, in one piece, whatever write() takes at once.
OnePduAtATime ==
  \A c \in Conn : \A i \in DOMAIN stream[c] :
    i % 2 = 0 => stream[c][i] = stream[c][i - 1]

\* The assertions that guard the event loop hold: a descriptor is registered
\* for one connection at a time (add_callback), a read callback always finds
\* something to read (readpdu), and select is never given a closed descriptor.
LoopAssertionsHold == failed \in {"none", "write_cb"}

\* write_cb asserts that a connection whose socket is reported writable is
\* alive.
NoWriteOnDead == failed # "write_cb"

\* A thread that waits has somebody to wake it, send and block_remove_fd
\* having no timeout: one in send_wait_, a sender under way; one in
\* send_complete_, a connection that lives and is watched for room; one in
\* block_remove_fd, the loop of PollMgr, which is told and will not sleep.  And
\* a connection is watched until it is dead, so that read_cb notices its loss
\* even when nobody sends.
NoWakeupIsLost ==
  /\ \A t \in Thread : LET c == ch[t] IN
       /\ pc[t] = "send_wait" => writer[c] # None
       /\ pc[t] = "send_complete" =>
            /\ writer[c] = t /\ ~ dead_[c] /\ solong[c] < 2
            /\ fd_[c] \in wfds_ /\ callbacks_[fd_[c]] = c
       /\ pc[t] = "change_wait" => pending_change_ /\ (ppc = "select" => pipe > 0)
  /\ \A c \in Open : ~ dead_[c] => fd_[c] \in rfds_ /\ callbacks_[fd_[c]] = c

=============================================================================
