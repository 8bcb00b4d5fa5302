-------------------------------- MODULE Rpc --------------------------------
(***************************************************************************)
(* Remote procedure calls (rpc/rpc.cc): one client object (rpcc) whose     *)
(* threads call a server (rpcs), over connections that break.  A call is   *)
(* known by its xid.  A request or a reply on its way is a member of reqs  *)
(* or reps; one that is never handled is lost, and a request is handled in *)
(* any order, as the threads of the dispatch pool do.  The server keeps    *)
(* one reply window per client; it is the window of this client.           *)
(***************************************************************************)
EXTENDS Naturals, Sequences, FiniteSets

CONSTANTS
  MaxXid,       \* bound: calls the client makes, the binds included
  MaxConns,     \* bound: connections it opens
  MaxTimeouts,  \* bound: calls that end at their final deadline
  MaxNonce      \* bound: instances of the server

ASSUME BoundAssumption ==
  MaxXid \in Nat /\ MaxConns \in Nat /\ MaxTimeouts \in Nat /\ MaxNonce \in Nat \ {0}

Xid  == 1 .. MaxXid
Conn == 1 .. MaxConns

VARIABLES
  bind_done_, srv_nonce_, xid_, xid_rep_window_,  \* rpcc
  chan_,                                          \* 0 if there is none
  calls, header, ch, intret, un,                  \* the callers, by xid
  dead, s_dead,                                   \* seen so by client and server
  reqs, reps,
  nonce_, reply_window_, conns_, jobs,            \* rpcs
  executed, replied, acked, timeouts              \* what has happened so far

clientVars == <<bind_done_, srv_nonce_, xid_, xid_rep_window_, chan_, calls, header, ch, intret, un>>
serverVars == <<nonce_, reply_window_, conns_, jobs>>
vars == <<clientVars, dead, s_dead, reqs, reps, serverVars, executed, replied, acked, timeouts>>

req_header == [proc : {"bind", "call"}, srv_nonce : 0 .. MaxNonce, xid_rep : 0 .. MaxXid]
NoHeader   == [proc |-> "none"]

reply_t == [xid : 0 .. MaxXid, cb_present : BOOLEAN]
Reply(x, present) == [xid |-> x, cb_present |-> present]

Outcome == {"ok", "atmostonce_failure", "oldsrv_failure"}

Init ==
  /\ bind_done_ = FALSE /\ srv_nonce_ = 0
  /\ xid_ = 1 /\ xid_rep_window_ = <<0>>
  /\ chan_ = 0
  /\ calls = [x \in Xid |-> "none"]
  /\ header = [x \in Xid |-> NoHeader]
  /\ ch = [x \in Xid |-> 0]
  /\ intret = [x \in Xid |-> "none"]
  /\ un = [x \in Xid |-> 0]
  /\ dead = {} /\ s_dead = {}
  /\ reqs = {} /\ reps = {}
  /\ nonce_ = 1 /\ reply_window_ = <<>> /\ conns_ = 0 /\ jobs = {}
  /\ executed = [x \in Xid |-> 0]
  /\ replied = {} /\ acked = 0 /\ timeouts = 0

-----------------------------------------------------------------------------
(* rpcc *)

\* The list after its front has caught up with the xids that follow it: front
\* is the index of the element that is the front once the loop has passed j.
Compressed_once(w) == IF Len(w) > 1 /\ w[1] + 1 = w[2] THEN Tail(w) ELSE w
Compressed(w) ==
  LET front[j \in 1 .. Len(w)] ==
        IF j = 1 THEN 1
        ELSE LET f == front[j - 1] IN
             IF w[f] + 1 # w[j] THEN f
             ELSE CHOOSE i \in (f + 1) .. j :
                    w[i] # w[f] /\ \A k \in (f + 1) .. (i - 1) : w[k] = w[f]
  IN SubSeq(w, front[Len(w)], Len(w))

\* An answered or abandoned xid is put in its place in the ordered list.
update_xid_rep(w, x) ==
  LET UpTo(y)   == y <= x
      Beyond(y) == y > x
  IN IF x <= Head(w) THEN w
     ELSE Compressed(SelectSeq(w, UpTo) \o <<x>> \o SelectSeq(w, Beyond))

Pending == {x \in Xid : calls[x] \in {"transmit", "wait"}}

\* A call gets its xid and its header, which acknowledges the replies so far.
\* A bind comes first and alone.
call1 ==
  /\ xid_ \in Xid
  /\ bind_done_ \/ Pending = {}
  /\ xid_' = xid_ + 1
  /\ calls' = [calls EXCEPT ![xid_] = "transmit"]
  /\ header' = [header EXCEPT ![xid_] =
       [proc |-> IF bind_done_ THEN "call" ELSE "bind",
        srv_nonce |-> srv_nonce_, xid_rep |-> Head(xid_rep_window_)]]
  /\ UNCHANGED <<bind_done_, srv_nonce_, xid_rep_window_, chan_, ch, intret, un, dead, s_dead,
                 reqs, reps, serverVars, executed, replied, acked, timeouts>>

\* What a send leaves on its way: nothing without a connection, or on one the
\* server has closed.
Sent(c, x) == {[conn |-> d, xid |-> x] : d \in {c} \ (s_dead \cup {0})}
Answered(c, x, ret) ==
  {[conn |-> d, xid |-> x, ret |-> ret, nonce |-> nonce_] : d \in {c} \ s_dead}

\* The current connection or, if it is dead, a new one; connect_to_dst may
\* fail to make it.
get_refconn(c) ==
  \/ chan_ \notin dead \cup {0} /\ c = chan_
  \/ chan_ \in dead \cup {0} /\ c \in {0} \cup ({Cardinality(dead) + 1} \cap Conn)

\* A call sends its request and waits for the reply.
transmit(x) ==
  /\ calls[x] = "transmit"
  /\ \E c \in 0 .. MaxConns :
       /\ get_refconn(c)
       /\ chan_' = c
       /\ ch' = IF c = 0 THEN ch ELSE [ch EXCEPT ![x] = c]
       /\ reqs' = reqs \cup Sent(c, x)
  /\ calls' = [calls EXCEPT ![x] = "wait"]
  /\ UNCHANGED <<bind_done_, srv_nonce_, xid_, xid_rep_window_, header, intret, un, dead,
                 s_dead, reps, serverVars, executed, replied, acked, timeouts>>

\* The wait times out and the connection is dead: the request goes out again.
Retransmit(x) == ch[x] \in dead \cup {0}

call1_again(x) ==
  /\ calls[x] = "wait" /\ intret[x] = "none"
  /\ Retransmit(x)
  /\ calls' = [calls EXCEPT ![x] = "transmit"]
  /\ UNCHANGED <<bind_done_, srv_nonce_, xid_, xid_rep_window_, chan_, header, ch, intret, un, dead,
                 s_dead, reqs, reps, serverVars, executed, replied, acked, timeouts>>

\* A bind that succeeded keeps the nonce of the server.
bind(x) ==
  \/ /\ header[x].proc = "bind" /\ intret[x] = "ok"
     /\ bind_done_' = TRUE /\ srv_nonce_' = un[x]
  \/ /\ header[x].proc = "call" \/ intret[x] # "ok"
     /\ UNCHANGED <<bind_done_, srv_nonce_>>

\* The call returns with its reply or at its deadline.
call1_return(x) ==
  /\ calls[x] = "wait"
  /\ \/ intret[x] # "none" /\ UNCHANGED timeouts
     \/ intret[x] = "none" /\ timeouts < MaxTimeouts /\ timeouts' = timeouts + 1
  /\ calls' = [calls EXCEPT ![x] = "returned"]
  /\ xid_rep_window_' = update_xid_rep(xid_rep_window_, x)
  /\ bind(x)
  /\ UNCHANGED <<xid_, chan_, header, ch, intret, un, dead, s_dead, reqs, reps, serverVars,
                 executed, replied, acked>>

\* A reply comes in, of a call that still waits or of one that does not.
rpcc_got_pdu(r) ==
  /\ r.conn \notin dead
  /\ reps' = reps \ {r}
  /\ xid_rep_window_' = update_xid_rep(xid_rep_window_, r.xid)
  /\ replied' = replied \cup {r.xid}
  /\ \/ /\ r.xid \in Pending /\ intret[r.xid] = "none"
        /\ intret' = [intret EXCEPT ![r.xid] = r.ret]
        /\ un' = [un EXCEPT ![r.xid] = r.nonce]
     \/ /\ r.xid \notin Pending \/ intret[r.xid] # "none"
        /\ UNCHANGED <<intret, un>>
  /\ UNCHANGED <<bind_done_, srv_nonce_, xid_, chan_, calls, header, ch, dead, s_dead, reqs,
                 serverVars, executed, acked, timeouts>>

-----------------------------------------------------------------------------
(* rpcs *)

\* The smallest xid of the window, as the loop computes it.
min_xid(w, x) == IF \E i \in DOMAIN w : w[i].xid < w[1].xid THEN x ELSE w[1].xid

Forgotten(w, x) == x < min_xid(w, x)

\* Mutant: one reply too many is dropped.
Cleaned_beyond(w, xid_rep) == LET Kept(e) == e.xid > xid_rep + 1 IN SelectSeq(w, Kept)

\* Replies that the client has acknowledged are dropped, except the last of
\* them, which the comment above checkduplicate_and_update would drop as well.
Cleaned(w, xid_rep) == LET Kept(e) == e.xid >= xid_rep IN SelectSeq(w, Kept)

\* What the window says of an xid.
Found(w, x) ==
  LET entries == {w[i] : i \in DOMAIN w} IN
    IF Reply(x, TRUE) \in entries THEN "DONE"
    ELSE IF Reply(x, FALSE) \in entries THEN "INPROGRESS" ELSE "NEW"

\* The first request of a client leaves only the base for min.
checkduplicate_and_update(w, x, xid_rep) ==
  IF w = <<>> THEN [stat |-> "NEW", window |-> <<Reply(0, FALSE)>>]
  ELSE IF Forgotten(w, x) THEN [stat |-> "FORGOTTEN", window |-> w]
  ELSE LET c == Cleaned(w, xid_rep) IN
       [stat |-> Found(c, x),
        window |-> IF Found(c, x) = "NEW" THEN Append(c, Reply(x, FALSE)) ELSE c]

\* The request is for an instance of the server that is gone.
OldServer_ignored(h) == FALSE
OldServer(h) == h.srv_nonce \notin {0, nonce_}

Job(r, state) == [conn |-> r.conn, xid |-> r.xid, state |-> state]

\* A request is refused or looked up in the window; a new one starts its
\* handler.
dispatch(r) ==
  LET h == header[r.xid]
      c == checkduplicate_and_update(reply_window_, r.xid, h.xid_rep)
  IN
  /\ reqs' = reqs \ {r}
  /\ \/ /\ OldServer(h)
        /\ reps' = reps \cup Answered(r.conn, r.xid, "oldsrv_failure")
        /\ UNCHANGED <<reply_window_, conns_, jobs, executed, acked>>
     \/ /\ ~ OldServer(h)
        /\ conns_' = IF r.conn > conns_ THEN r.conn ELSE conns_
        /\ reply_window_' = c.window
        /\ acked' = IF c.stat # "FORGOTTEN" /\ h.xid_rep > acked THEN h.xid_rep ELSE acked
        /\ \/ /\ c.stat = "NEW"
              /\ jobs' = jobs \cup {Job(r, "run")}
              /\ executed' = [executed EXCEPT ![r.xid] = @ + 1]
              /\ UNCHANGED reps
           \/ /\ c.stat = "INPROGRESS"
              /\ UNCHANGED <<jobs, executed, reps>>
           \/ /\ c.stat = "DONE"
              /\ jobs' = jobs \cup {Job(r, "resend")}
              /\ UNCHANGED <<executed, reps>>
           \/ /\ c.stat = "FORGOTTEN"
              /\ reps' = reps \cup Answered(r.conn, r.xid, "atmostonce_failure")
              /\ UNCHANGED <<jobs, executed>>
  /\ UNCHANGED <<clientVars, dead, s_dead, nonce_, replied, timeouts>>

\* The handler is done and its reply goes into the window.
add_reply(j) ==
  /\ j.state = "run"
  /\ reply_window_' = Append(reply_window_, Reply(j.xid, TRUE))
  /\ jobs' = (jobs \ {j}) \cup {Job(j, "send")}
  /\ UNCHANGED <<clientVars, dead, s_dead, reqs, reps, nonce_, conns_, executed, replied, acked,
                 timeouts>>

\* A reply is sent on the connection of its request or, if a first reply finds
\* that one dead, on the latest one.
send(j) ==
  /\ j.state \in {"send", "resend"}
  /\ LET c == IF j.state = "send" /\ j.conn \in s_dead THEN conns_ ELSE j.conn
     IN reps' = reps \cup Answered(c, j.xid, "ok")
  /\ jobs' = jobs \ {j}
  /\ UNCHANGED <<clientVars, dead, s_dead, reqs, nonce_, reply_window_, conns_, executed, replied,
                 acked, timeouts>>

-----------------------------------------------------------------------------
(* Connections break, as one side sees first; the server restarts. *)

Opened == dead \cup ({chan_} \ {0})

Break(c) ==
  /\ \/ c \notin dead /\ dead' = dead \cup {c} /\ UNCHANGED s_dead
     \/ c \notin s_dead /\ s_dead' = s_dead \cup {c} /\ UNCHANGED dead
  /\ UNCHANGED <<clientVars, reqs, reps, serverVars, executed, replied, acked, timeouts>>

Restart ==
  /\ nonce_ < MaxNonce
  /\ nonce_' = nonce_ + 1
  /\ reply_window_' = <<>> /\ conns_' = 0 /\ jobs' = {}
  /\ dead' = Opened /\ s_dead' = Opened
  /\ reqs' = {} /\ reps' = {}
  /\ UNCHANGED <<clientVars, executed, replied, acked, timeouts>>

Next ==
  \/ call1
  \/ \E x \in Xid : transmit(x) \/ call1_again(x) \/ call1_return(x)
  \/ \E r \in reps : rpcc_got_pdu(r)
  \/ \E r \in reqs : dispatch(r)
  \/ \E j \in jobs : add_reply(j) \/ send(j)
  \/ \E c \in Opened : Break(c)
  \/ Restart

Spec == Init /\ [][Next]_vars

-----------------------------------------------------------------------------
(* Properties *)

TypeOK ==
  /\ bind_done_ \in BOOLEAN /\ srv_nonce_ \in 0 .. MaxNonce
  /\ xid_ \in 1 .. (MaxXid + 1)
  /\ xid_rep_window_ \in Seq(0 .. MaxXid) /\ xid_rep_window_ # <<>>
  /\ chan_ \in 0 .. MaxConns
  /\ calls \in [Xid -> {"none", "transmit", "wait", "returned"}]
  /\ header \in [Xid -> req_header \cup {NoHeader}]
  /\ ch \in [Xid -> 0 .. MaxConns]
  /\ intret \in [Xid -> Outcome \cup {"none"}]
  /\ un \in [Xid -> 0 .. MaxNonce]
  /\ dead \subseteq Conn /\ s_dead \subseteq Conn
  /\ reqs \subseteq [conn : Conn, xid : Xid]
  /\ reps \subseteq [conn : Conn, xid : Xid, ret : Outcome, nonce : 1 .. MaxNonce]
  /\ nonce_ \in 1 .. MaxNonce
  /\ reply_window_ \in Seq(reply_t)
  /\ conns_ \in 0 .. MaxConns
  /\ jobs \subseteq [conn : Conn, xid : Xid, state : {"run", "send", "resend"}]
  /\ executed \in [Xid -> Nat]
  /\ replied \subseteq Xid
  /\ acked \in 0 .. MaxXid
  /\ timeouts \in 0 .. MaxTimeouts

\* The client is through with a call: it has had a reply or has given up.
Finished(x) == x \in replied \/ calls[x] = "returned"

\* The front of the client's list, which its requests carry as xid_rep, is
\* the last xid up to which every call is finished, in whatever order they
\* finish and however often update_xid_rep is called for one; and the list is
\* never empty, nor any variable outside its type.
FrontIsExact ==
  LET front == Head(xid_rep_window_) IN
  /\ TypeOK
  /\ \A x \in 1 .. front : Finished(x)
  /\ front + 1 \in Xid => ~ Finished(front + 1)

\* Until the client acknowledges it, and while it is the last one that was
\* acknowledged, a call runs at most once, whatever is retransmitted or
\* overtaken.
OnceUntilAcknowledged ==
  \A x \in Xid : header[x].proc = "call" /\ executed[x] > 1 => x < acked

\* The reply of a call that ran is there for a retransmission of it, until
\* the client acknowledges it.
AnswerIsKept ==
  \A x \in Xid :
    /\ header[x].proc = "call" /\ header[x].srv_nonce = nonce_
    /\ executed[x] > 0 /\ x > acked /\ \A j \in jobs : j.xid = x => j.state # "run"
    => \E i \in DOMAIN reply_window_ : reply_window_[i] = Reply(x, TRUE)

\* As long as no call has been given up, only a call that the client is
\* through with is answered by atmostonce_failure: the server has forgotten
\* no other, in whatever order requests overtake each other.
ForgottenIsFinished ==
  timeouts = 0 => \A r \in reps : r.ret = "atmostonce_failure" => Finished(r.xid)

\* A request whose reply the server has deleted is FORGOTTEN and never runs
\* again.
DeletedNeverRuns ==
  [][\A x \in Xid : x < acked => executed'[x] = executed[x]]_vars
=============================================================================
