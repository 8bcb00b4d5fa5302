-------------------------------- MODULE Yfs --------------------------------
(***************************************************************************)
(* The file system over the lock service and the extent server: the FUSE   *)
(* handlers of fuse.cc, the operations of yfs_client they call, the        *)
(* write-back cache of extent_client and the extent server.                *)
(*                                                                         *)
(* A client runs one handler at a time (fuse_session_loop).  An operation  *)
(* of yfs_client acquires the lock of its extent, works on the cache and   *)
(* releases the lock; what happens between is one step, since an extent    *)
(* that is touched there is locked or was never heard of before.  Of the   *)
(* lock service this module keeps what LockCache shows: a lock has one     *)
(* holder, a client keeps a lock it has released, and gives it up for      *)
(* another client only after dorelease has flushed the extent.             *)
(*                                                                         *)
(* A directory is the sequence of its entries, a file the sequence of its  *)
(* bytes.  An entry is text, inum@name: a name is what comes before its    *)
(* first @, not empty, and whether more follows, which parsing cuts off.   *)
(* The kernel passes no name with a /.  An extent's size is the length of  *)
(* its buffer; its times are left out.  random() yields an inum that no    *)
(* one has drawn before; which one makes no difference.                    *)
(***************************************************************************)
EXTENDS Naturals, Sequences, FiniteSets

CONSTANTS Client, Root, Files, Dirs,
          Bases,       \* what a name is up to the first INUMSEPERATOR
          Bytes,       \* what write writes, one byte at a time
          MaxOff,      \* offsets and sizes the kernel passes
          MaxCalls,    \* handlers that are called
          None, Absent

Eid == {Root} \cup Files \cup Dirs
Names == [base : Bases, more : BOOLEAN]

ASSUME YfsAssumption ==
  /\ IsFiniteSet(Client) /\ None \notin Client \cup Eid
  /\ Root \notin Files \cup Dirs /\ Files \cap Dirs = {}
  /\ MaxOff \in Nat /\ MaxCalls \in Nat /\ 0 \notin Bytes

VARIABLES
  server,    \* _extent_map of the extent server
  cache,     \* extent_list of each client
  owner,     \* the client whose thread holds a lock
  keeper,    \* the client at which a lock is cached
  op,        \* the operation a client is in
  known,     \* inums a kernel has been told
  answer,    \* the replies of the handler a client is in or was last in
  calls,     \* handlers called
  drawn,     \* inums random() has returned
  latest,    \* what was last put into an extent, by any client
  unlocked,  \* the client that put an extent whose lock it did not hold
  raced,     \* extents locked by another client while they were unlocked
  cut        \* inums created under a name that parsing cuts

extents == <<server, cache>>
locks == <<owner, keeper>>
history == <<latest, unlocked, raced, cut>>
vars == <<server, cache, owner, keeper, op, known, answer, calls, drawn, history>>

idle == [fn |-> "idle"]
isfile(i) == i \in Files
isdir(i) == ~isfile(i)

Init ==
  /\ server = [i \in Eid |-> IF i = Root THEN <<>> ELSE Absent]
  /\ cache = [c \in Client |-> [i \in Eid |-> Absent]]
  /\ owner = [i \in Eid |-> None] /\ keeper = owner
  /\ op = [c \in Client |-> idle]
  /\ known = [c \in Client |-> {Root}]
  /\ answer = [c \in Client |-> <<>>]
  /\ calls = 0 /\ drawn = {}
  /\ latest = server /\ unlocked = owner /\ raced = {} /\ cut = {}
-----------------------------------------------------------------------------
\* The extent server.  The buffer of an extent it does not have is empty.
server_get(i) == IF server[i] = Absent THEN <<>> ELSE server[i]
server_getattr(i) == server[i] # Absent
server_put(i, b) == [server EXCEPT ![i] = b]
server_remove(i) == [server EXCEPT ![i] = Absent]

\* The extent client.  A failed get is cached too, as an empty extent.
Held(c, i) == cache[c][i] # Absent
Found(c, i) == Held(c, i) \/ server_getattr(i)
Loaded(c, i) == IF Held(c, i) THEN cache[c][i] ELSE [buf |-> server_get(i), is_dirty |-> FALSE]
Dirty(b) == [buf |-> b, is_dirty |-> TRUE]

get(c, i) == cache' = [cache EXCEPT ![c][i] = Loaded(c, i)] /\ UNCHANGED server

put(c, i, b) ==
  /\ cache' = [cache EXCEPT ![c][i] = Dirty(b)] /\ UNCHANGED server
  /\ latest' = [latest EXCEPT ![i] = b] /\ UNCHANGED <<unlocked, raced, cut>>

\* Mutant: the changes are dropped.
Flushed_dropped(c, i) == server

\* Dirty extents go back to the server; the extent leaves the cache.
Flushed(c, i) ==
  IF Held(c, i) /\ cache[c][i].is_dirty THEN server_put(i, cache[c][i].buf) ELSE server

\* Mutant: the extent stays in the cache.
flush_kept(c, i) == server' = Flushed(c, i) /\ UNCHANGED cache

flush(c, i) ==
  /\ server' = Flushed(c, i)
  /\ cache' = [cache EXCEPT ![c][i] = Absent]
-----------------------------------------------------------------------------
\* The lock client.  A lock that another client waits for is flushed once it
\* is free and no thread of its own wants it, and goes to one that waits.
Wants(c, i) == op[c].fn # "idle" /\ op[c].eid = i /\ ~op[c].held

acquire(c, i) ==
  /\ Wants(c, i)
  /\ owner[i] = None /\ keeper[i] \in {None, c}
  /\ owner' = [owner EXCEPT ![i] = c] /\ keeper' = [keeper EXCEPT ![i] = c]
  /\ op' = [op EXCEPT ![c].held = TRUE]
  /\ raced' = IF unlocked[i] \in {None, c} THEN raced ELSE raced \cup {i}
  /\ unlocked' = [unlocked EXCEPT ![i] = IF @ = c THEN None ELSE @]
  /\ UNCHANGED <<extents, known, answer, calls, drawn, latest, cut>>

dorelease(i) ==
  LET k == keeper[i] IN
  /\ k # None /\ owner[i] = None /\ ~Wants(k, i)
  /\ flush(k, i)
  /\ \E c \in Client \ {k} : Wants(c, i) /\ keeper' = [keeper EXCEPT ![i] = c]
  /\ UNCHANGED <<owner, op, known, answer, calls, drawn, history>>

release(is) == owner' = [i \in Eid |-> IF i \in is THEN None ELSE owner[i]] /\ UNCHANGED keeper
-----------------------------------------------------------------------------
\* How an operation ends: the handler replies, or goes on to another operation.
Running(c, f) == op[c].fn = f /\ op[c].held
ReplyWith(c, r, b) ==
  op' = [op EXCEPT ![c] = idle] /\ answer' = [answer EXCEPT ![c] = Append(@, <<r, b>>)]
Reply(c, r) == ReplyWith(c, r, <<>>)
Then(c, f, i) ==
  /\ op' = [op EXCEPT ![c].fn = f, ![c].eid = i, ![c].held = FALSE]
  /\ UNCHANGED answer

\* The text of a directory: parsebuf splits it into entries, and parseDirent an
\* entry at each @, taking the second part for the name.  A create appends to
\* the text as it is; unlinkFile writes back what it has parsed.
createBuffElement(i, n) == [inum |-> i, name |-> n]
parseDirent(e) == [e EXCEPT !.name.more = FALSE]
parsebuf(b) == [k \in DOMAIN b |-> parseDirent(b[k])]
Entries(c, d) == parsebuf(Loaded(c, d).buf)
Named(es, n) == {k \in DOMAIN es : es[k].name = n}
FilesNamed(es, n) == {k \in Named(es, n) : isfile(es[k].inum)}
DirsNamed(es, n) == {k \in Named(es, n) : isdir(es[k].inum)}
First(ks) == CHOOSE k \in ks : \A j \in ks : k <= j
Without(es, k) == SubSeq(es, 1, k - 1) \o SubSeq(es, k + 1, Len(es))

\* createFile and createDirectory: an entry for a fresh inum, then getattr of
\* it.  The new extent is put while only the lock of the parent is held.
\* The helper of fuse.cc turns every failure of createFile into NOENT.
Undrawn(is) == is \ drawn
random(is) == CHOOSE i \in Undrawn(is) : TRUE
Insert(c, i) ==
  LET d == op[c].eid
      es == Append(Loaded(c, d).buf, createBuffElement(i, op[c].name)) IN
  /\ cache' = [cache EXCEPT ![c][i] = Dirty(<<>>), ![c][d] = Dirty(es)]
  /\ latest' = [latest EXCEPT ![i] = <<>>, ![d] = es]
  /\ unlocked' = [unlocked EXCEPT ![i] = c]
  /\ drawn' = drawn \cup {i}
  /\ cut' = IF op[c].name.more THEN cut \cup {i} ELSE cut
  /\ release({d}) /\ Then(c, "getattr", i)
  /\ UNCHANGED <<server, known, raced, calls>>

Fails(c, is, err) ==
  /\ get(c, op[c].eid) /\ release(is) /\ Reply(c, err)
  /\ UNCHANGED <<known, calls, drawn, history>>

\* Mutant: no look for the name.
createFile_blind(c) ==
  LET d == op[c].eid IN
  /\ Running(c, "createFile")
  /\ \/ ~Found(c, d) /\ Fails(c, {}, "ENOENT")
     \/ Found(c, d) /\ Insert(c, random(Files))

\* The early return for a missing parent does not release its lock.
createFile(c) ==
  LET d == op[c].eid
      twins == FilesNamed(Entries(c, d), op[c].name) IN
  /\ Running(c, "createFile")
  /\ \/ ~Found(c, d) /\ Fails(c, {}, "ENOENT")
     \/ Found(c, d) /\ twins # {} /\ Fails(c, {d}, "ENOENT")
     \/ Found(c, d) /\ twins = {} /\ Insert(c, random(Files))

createDirectory(c) ==
  LET d == op[c].eid
      twins == DirsNamed(Entries(c, d), op[c].name) IN
  /\ Running(c, "createDirectory")
  /\ \/ (~Found(c, d) \/ twins # {}) /\ Fails(c, {d}, "EEXIST")
     \/ Found(c, d) /\ twins = {} /\ Insert(c, random(Dirs))

\* Mutant: the lock is kept if there is no such file.
unlinkFile_kept(c) ==
  LET d == op[c].eid
      ks == FilesNamed(Entries(c, d), op[c].name) IN
  /\ Running(c, "unlinkFile")
  /\ \/ (~Found(c, d) \/ ks = {}) /\ Fails(c, {}, "ENOENT")
     \/ /\ Found(c, d) /\ ks # {}
        /\ get(c, d)
        /\ op' = [op EXCEPT ![c].fn = "unlinkFile2", ![c].held = FALSE, ![c].parent = d,
                            ![c].eid = Entries(c, d)[First(ks)].inum]
        /\ UNCHANGED <<locks, known, answer, calls, drawn, history>>

\* unlinkFile finds the entry, then takes the lock of the file as well.
unlinkFile(c) ==
  LET d == op[c].eid
      ks == FilesNamed(Entries(c, d), op[c].name) IN
  /\ Running(c, "unlinkFile")
  /\ \/ (~Found(c, d) \/ ks = {}) /\ Fails(c, {d}, "ENOENT")
     \/ /\ Found(c, d) /\ ks # {}
        /\ get(c, d)
        /\ op' = [op EXCEPT ![c].fn = "unlinkFile2", ![c].held = FALSE, ![c].parent = d,
                            ![c].eid = Entries(c, d)[First(ks)].inum]
        /\ UNCHANGED <<locks, known, answer, calls, drawn, history>>

\* The parent without the entry is put; remove reaches the server only if
\* the extent is in the cache.
remove(c, i) == IF Held(c, i) THEN server_remove(i) ELSE server
unlinkFile2(c) ==
  LET d == op[c].parent
      i == op[c].eid
      es == Entries(c, d)
      es2 == Without(es, First(FilesNamed(es, op[c].name))) IN
  /\ Running(c, "unlinkFile2")
  /\ server' = remove(c, i)
  /\ cache' = [cache EXCEPT ![c][d] = Dirty(es2), ![c][i] = Absent]
  /\ latest' = [latest EXCEPT ![d] = es2, ![i] = Absent]
  /\ release({i, d}) /\ Reply(c, "OK")
  /\ UNCHANGED <<known, calls, drawn, unlocked, raced, cut>>

\* The first entry of the name, file or directory; then getattr of it.
lookupResource(c) ==
  LET d == op[c].eid
      ks == Named(Entries(c, d), op[c].name) IN
  /\ Running(c, "lookupResource")
  /\ \/ (~Found(c, d) \/ ks = {}) /\ Fails(c, {d}, "ENOENT")
     \/ /\ Found(c, d) /\ ks # {}
        /\ get(c, d) /\ release({d}) /\ Then(c, "getattr", Entries(c, d)[First(ks)].inum)
        /\ UNCHANGED <<known, calls, drawn, history>>

\* getfile and getdir, alone or at the end of a handler.  Only getattr and
\* setattr look at the status.
getattr(c) ==
  LET i == op[c].eid IN
  /\ Running(c, "getattr")
  /\ get(c, i) /\ release({i})
  /\ Reply(c, IF ~Found(c, i) /\ op[c].h \in {"getattr", "setattr"} THEN "ENOENT" ELSE "OK")
  /\ known' = [known EXCEPT ![c] = @ \cup {i}]
  /\ UNCHANGED <<calls, drawn, history>>

getDirContents(c) ==
  /\ Running(c, "getDirContents")
  /\ get(c, op[c].eid) /\ release({op[c].eid}) /\ ReplyWith(c, "entries", Entries(c, op[c].eid))
  /\ UNCHANGED <<known, calls, drawn, history>>

\* Files.  Growing a file fills it with 0.
Resized(b, n) == [k \in 1..n |-> IF k <= Len(b) THEN b[k] ELSE 0]
Grown(b, n) == IF n > Len(b) THEN Resized(b, n) ELSE b

setAttr(c) ==
  LET i == op[c].eid
      b == Loaded(c, i).buf
      n == op[c].off IN
  /\ Running(c, "setAttr")
  /\ \/ ~Found(c, i) /\ Fails(c, {i}, "ENOENT")
     \/ /\ Found(c, i) /\ release({i}) /\ Then(c, "getattr", i)
        /\ \/ n # Len(b) /\ put(c, i, Resized(b, n))
           \/ n = Len(b) /\ get(c, i) /\ UNCHANGED history
        /\ UNCHANGED <<known, calls, drawn>>

writeFile(c) ==
  LET i == op[c].eid
      o == op[c].off IN
  /\ Running(c, "writeFile")
  /\ \/ ~Found(c, i) /\ Fails(c, {i}, "ENOSYS")
     \/ /\ Found(c, i)
        /\ put(c, i, [Grown(Loaded(c, i).buf, o + 1) EXCEPT ![o + 1] = op[c].byte])
        /\ release({i}) /\ Reply(c, "OK")
        /\ UNCHANGED <<known, calls, drawn>>

ReadSize == MaxOff + 1

\* Mutant: a read starts one byte too early.
readFile_early(c) ==
  LET i == op[c].eid
      b == Loaded(c, i).buf
      o == op[c].off IN
  /\ Running(c, "readFile")
  /\ \/ (~Found(c, i) \/ o > Len(b)) /\ Fails(c, {i}, "ENOSYS")
     \/ /\ Found(c, i) /\ o <= Len(b)
        /\ get(c, i) /\ release({i})
        /\ ReplyWith(c, "OK", SubSeq(b, IF o > 0 THEN o ELSE 1, Len(b)))
        /\ UNCHANGED <<known, calls, drawn, history>>

readFile(c) ==
  LET i == op[c].eid
      b == Loaded(c, i).buf
      o == op[c].off IN
  /\ Running(c, "readFile")
  /\ \/ (~Found(c, i) \/ o > Len(b)) /\ Fails(c, {i}, "ENOSYS")
     \/ /\ Found(c, i) /\ o <= Len(b)
        /\ get(c, i) /\ release({i})
        /\ ReplyWith(c, "OK", SubSeq(b, o + 1, IF o + ReadSize < Len(b) THEN o + ReadSize ELSE Len(b)))
        /\ UNCHANGED <<known, calls, drawn, history>>
-----------------------------------------------------------------------------
\* The kernel calls a handler on an inum it has been told.
call(c, h, f, i, n, o, b) ==
  /\ op[c] = idle /\ calls < MaxCalls /\ i \in known[c]
  /\ calls' = calls + 1
  /\ op' = [op EXCEPT ![c] = [h |-> h, fn |-> f, eid |-> i, held |-> FALSE, parent |-> None,
                              name |-> n, off |-> o, byte |-> b]]
  /\ answer' = [answer EXCEPT ![c] = <<>>]
  /\ UNCHANGED <<extents, locks, known, drawn, history>>

\* The sets of inums bound the creations.
InumsLeft(is, f) == Cardinality({k \in Client : op[k].fn = f}) < Cardinality(Undrawn(is))
fuseserver_create(c) ==
  InumsLeft(Files, "createFile") /\ \E d \in Dirs \cup {Root}, n \in Names : call(c, "create", "createFile", d, n, 0, 0)
fuseserver_mkdir(c) ==
  InumsLeft(Dirs, "createDirectory") /\ \E d \in Dirs \cup {Root}, n \in Names : call(c, "mkdir", "createDirectory", d, n, 0, 0)
fuseserver_unlink(c) == \E d \in Dirs \cup {Root}, n \in Names : call(c, "unlink", "unlinkFile", d, n, 0, 0)
fuseserver_lookup(c) == \E d \in Dirs \cup {Root}, n \in Names : call(c, "lookup", "lookupResource", d, n, 0, 0)
fuseserver_readdir(c) == \E d \in Dirs \cup {Root} : call(c, "readdir", "getDirContents", d, None, 0, 0)
fuseserver_getattr(c) == \E i \in Eid : call(c, "getattr", "getattr", i, None, 0, 0)
fuseserver_read(c) == \E i \in Files, o \in 0..MaxOff : call(c, "read", "readFile", i, None, o, 0)
fuseserver_write(c) ==
  \E i \in Files, o \in 0..MaxOff, b \in Bytes : call(c, "write", "writeFile", i, None, o, b)

\* The kernel sets the size of files only; other attributes are refused, and
\* those of a directory are refused twice.
ENOSYS == <<"ENOSYS", <<>> >>
Refusals(i) == IF isfile(i) THEN <<ENOSYS>> ELSE <<ENOSYS, ENOSYS>>
fuseserver_setattr(c) ==
  \/ \E i \in Files, o \in 0..MaxOff : call(c, "setattr", "setAttr", i, None, o, 0)
  \/ \E i \in known[c] :
       /\ op[c] = idle /\ calls < MaxCalls
       /\ calls' = calls + 1
       /\ answer' = [answer EXCEPT ![c] = Refusals(i)]
       /\ UNCHANGED <<extents, locks, op, known, drawn, history>>

Handler(c) ==
  \/ fuseserver_create(c) \/ fuseserver_mkdir(c) \/ fuseserver_unlink(c) \/ fuseserver_lookup(c)
  \/ fuseserver_readdir(c) \/ fuseserver_getattr(c) \/ fuseserver_read(c) \/ fuseserver_write(c)
  \/ fuseserver_setattr(c)

Operation(c) ==
  \/ createFile(c) \/ createDirectory(c) \/ unlinkFile(c) \/ unlinkFile2(c) \/ lookupResource(c)
  \/ getattr(c) \/ getDirContents(c) \/ setAttr(c) \/ writeFile(c) \/ readFile(c)

Next ==
  \/ \E c \in Client : Handler(c) \/ Operation(c) \/ \E i \in Eid : acquire(c, i)
  \/ \E i \in Eid : dorelease(i)

Spec == Init /\ [][Next]_vars

\* An operation that holds its lock goes on; a lock that can be had is
\* granted, and one that is asked for is given back.
FairSpec ==
  /\ Spec
  /\ \A c \in Client : WF_vars(Operation(c)) /\ SF_vars(\E i \in Eid : acquire(c, i))
  /\ \A i \in Eid : WF_vars(dorelease(i))
-----------------------------------------------------------------------------
Entry == [inum : Files \cup Dirs, name : Names]
Buffers(i) == IF isfile(i) THEN Seq(Bytes \cup {0}) ELSE Seq(Entry)
TypeOK ==
  /\ \A i \in Eid : server[i] = Absent \/ server[i] \in Buffers(i)
  /\ \A c \in Client, i \in Eid :
       Held(c, i) => cache[c][i].buf \in Buffers(i) /\ cache[c][i].is_dirty \in BOOLEAN
  /\ owner \in [Eid -> Client \cup {None}] /\ keeper \in [Eid -> Client \cup {None}]
  /\ \A i \in Eid : owner[i] # None => keeper[i] = owner[i]
  /\ known \in [Client -> SUBSET Eid] /\ drawn \subseteq Files \cup Dirs /\ cut \subseteq drawn
  /\ calls \in 0..MaxCalls

\* What a client that holds the lock of an extent gets is what was last put
\* into it, by whichever client: the cache is flushed before the lock moves
\* on (lock_releaser::dorelease) and the next client reads the server.
ReadsLastPut(i) ==
  \A c \in Client : owner[i] = c /\ latest[i] # Absent => Found(c, i) /\ Loaded(c, i).buf = latest[i]

\* That holds of every extent that no other client locked before its creator
\* did: createFile puts the new extent without its lock, and a client that
\* gets the lock first finds no extent and goes on with an empty one.  Nor does
\* anyone else cache such an extent while a client has a changed copy of it:
\* the two would overwrite each other at the server.
CoherentUnlessRaced ==
  /\ TypeOK
  /\ \A i \in Eid \ raced :
       /\ ReadsLastPut(i)
       /\ \A c, k \in Client :
            c # k /\ Held(c, i) /\ cache[c][i].is_dirty => ~ Held(k, i)

\* What the file system holds in an extent, wherever the newest copy is.
Contents(i) ==
  LET dirty == {c \in Client : Held(c, i) /\ cache[c][i].is_dirty} IN
  IF dirty = {} THEN server[i] ELSE cache[CHOOSE c \in dirty : TRUE][i].buf

\* The root directory changes only by the entry that a create or mkdir appends
\* or an unlink takes out, whatever other clients do: caching, flushing and
\* handing over locks never bring back an old directory or lose an entry.  The
\* text of the others stays, except that an unlink cuts their names.
OneEntryAtATime ==
  [][LET old == Contents(Root)
         new == Contents(Root)' IN
     \/ new = old
     \/ \E c \in Client :
          /\ op[c].fn \in {"createFile", "createDirectory"} /\ op[c].eid = Root
          /\ new = Append(old, createBuffElement(op'[c].eid, op[c].name))
     \/ \E c \in Client, k \in DOMAIN old :
          /\ op[c].fn = "unlinkFile2" /\ op[c].parent = Root /\ op'[c] = idle
          /\ old[k].inum = op[c].eid /\ new = Without(parsebuf(old), k)]_vars

\* Of two files that a directory lists under one name, the later was created
\* under a name that parsing cuts: for any other, createFile has looked at the
\* newest text of the directory, although another client may have created the
\* same name just before and holds it in its cache.  Directories that were
\* raced for are left out.
FileNamesDiffer ==
  \A d \in ({Root} \cup Dirs) \ raced :
    Contents(d) # Absent =>
      LET es == parsebuf(Contents(d)) IN
      \A k \in DOMAIN es : \A j \in FilesNamed(es, es[k].name) :
        j < k /\ isfile(es[k].inum) => es[k].inum \in cut

\* "ok there are no files with the same name in this directory", says
\* createFile when it has looked.  It does not find a name that was cut, so
\* the same create may succeed twice.
NoFilesOfTheSameName ==
  [][\A c \in Client :
       op[c].fn = "createFile" /\ op'[c].fn = "getattr" =>
         FilesNamed(Loaded(c, op[c].eid).buf, op[c].name) = {}]_vars

\* A read or readdir that succeeds answers what was last put into the file or
\* directory by any client, the bytes from the offset asked for up to the
\* end (readFile) or the entries as they parse (fuseserver_readdir), unless the
\* extent was raced for or removed.
ReadsTellLastPut ==
  [][\A c \in Client :
       LET i == op[c].eid
           sofar == latest[i] IN
       /\ op[c].fn \in {"readFile", "getDirContents"} /\ op'[c] = idle
       /\ i \notin raced /\ sofar # Absent
       => \/ answer'[c] = << IF isfile(i) THEN <<"OK", SubSeq(sofar, op[c].off + 1, Len(sofar))>>
                             ELSE <<"entries", parsebuf(sofar)>> >>
          \/ answer'[c] = << ENOSYS >> /\ op[c].off > Len(sofar)]_vars

\* A handler "supplies either a success or failure response": every handler
\* that was called answers.
HandlersAnswer == \A c \in Client : op[c].fn # "idle" ~> op[c].fn = "idle"
=============================================================================
