---------------------------- MODULE MCLockCache ----------------------------
EXTENDS LockCache, TLC

CONSTANTS c1, c2, c3, t1, t2, t3

\* One thread in each of three clients.
OnePerClient == (t1 :> c1) @@ (t2 :> c2) @@ (t3 :> c3)

\* Two threads in the first client.
TwoInFirst == (t1 :> c1) @@ (t2 :> c1) @@ (t3 :> c2)

\* unlinkFile acquires the lock of a file while it holds its directory's.
ParentChild == {<<1, 2>>}
=============================================================================
