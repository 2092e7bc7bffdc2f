------------------------------ MODULE Sessions ------------------------------
(***************************************************************************)
(* What the session manager promises, without threads, locks or eviction   *)
(* order: sessions are opened for an owner within a capacity and a quota,  *)
(* one request at a time may use a session, and a session is closed only   *)
(* while no request is using it.  A session is never reopened and never    *)
(* changes its owner.                                                      *)
(***************************************************************************)
EXTENDS Integers, FiniteSets

CONSTANTS Owners, Capacity, Quota

VARIABLES
    open,    \* the sessions that exist
    busy,    \* those a request is using
    owner,   \* session -> its owner
    opened   \* number of sessions ever opened

absVars == <<open, busy, owner, opened>>

AbsInit ==
    /\ open = {}
    /\ busy = {}
    /\ owner = [s \in {} |-> s]
    /\ opened = 0

Open(k) ==
    /\ Cardinality(open) < Capacity
    /\ Cardinality({s \in open : owner[s] = k}) < Quota
    /\ opened' = opened + 1
    /\ open' = open \cup {opened'}
    /\ owner' = [s \in open' |-> IF s = opened' THEN k ELSE owner[s]]
    /\ UNCHANGED busy

Acquire(s) ==
    /\ s \notin busy
    /\ busy' = busy \cup {s}
    /\ UNCHANGED <<open, owner, opened>>

Release(s) ==
    /\ s \in busy
    /\ busy' = busy \ {s}
    /\ UNCHANGED <<open, owner, opened>>

Close(s) ==
    /\ s \notin busy
    /\ open' = open \ {s}
    /\ owner' = [r \in open' |-> owner[r]]
    /\ UNCHANGED <<busy, opened>>

AbsNext ==
    \/ \E k \in Owners : Open(k)
    \/ \E s \in open : Acquire(s) \/ Release(s) \/ Close(s)

AbsSpec == AbsInit /\ [][AbsNext]_absVars
=============================================================================
