------------------------------ MODULE Credential ------------------------------
(***************************************************************************)
(* What the access controller promises about credentials, whatever it does *)
(* to keep the promise: a key is issued once and for one client, a client  *)
(* is only ever handed a key of its own that works, and a key is taken out *)
(* of service only while no client holds it.                               *)
(***************************************************************************)

CONSTANTS
    Client,     \* who credentials are for
    Key,        \* the credentials there may ever be
    None        \* neither a client nor a key

VARIABLES
    holder,     \* the client a key was issued for, None before that
    live,       \* the keys that open the backend
    delivered   \* the key each client has been handed, None if it has none

vars == <<holder, live, delivered>>

Issue(k, c) ==
    /\ holder[k] = None
    /\ holder' = [holder EXCEPT ![k] = c] /\ live' = live \cup {k}
    /\ UNCHANGED delivered

Deliver(k, c) ==
    /\ k \in live /\ holder[k] = c
    /\ delivered' = [delivered EXCEPT ![c] = k]
    /\ UNCHANGED <<holder, live>>

\* The client leaves, or loses its copy.
Withdraw(c) ==
    /\ delivered' = [delivered EXCEPT ![c] = None]
    /\ UNCHANGED <<holder, live>>

Revoke(k) ==
    /\ \A c \in Client : delivered[c] # k
    /\ live' = live \ {k}
    /\ UNCHANGED <<holder, delivered>>

Init ==
    /\ holder = [k \in Key |-> None]
    /\ live = {}
    /\ delivered = [c \in Client |-> None]

Next ==
    \/ \E k \in Key, c \in Client : Issue(k, c) \/ Deliver(k, c)
    \/ \E c \in Client : Withdraw(c)
    \/ \E k \in Key : Revoke(k)

Spec == Init /\ [][Next]_vars
===============================================================================
