--------------------------- MODULE EndpointLease ---------------------------
(***************************************************************************)
(* What the connection registry promises the tool calls, with every reason *)
(* to reconnect left out.  An endpoint has at most one holder.  A call     *)
(* takes its lease from the holder of one endpoint, which may be replaced  *)
(* in the same step, and a replacement is always a handle that no endpoint *)
(* has and no call still leases: a call with an outdated lease can be      *)
(* disappointed, but it is never on the same handle as a later call by     *)
(* accident.                                                               *)
(***************************************************************************)
CONSTANTS Label, Handle, Op, None

VARIABLES
    holder,     \* holder[l]: the handle of endpoint l, or None
    lease       \* lease[o]: the handle call o works with, or None

Init ==
    /\ holder = [l \in Label |-> None]
    /\ lease = [o \in Op |-> None]

Fresh ==
    {x \in Handle : /\ \A l \in Label : holder[l] # x
                    /\ \A o \in Op : lease[o] # x}

\* The endpoint gets a fresh holder, or loses the one it had.
Replace(l, x) ==
    /\ x \in Fresh \cup {None}
    /\ holder' = [holder EXCEPT ![l] = x]
    /\ UNCHANGED lease

\* A call leases the holder of l, fresh or not.
Take(o, l, x) ==
    /\ x \in Fresh \/ x = holder[l]
    /\ x # None
    /\ holder' = [holder EXCEPT ![l] = x]
    /\ lease' = [lease EXCEPT ![o] = x]

\* A call gives its lease up; the endpoint may lose its holder with it.
GiveUp(o) ==
    /\ lease' = [lease EXCEPT ![o] = None]
    /\ \/ UNCHANGED holder
       \/ \E l \in Label : holder' = [holder EXCEPT ![l] = None]

\* The process ends.
Shutdown ==
    /\ holder' = [l \in Label |-> None]
    /\ UNCHANGED lease

Next ==
    \/ \E l \in Label, x \in Handle \cup {None} : Replace(l, x)
    \/ \E o \in Op, l \in Label, x \in Handle : Take(o, l, x)
    \/ \E o \in Op : GiveUp(o)
    \/ Shutdown

Spec == Init /\ [][Next]_<<holder, lease>>
=============================================================================
