------------------------------ MODULE ThreadAccess ------------------------------
(***************************************************************************)
(* What thread ownership promises, without transactions, rows or locks:    *)
(* a thread has at most one holder, only the holder's requests act on it,  *)
(* a holder is let go only while nobody relies on it, and once it is firm  *)
(* it is never let go.  Ownership.tla is shown to implement this.          *)
(***************************************************************************)
CONSTANTS Requests, Users, Threads, None

VARIABLES
    holder,   \* per thread: the user it belongs to, or None
    firm,     \* per thread: whether that is settled for good
    acting    \* per thread: the requests that act on it, each with its user
avars == <<holder, firm, acting>>

Init == /\ holder = [t \in Threads |-> None]
        /\ firm = [t \in Threads |-> FALSE]
        /\ acting = [t \in Threads |-> {}]

Claim(t, u) == /\ holder[t] = None
               /\ holder' = [holder EXCEPT ![t] = u]
               /\ UNCHANGED <<firm, acting>>

\* A request starts to act for user u, who must be the holder.
Enter(r, t, u) == /\ holder[t] = u
                  /\ acting' = [acting EXCEPT ![t] = @ \union {<<r, u>>}]
                  /\ UNCHANGED <<holder, firm>>

Without(pairs, r) == {p \in pairs : p[1] # r}

Leave(r, t) == /\ acting' = [acting EXCEPT ![t] = Without(@, r)]
               /\ UNCHANGED <<holder, firm>>

\* The request that made the claim ends well: the holder is settled for good.
Confirm(r, t) == /\ holder[t] # None
                 /\ firm' = [firm EXCEPT ![t] = TRUE]
                 /\ acting' = [acting EXCEPT ![t] = Without(@, r)]
                 /\ UNCHANGED holder

\* The request that made the claim ends badly: nobody else was relying on it.
Release(r, t) == /\ ~firm[t]
                 /\ Without(acting[t], r) = {}
                 /\ holder' = [holder EXCEPT ![t] = None]
                 /\ acting' = [acting EXCEPT ![t] = {}]
                 /\ UNCHANGED firm

Next == \E t \in Threads :
           \/ \E u \in Users : Claim(t, u)
           \/ \E r \in Requests : \/ \E u \in Users : Enter(r, t, u)
                                  \/ Leave(r, t)
                                  \/ Confirm(r, t)
                                  \/ Release(r, t)

Spec == Init /\ [][Next]_avars
================================================================================
