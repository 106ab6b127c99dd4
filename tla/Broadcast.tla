------------------------------ MODULE Broadcast ------------------------------
(***************************************************************************)
(* What an observable promises its observers, whatever mutex, map and      *)
(* iterator it uses to keep the promise: a notification reaches all        *)
(* current members in one step, so all hear the same notifications in the  *)
(* same order.  Two exceptions are part of the promise: the callback of a  *)
(* member may fail and hide the notification from members after it, and    *)
(* once the identifiers have been used up a newcomer may push out, or take *)
(* with it when it leaves, a member that has the same identifier.          *)
(***************************************************************************)
EXTENDS Naturals, Sequences

CONSTANTS
    Observer,   \* who can be a member
    Throwing,   \* those whose callback can fail
    IdLimit     \* number of different identifiers

VARIABLES
    members,    \* the current members
    joins,      \* number of joins so far
    sent,       \* number of notifications so far; the k-th carries the number k
    heard       \* for each observer: what it heard since it joined, in order

broadcast == <<members, joins, sent, heard>>

Init ==
    /\ members = {} /\ joins = 0 /\ sent = 0
    /\ heard = [o \in Observer |-> <<>>]

Join(o) ==
    /\ o \notin members
    /\ joins' = joins + 1
    /\ heard' = [heard EXCEPT ![o] = <<>>]
    /\ \/ members' = members \union {o}
       \/ joins >= IdLimit /\ \E e \in members : members' = (members \ {e}) \union {o}
    /\ UNCHANGED sent

Leave(o) ==
    /\ \/ members' = members \ {o}
       \/ joins > IdLimit /\ \E e \in members : members' = members \ {e}
    /\ UNCHANGED <<joins, sent, heard>>

Publish(S) ==
    /\ S # members => members \intersect Throwing # {}
    /\ sent' = sent + 1
    /\ heard' = [o \in Observer |-> IF o \in S THEN Append(heard[o], sent + 1) ELSE heard[o]]
    /\ UNCHANGED <<members, joins>>

Next ==
    \/ \E o \in Observer : Join(o) \/ Leave(o)
    \/ \E S \in SUBSET members : Publish(S)

Spec == Init /\ [][Next]_broadcast
=============================================================================
