------------------------------ MODULE KeyGuard ------------------------------
(***************************************************************************)
(* What ActiveConnections of the proxy promises: a guard between the       *)
(* connections of one player on one port.  A connection that takes a free  *)
(* key holds it alone, until a parallel connection is refused for the key: *)
(* the refusal takes the entry of the holder away, and from then on the    *)
(* key is spoiled and may have any number of holders.                      *)
(***************************************************************************)
CONSTANTS Conns, Keys

VARIABLES
    holders,    \* the connections that hold each key
    spoiled     \* the keys a parallel connection was refused for

vars == <<holders, spoiled>>

Init ==
    /\ holders = [k \in Keys |-> {}]
    /\ spoiled = {}

Acquire(c, k) ==
    /\ holders[k] = {} \/ k \in spoiled
    /\ \A other \in Keys : c \notin holders[other]
    /\ holders' = [holders EXCEPT ![k] = @ \cup {c}]
    /\ UNCHANGED spoiled

Release(c, k) ==
    /\ c \in holders[k]
    /\ holders' = [holders EXCEPT ![k] = @ \ {c}]
    /\ UNCHANGED spoiled

\* Only a key somebody holds is refused.
Refuse(k) ==
    /\ holders[k] # {}
    /\ spoiled' = spoiled \cup {k}
    /\ UNCHANGED holders

Next ==
    \E k \in Keys :
        \/ Refuse(k)
        \/ \E c \in Conns : Acquire(c, k)
        \/ \E c \in holders[k] : Release(c, k)

Spec == Init /\ [][Next]_vars

=============================================================================
