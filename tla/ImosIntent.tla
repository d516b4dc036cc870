----------------------------- MODULE ImosIntent -----------------------------
(***************************************************************************)
(* What an artifact store promises: request inodes are bound to plans, a   *)
(* plan can be bound only while the store has its installation, and only   *)
(* installations no inode is bound to are given up.                        *)
(***************************************************************************)
CONSTANTS Ino, Plan, Nil

VARIABLES
  bound,  \* the plan each request inode is bound to
  have    \* the plans whose installation the store has

vars == <<bound, have>>

Init ==
  /\ bound = [i \in Ino |-> Nil]
  /\ have = {}

Publish(k) ==
  /\ k \notin have
  /\ have' = have \cup {k}
  /\ UNCHANGED bound

Bind(i, k) ==
  /\ k \in have
  /\ bound' = [bound EXCEPT ![i] = k]
  /\ UNCHANGED have

Unbind(i) ==
  /\ bound' = [bound EXCEPT ![i] = Nil]
  /\ UNCHANGED have

Collect(k) ==
  /\ k \in have
  /\ \A i \in Ino : bound[i] # k
  /\ have' = have \ {k}
  /\ UNCHANGED bound

Next ==
  \/ \E k \in Plan : Publish(k) \/ Collect(k)
  \/ \E i \in Ino : Unbind(i) \/ \E k \in Plan : Bind(i, k)

Spec == Init /\ [][Next]_vars

=============================================================================
