----------------------------- MODULE ImosBuild ------------------------------
(***************************************************************************)
(* What one create call may do to the world, whatever order its tasks run  *)
(* in: fetch the downloads of its plan, execute its items in order into a  *)
(* staged root, publish the root once all are there, register the plan     *)
(* once the installation is published, and touch nothing after it returned.*)
(***************************************************************************)
EXTENDS Naturals, Sequences

VARIABLES
  items,      \* the download keys of the plan's items
  fetched,    \* downloads the call has found or made
  staged,     \* the temporary root exists
  executed,   \* items executed into it
  published,  \* the installation is in place
  registered, \* the plan file is registered
  outcome     \* what the call returned

vars == <<items, fetched, staged, executed, published, registered, outcome>>

Init ==
  /\ fetched = {}
  /\ staged = FALSE
  /\ executed = 0
  /\ published = FALSE
  /\ registered = FALSE
  /\ outcome = "none"

Reuse ==
  /\ fetched = {} /\ ~staged /\ ~published
  /\ published' = TRUE
  /\ UNCHANGED <<fetched, staged, executed, registered>>

Fetch ==
  /\ \E i \in DOMAIN items :
       items[i] \notin fetched /\ fetched' = fetched \cup {items[i]}
  /\ ~published
  /\ UNCHANGED <<staged, executed, published, registered>>

Stage ==
  /\ ~staged /\ ~published
  /\ staged' = TRUE
  /\ UNCHANGED <<fetched, executed, published, registered>>

Execute ==
  /\ staged /\ ~published
  /\ executed < Len(items)
  /\ items[executed + 1] \in fetched
  /\ executed' = executed + 1
  /\ UNCHANGED <<fetched, staged, published, registered>>

Publish ==
  /\ staged /\ ~published
  /\ executed = Len(items)
  /\ published' = TRUE
  /\ UNCHANGED <<fetched, staged, executed, registered>>

Register ==
  /\ published /\ ~registered
  /\ registered' = TRUE
  /\ UNCHANGED <<fetched, staged, executed, published>>

Return ==
  /\ outcome' \in {"ok", "err"}
  /\ outcome' = "ok" => registered
  /\ UNCHANGED <<fetched, staged, executed, published, registered>>

Next ==
  /\ outcome = "none"
  /\ UNCHANGED items
  /\ \/ Return
     \/ UNCHANGED outcome /\ (Reuse \/ Fetch \/ Stage \/ Execute \/ Publish \/ Register)

Spec == Init /\ [][Next]_vars

=============================================================================
