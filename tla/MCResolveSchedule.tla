------------------------- MODULE MCResolveSchedule --------------------------
(* Programs of a few tasks, for model checking.                            *)
EXTENDS ResolveSchedule, TLC

Fixed(v) == [asks |-> <<>>, says |-> (<<>> :> v)]

(* Another's fact, or its opposite.                                        *)
Of(a, yes, no) ==
  [asks |-> (<<>> :> a), says |-> (<<"yes">> :> yes @@ <<"no">> :> no)]

(* One fact that decides, or else a second: either, both.                  *)
Either(a, b) ==
  [asks |-> (<<>> :> a @@ <<"no">> :> b),
   says |-> (<<"yes">> :> "yes" @@ <<"no", "yes">> :> "yes" @@ <<"no", "no">> :> "no")]
Both(a, b) ==
  [asks |-> (<<>> :> a @@ <<"yes">> :> b),
   says |-> (<<"no">> :> "no" @@ <<"yes", "yes">> :> "yes" @@ <<"yes", "no">> :> "no")]

(* Exactly one of two; one of two, as a third selects.                     *)
OneOf(a, b) ==
  [asks |-> (<<>> :> a @@ <<"yes">> :> b @@ <<"no">> :> b),
   says |-> (<<"yes", "yes">> :> "no" @@ <<"yes", "no">> :> "yes"
             @@ <<"no", "yes">> :> "yes" @@ <<"no", "no">> :> "no")]
Select(a, b, c) ==
  [asks |-> (<<>> :> a @@ <<"yes">> :> b @@ <<"no">> :> c),
   says |-> (<<"yes", "yes">> :> "yes" @@ <<"yes", "no">> :> "no"
             @@ <<"no", "yes">> :> "yes" @@ <<"no", "no">> :> "no")]

Pairs == {p \in Task \X Task : p[1] # p[2]}

MCRules ==
  {Fixed(v) : v \in Answer}
  \cup {Of(a, "yes", "no") : a \in Task} \cup {Of(a, "no", "yes") : a \in Task}
  \cup {Either(p[1], p[2]) : p \in Pairs} \cup {Both(p[1], p[2]) : p \in Pairs}
  \cup {OneOf(p[1], p[2]) : p \in {q \in Pairs : q[1] < q[2]}}
  \cup UNION {{Select(p[1], p[2], c) : c \in Task \ {p[1], p[2]}} : p \in Pairs}

MCPrograms == [Task -> MCRules]

=============================================================================
