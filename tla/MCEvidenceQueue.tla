--------------------------- MODULE MCEvidenceQueue ---------------------------
(* Small programs for the evidence queue: what three goals say of          *)
(* themselves and require of each other.                                   *)
EXTENDS EvidenceQueue

CONSTANTS g1, g2, g3

Impls(rank, concrete, needs) ==
    [direct |-> "search", impls |-> {[rank |-> rank, concrete |-> concrete, needs |-> n] : n \in needs}]

Decided(v) == [direct |-> v, impls |-> {}]

(* One implementation, with up to two requirements.                        *)
Single ==
    {Impls(2, TRUE, {n}) : n \in {<<>>, <<Free>>} \cup {<<g>> : g \in Goal}
                                 \cup {<<g, h>> : g, h \in Goal}}

(* A concrete implementation before a blanket one, a blanket one before    *)
(* the compiler's, and two of one rank.                                    *)
Several(g, h) ==
    {[direct |-> "search", impls |-> {[rank |-> 2, concrete |-> TRUE, needs |-> <<g>>],
                                      [rank |-> 2, concrete |-> FALSE, needs |-> <<h>>]}],
     [direct |-> "search", impls |-> {[rank |-> 1, concrete |-> FALSE, needs |-> <<g, h>>],
                                      [rank |-> 0, concrete |-> FALSE, needs |-> <<>>]}],
     [direct |-> "search", impls |-> {[rank |-> 2, concrete |-> FALSE, needs |-> <<g>>],
                                      [rank |-> 2, concrete |-> FALSE, needs |-> <<h, Free>>]}]}

(* Any rule for one goal, no choice of implementations for the second, and *)
(* a decision or one requirement for the third: the goals are asked for in *)
(* any order.                                                              *)
Rules(g) ==
    CASE g = g1 -> {Decided(v) : v \in Verdict} \cup Single
                     \cup UNION {Several(h, i) : h, i \in Goal}
      [] g = g2 -> {Decided(v) : v \in Verdict} \cup Single
      [] g = g3 -> {Decided("holds"), Decided("absent")} \cup {Impls(2, TRUE, {<<h>>}) : h \in Goal}

MCPrograms == {p \in [Goal -> UNION {Rules(g) : g \in Goal}] : \A g \in Goal : p[g] \in Rules(g)}

=============================================================================
