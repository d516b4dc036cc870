---------------------------- MODULE MCImosCreate ----------------------------
(* Small instances of one create call for model checking.                  *)
EXTENDS ImosCreate

CONSTANTS d1, d2

(* Two items, in an order that need not be the order the downloads end in, *)
(* and two items of one download.                                          *)
MCTwo == {<<d1, d2>>, <<d1, d1>>}

(* No item, and one.                                                       *)
MCOne == {<<>>, <<d1>>}

=============================================================================
