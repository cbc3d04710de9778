------------------------ MODULE MCRecursiveAdmission ------------------------
EXTENDS RecursiveAdmission
CONSTANTS root, left, right, leaf, read, write

Units == {root, left, right, leaf}
Powers == {read, write}
Needs == [w \in Units |-> IF w = left THEN {read, write} ELSE {read}]
Policies == {{read}, {read, write}}

Amount(c, a, r, j) ==
  [q \in Quota |-> CASE q = "children" -> c [] q = "active" -> a
                     [] q = "retries" -> r [] q = "jobs" -> j]

(* Enough for one dispatch, for two and a retry, and nothing at all. *)
Asked == {Amount(0, 1, 0, 1), Amount(1, 2, 1, 2), Nothing}
Given == Amount(2, 4, 1, 3)
GivenNoChildren == Amount(0, 2, 0, 2)
ReadOnly == {read}
=============================================================================
