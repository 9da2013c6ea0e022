------------------------------- MODULE MCUsers -------------------------------
(* Instances of Users for TLC. *)
EXTENDS Users, TLC

Symmetry == {p @@ q @@ r : p \in Permutations(Handlers),
                            q \in Permutations(Names), r \in Permutations(Ids)}

\* Redis has many more states than the others, as its keys expire: there, a trouble
\* is the last step explored.
RedisBound == backend = "redis" => troubles = 0
=============================================================================
