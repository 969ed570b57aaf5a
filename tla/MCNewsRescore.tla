--------------------------- MODULE MCNewsRescore ---------------------------
(* Instances of NewsRescore for TLC. *)
EXTENDS NewsRescore, TLC

CONSTANTS a1, a2, l1, l2

(* The first actor shared both links, the second one of them. *)
TwoActors == (a1 :> {l1, l2}) @@ (a2 :> {l2})

(* One actor, two links: two chunks of one link. *)
OneActor == a1 :> {l1, l2}

Symmetry == Permutations(Drain)

=============================================================================
