----------------------- MODULE MCArticleTranslations -----------------------
(* Instances of ArticleTranslations for TLC. *)
EXTENDS ArticleTranslations, TLC

CONSTANTS x, y, z

(* Two texts with the same body and different titles, and another body. *)
MCBodyOf == (x :> "first") @@ (y :> "first") @@ (z :> "second")

Symmetry == Permutations(Worker)

=============================================================================
