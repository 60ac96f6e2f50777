------------------------------ MODULE MCCartaSync ------------------------------
(***************************************************************************)
(* CartaSync with interchangeable slugs, subthemes and services that are   *)
(* mapped and dated alike.                                                 *)
(***************************************************************************)
EXTENDS CartaSync, TLC

Symmetry == Permutations(Services \ (Nameless \union Dateless))
            \union Permutations(Nameless \ Dateless) \union Permutations(Dateless \ Nameless)
            \union Permutations(Nameless \intersect Dateless)
            \union Permutations(Slugs) \union Permutations(Subthemes)

===============================================================================
