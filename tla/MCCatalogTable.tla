--------------------------- MODULE MCCatalogTable ---------------------------
(* Tables t and u, with columns a and b, and two sessions.                 *)
EXTENDS CatalogTable

Decl(n, null, auto, key, value) ==
    [name |-> n, null |-> null, auto |-> auto, key |-> key, value |-> value]

MCLayouts == {<<Decl("a", FALSE, TRUE, TRUE, FALSE)>>,
              <<Decl("b", TRUE, FALSE, FALSE, FALSE), Decl("a", FALSE, FALSE, TRUE, FALSE)>>}

\* A plain column, an AUTO_INCREMENT column, a key, a default.
MCExtra == {Decl("c", TRUE, FALSE, FALSE, FALSE), Decl("c", FALSE, TRUE, FALSE, FALSE),
            Decl("a", FALSE, FALSE, TRUE, TRUE)}

Symmetry == Permutations(Sessions) \union Permutations(Names)

MCRows == {<<0, 0>>, <<2>>}
=============================================================================
