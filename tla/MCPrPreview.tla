---------------------------- MODULE MCPrPreview ----------------------------
(* Small instances of PrPreview for TLC. *)
EXTENDS PrPreview, TLC

CONSTANTS e1, e2, w1, w2

\* Two pull requests of one repository, and one of another, each of one environment.
ThreePrs == 1..3
ThreeIds == 1..4
ThreeRepos == <<"a", "a", "b">>
ThreeNames == <<"1-a", "2-a", "1-b">>
OwnRepo == (e1 :> {"a"}) @@ (e2 :> {"b"})

=============================================================================
