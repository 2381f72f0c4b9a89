-------------------------- MODULE MCAlgoliaListing --------------------------
(* A small instance of AlgoliaListing for TLC: a task of each of two         *)
(* processes that share the index.                                           *)
EXTENDS AlgoliaListing

OneEach == {<<"p1", "task">>, <<"p2", "task">>}
=============================================================================
