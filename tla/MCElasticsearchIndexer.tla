----------------------- MODULE MCElasticsearchIndexer -----------------------
(***************************************************************************)
(* ElasticsearchIndexer on small instances: pages of one product, so that  *)
(* a reindex of two products reads three pages, and one channel beside the *)
(* default one.                                                            *)
(***************************************************************************)
EXTENDS ElasticsearchIndexer, TLC

CONSTANTS c1, c2, w1, w2

Symmetry == Permutations(Workers)
=============================================================================
