----------------------------- MODULE MCFeedCache -----------------------------
(* An instance of FeedCache: filter values without the separator.          *)
EXTENDS FeedCache, TLC

CONSTANT x     (* an ordinary character *)

PlainTexts   == {<<>>, <<x>>}
AddrSymmetry == Permutations(Addrs)
=============================================================================
