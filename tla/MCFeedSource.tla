---------------------------- MODULE MCFeedSource ----------------------------
(* FeedSource on a small instance. *)
EXTENDS FeedSource, TLC

AllTickers == [a \in Articles |-> Tickers]

(* Every article is about every ticker. *)
SameTickers == Permutations(Tickers)
=============================================================================
