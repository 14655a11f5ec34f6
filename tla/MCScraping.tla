----------------------------- MODULE MCScraping -----------------------------
(* Scraping on a small instance. *)
EXTENDS Scraping, TLC

CONSTANTS u1, u2, d1, d2, h1, h2

SiteOf == (u1 :> d1) @@ (u2 :> d2)
NetlocOf == (u1 :> h1) @@ (u2 :> h2)
Csvs == {<<u1, u2>>, <<u1, u1>>}
=============================================================================
