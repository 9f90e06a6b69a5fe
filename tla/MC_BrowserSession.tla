------------------------- MODULE MC_BrowserSession -------------------------
(* The instance of BrowserSession for TLC. *)
EXTENDS BrowserSession
=============================================================================
