--------------------------- MODULE MCSubscriptions ---------------------------
(***************************************************************************)
(* A client with few ids opens more operations than it has ids.            *)
(***************************************************************************)
EXTENDS Subscriptions
=============================================================================
