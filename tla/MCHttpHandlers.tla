---------------------------- MODULE MCHttpHandlers ----------------------------
(* HttpHandlers with two clients, one of them the account that is looked up. *)
EXTENDS HttpHandlers

MCAccounts == {"alice", "bob"}
MCOpenRequests == {"open_alice", "open_bob"}
MCPageRequests == {"page_bob", "page_nobody"}
MCForwardRequests == {"forward"}

MCFrom(r) ==
  CASE r \in {"open_bob", "page_bob"} -> "bob"
    [] r = "open_alice" -> "alice"
    [] OTHER -> "nobody"
=============================================================================
