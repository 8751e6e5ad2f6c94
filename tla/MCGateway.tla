----------------------------- MODULE MCGateway -----------------------------
(***************************************************************************)
(* Requests that meet every branch of the gateway once: a limited and an   *)
(* unlimited public route, each way to be refused, and a read and a write  *)
(* that are served; of one address, at two processes.                      *)
(***************************************************************************)
EXTENDS Gateway

CONSTANTS i1, g1, g2, a1

Request(m, p, token, claims, body, complete) ==
    [method |-> m, path |-> p, token |-> token, claims |-> claims,
     body |-> body, complete |-> complete]

MCProcesses == {g1, g2}
MCAddresses == {a1}
MCInputs == {
    Request("POST", <<"auth", "login">>, "none", "none", "object", TRUE),
    Request("POST", <<"auth", "login">>, "none", "ADMINISTRATOR", "object", FALSE),
    Request("GET", <<"search">>, "bad", "ADMINISTRATOR", "none", TRUE),
    Request("GET", <<"cart">>, "RETAILER", "SUPPLIER", "none", TRUE),
    Request("POST", <<"products", "i", "publish">>, "RETAILER", "none", "object", TRUE),
    Request("POST", <<"checkout">>, "RETAILER", "none", "object", TRUE),
    Request("POST", <<"checkout">>, "RETAILER", "none", "none", TRUE),
    Request("POST", <<"checkout">>, "RETAILER", "none", "oversized", TRUE),
    Request("GET", <<"cart">>, "bad", "none", "none", TRUE),
    Request("PUT", <<"cart", "items", "i">>, "RETAILER", "none", "malformed", TRUE),
    Request("GET", <<"internal", "reindex">>, "ADMINISTRATOR", "none", "none", TRUE) }
MCMutations == PageCalls \ ReaderCalls
=============================================================================
