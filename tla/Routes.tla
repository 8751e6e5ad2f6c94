------------------------------- MODULE Routes -------------------------------
(***************************************************************************)
(* The route table of the gateway, the decision it takes on one request,   *)
(* and the calls the pages of the frontend make of it.                     *)
(* (services/bff/src, frontend/src)                                        *)
(*                                                                         *)
(* A path is the sequence of its segments; a parameter of a pattern, ":id" *)
(* whatever its name, matches one segment of any text.  A request is       *)
(*   method, path                                                          *)
(*   token     role of its bearer token, "bad" or "none"                   *)
(*   claims    role its own x-user-role header names, or "none"            *)
(*   body      "none", "object" (JSON), "other" (JSON, no object),         *)
(*             "malformed", "oversized"                                    *)
(*   complete  the strings its route asks for are there                    *)
(***************************************************************************)
EXTENDS Naturals, Sequences

Roles == {"SUPPLIER", "RETAILER", "ADMINISTRATOR"}
Bodies == {"none", "object", "other", "malformed", "oversized"}
GatewayRequests == [method : STRING, path : Seq(STRING), token : Roles \cup {"bad", "none"},
                    claims : Roles \cup {"none"}, body : Bodies, complete : BOOLEAN]

Open(m, p, s) == [method |-> m, pattern |-> p, service |-> s,
                  auth |-> "public", allowedRoles |-> {}]
For(roles, m, p, s) == [method |-> m, pattern |-> p, service |-> s,
                        auth |-> "authenticated", allowedRoles |-> roles]

Admin == {"ADMINISTRATOR"}
Supplier == {"SUPPLIER"}
Retailer == {"RETAILER"}
SupplierOrAdmin == Supplier \cup Admin

ROUTE_TABLE == {
    Open("POST", <<"auth", "register">>, "auth"),
    Open("POST", <<"auth", "login">>, "auth"),
    Open("POST", <<"auth", "refresh">>, "auth"),
    Open("GET", <<"auth", "health">>, "auth"),
    For(Roles, "POST", <<"auth", "logout">>, "auth"),
    For(Roles, "GET", <<"auth", "me">>, "auth"),
    For(Admin, "POST", <<"auth", "admin", "users", ":id", "suspend">>, "auth"),
    For(Supplier, "POST", <<"suppliers", "kyc">>, "inventory"),
    For(Admin, "POST", <<"admin", "suppliers", ":id", "kyc", "approve">>, "inventory"),
    For(Admin, "POST", <<"admin", "suppliers", ":id", "kyc", "reject">>, "inventory"),
    For(Supplier, "POST", <<"products">>, "inventory"),
    For(SupplierOrAdmin, "PUT", <<"products", ":id">>, "inventory"),
    For(SupplierOrAdmin, "POST", <<"products", ":id", "publish">>, "inventory"),
    For(SupplierOrAdmin, "POST", <<"products", ":id", "unpublish">>, "inventory"),
    For(Supplier, "GET", <<"suppliers", "me", "products">>, "inventory"),
    For(SupplierOrAdmin, "POST", <<"products", ":id", "tiers">>, "inventory"),
    For(SupplierOrAdmin, "PUT", <<"products", ":id", "stock">>, "inventory"),
    For(Retailer, "POST", <<"pricing", "quote">>, "inventory"),
    For(Retailer, "POST", <<"cart", "items">>, "inventory"),
    For(Retailer, "PUT", <<"cart", "items", ":id">>, "inventory"),
    For(Retailer, "DELETE", <<"cart", "items", ":id">>, "inventory"),
    For(Retailer, "GET", <<"cart">>, "inventory"),
    For(Retailer, "POST", <<"cart", "reservations", ":id", "renew">>, "inventory"),
    For(Retailer, "POST", <<"checkout">>, "inventory"),
    For(Retailer, "GET", <<"orders", ":id">>, "inventory"),
    For(Retailer, "GET", <<"orders">>, "inventory"),
    For(SupplierOrAdmin, "POST", <<"suborders", ":id", "pack">>, "inventory"),
    For(SupplierOrAdmin, "POST", <<"suborders", ":id", "ship">>, "inventory"),
    For(SupplierOrAdmin, "POST", <<"suborders", ":id", "deliver">>, "inventory"),
    For(Roles, "POST", <<"suborders", ":id", "cancel">>, "inventory"),
    For(Retailer, "POST", <<"products", ":id", "reviews">>, "inventory"),
    For(Admin, "DELETE", <<"admin", "reviews", ":id">>, "inventory"),
    For(Admin, "POST", <<"admin", "products", ":id", "remove">>, "inventory"),
    For(Admin, "GET", <<"admin", "metrics">>, "inventory"),
    Open("GET", <<"inventory", "health">>, "inventory"),
    Open("GET", <<"search">>, "search"),
    Open("GET", <<"search", "health">>, "search"),
    For(Retailer, "POST", <<"payments", "initiate">>, "payment"),
    Open("POST", <<"payments", "callback", ":id">>, "payment"),
    For(Retailer, "GET", <<"payments", ":id">>, "payment") }

matchPattern(pattern, path) ==
    /\ Len(pattern) = Len(path)
    /\ \A i \in DOMAIN pattern : pattern[i] \in {":id", path[i]}

(***************************************************************************)
(* matchRoute takes the first match; Gateway checks that there is one only.*)
(***************************************************************************)
Matches(method, path) ==
    {r \in ROUTE_TABLE : r.method = method /\ matchPattern(r.pattern, path)}

matchRoute(method, path) == CHOOSE r \in Matches(method, path) : TRUE

(***************************************************************************)
(* authenticate and authorize: the token of a public route is not looked   *)
(* at.                                                                     *)
(***************************************************************************)
authenticate(route, req) == route.auth = "public" \/ req.token \in Roles

authorize(route, req) == route.auth = "public" \/ req.token \in route.allowedRoles

(***************************************************************************)
(* validateRequestShape: writes carry a JSON object, login, register and   *)
(* refresh their strings, a search no blank q.                             *)
(***************************************************************************)
Checked == {<<"auth", "register">>, <<"auth", "login">>, <<"auth", "refresh">>, <<"search">>}

validateRequestShape(route, req) ==
    /\ route.method \in {"POST", "PUT", "PATCH"} => req.body = "object"
    /\ route.pattern \in Checked => req.complete

(***************************************************************************)
(* captureBody, then the gateway handler: the status of a refusal, or 0    *)
(* for a request that is forwarded.                                        *)
(***************************************************************************)
gateway(req) ==
    LET route == matchRoute(req.method, req.path) IN
    CASE Matches(req.method, req.path) = {} -> 404
      [] OTHER ->
            IF ~authenticate(route, req) THEN 401
            ELSE IF ~authorize(route, req) THEN 403
            ELSE IF ~validateRequestShape(route, req) THEN 400 ELSE 0

Decision(req) ==
    CASE req.body = "oversized" -> 413
      [] req.body = "malformed" -> 400
      [] OTHER -> gateway(req)

(***************************************************************************)
(* buildForwardHeaders: whom the upstream service takes the caller for.    *)
(***************************************************************************)
Identity(req) ==
    IF matchRoute(req.method, req.path).auth = "public" THEN "none" ELSE req.token

-----------------------------------------------------------------------------
(***************************************************************************)
(* The calls of the frontend, each by a user of the role its page is for.  *)
(* bff sends a body only if it is given one, and the proxy of the frontend *)
(* adds none and drops the one of a DELETE.                                *)
(***************************************************************************)
Call(role, method, path, body) ==
    [method |-> method, path |-> path, token |-> role, claims |-> "none",
     body |-> IF method \in {"GET", "HEAD", "DELETE"} THEN "none" ELSE body,
     complete |-> TRUE]

CartViewCalls == {
    Call("RETAILER", "GET", <<"cart">>, "none"),
    Call("RETAILER", "PUT", <<"cart", "items", "i">>, "object"),
    Call("RETAILER", "DELETE", <<"cart", "items", "i">>, "none"),
    Call("RETAILER", "POST", <<"cart", "reservations", "i", "renew">>, "none") }

CheckoutViewCalls == {
    Call("RETAILER", "POST", <<"checkout">>, "object"),
    Call("RETAILER", "POST", <<"payments", "initiate">>, "object") }

AddToCartCalls == { Call("RETAILER", "POST", <<"cart", "items">>, "object") }

ReviewFormCalls == { Call("RETAILER", "POST", <<"products", "i", "reviews">>, "object") }

FulfillmentBoardCalls == {
    Call("SUPPLIER", "POST", <<"suborders", "i", "pack">>, "none"),
    Call("SUPPLIER", "POST", <<"suborders", "i", "ship">>, "object"),
    Call("SUPPLIER", "POST", <<"suborders", "i", "deliver">>, "none") }

SupplierProductsTableCalls ==
    {Call("SUPPLIER", "POST", <<"products", "i", a>>, "none") : a \in {"publish", "unpublish"}}

TierEditorCalls == { Call("SUPPLIER", "POST", <<"products", "i", "tiers">>, "object") }

KycFormCalls == { Call("SUPPLIER", "POST", <<"suppliers", "kyc">>, "object") }

KycQueuePanelCalls == {
    Call("ADMINISTRATOR", "POST", <<"admin", "suppliers", "i", "kyc", "approve">>, "none"),
    Call("ADMINISTRATOR", "POST", <<"admin", "suppliers", "i", "kyc", "reject">>, "object") }

ModerationPanelCalls == {
    Call("ADMINISTRATOR", "POST", <<"auth", "admin", "users", "i", "suspend">>, "none"),
    Call("ADMINISTRATOR", "POST", <<"admin", "products", "i", "remove">>, "none"),
    Call("ADMINISTRATOR", "DELETE", <<"admin", "reviews", "i">>, "none") }

SessionCalls == {
    Call("none", "POST", <<"auth", "login">>, "object"),
    Call("none", "POST", <<"auth", "register">>, "object"),
    Call("RETAILER", "POST", <<"auth", "logout">>, "object"),
    Call("RETAILER", "GET", <<"auth", "me">>, "none") }

(***************************************************************************)
(* What pages read while they are rendered; a reader that is refused shows *)
(* an empty page, or none.                                                 *)
(***************************************************************************)
ReaderCalls == {
    Call("none", "GET", <<"search">>, "none"),
    Call("RETAILER", "GET", <<"products", "i">>, "none"),
    Call("RETAILER", "GET", <<"orders">>, "none"),
    Call("RETAILER", "GET", <<"orders", "i">>, "none"),
    Call("SUPPLIER", "GET", <<"suppliers", "me", "products">>, "none"),
    Call("SUPPLIER", "GET", <<"suppliers", "me">>, "none"),
    Call("SUPPLIER", "GET", <<"suppliers", "me", "suborders">>, "none"),
    Call("ADMINISTRATOR", "GET", <<"admin", "metrics">>, "none"),
    Call("ADMINISTRATOR", "GET", <<"admin", "kyc">>, "none") }

PageCalls ==
    UNION { CartViewCalls, CheckoutViewCalls, AddToCartCalls, ReviewFormCalls,
            FulfillmentBoardCalls, SupplierProductsTableCalls, TierEditorCalls,
            KycFormCalls, KycQueuePanelCalls, ModerationPanelCalls,
            SessionCalls, ReaderCalls }
=============================================================================
