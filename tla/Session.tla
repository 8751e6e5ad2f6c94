------------------------------ MODULE Session ------------------------------
(***************************************************************************)
(* The sessions of one active account: the token pairs the auth service    *)
(* issues, rotates and revokes, its suspension by an administrator, and    *)
(* the cookies in which the browser keeps a pair.                          *)
(* (services/auth/src, bff/src/domain/tokens.ts, frontend/src/app/api/auth)*)
(*                                                                         *)
(* A call waits at every query; between two awaits it is one action.  The  *)
(* pair t is an access token, which nobody can revoke, and a refresh       *)
(* token, of which the service keeps the hash.  A pair that is of no use   *)
(* to anybody is forgotten, so that pairs never run out for good.          *)
(* Whether a login passes is the matter of Login.                          *)
(***************************************************************************)
EXTENDS Integers, FiniteSets

CONSTANTS
    Calls,          \* calls of the auth service in flight at one time
    Pairs,          \* bound: token pairs of some use at one time
    NoPair          \* no pair: an empty cookie, no token presented

ASSUME NoPairAssumption == NoPair \notin Pairs
ASSUME CallsAssumption == IsFiniteSet(Calls)

VARIABLES
    suspended,      \* users.status is SUSPENDED
    refresh,        \* refresh_tokens: "free", "live", or "spent": revoked or expired
    access,         \* pairs whose access token is issued and not expired
    step,           \* step[c]: where call c waits
    tok,            \* tok[c]: the pair whose refresh token c presents
    web,            \* calls made by a route handler of the frontend
    session,        \* the session cookie
    remember,       \* the refresh cookie
    exchanged       \* history: pairs issued for the refresh token of t

auth == <<suspended, refresh>>
callVars == <<step, tok, web>>
cookies == <<session, remember>>
sessionVars == <<auth, access, callVars, cookies, exchanged>>

CallSteps == {"done", "signin", "user", "rotate", "reissue", "find", "revoke", "left",
          "mark", "revokeAll"}

Begins(c, s, t, browser) ==
    /\ step' = [step EXCEPT ![c] = s]
    /\ tok' = [tok EXCEPT ![c] = t]
    /\ web' = IF browser THEN web \cup {c} ELSE web

GoesOn(c, s) ==
    /\ step' = [step EXCEPT ![c] = s]
    /\ tok' = IF s = "done" THEN [tok EXCEPT ![c] = NoPair] ELSE tok
    /\ web' = IF s = "done" THEN web \ {c} ELSE web

SessionInit ==
    /\ suspended = FALSE
    /\ refresh = [t \in Pairs |-> "free"]
    /\ access = {}
    /\ step = [c \in Calls |-> "done"]
    /\ tok = [c \in Calls |-> NoPair]
    /\ web = {}
    /\ session = NoPair
    /\ remember = NoPair
    /\ exchanged = [t \in Pairs |-> 0]

(***************************************************************************)
(* refresh finds the token by its hash: unknown, revoked and expired ones  *)
(* are answered 401.                                                       *)
(***************************************************************************)
Usable(t) == refresh[t] = "live"

(***************************************************************************)
(* issueTokenPair: an access token is signed and a refresh token inserted. *)
(* The route handler of a login puts both into cookies.                    *)
(***************************************************************************)
FreePairs == {t \in Pairs : refresh[t] = "free"}

IssueTokenPair(c) ==
    /\ FreePairs # {}
    /\ LET t == CHOOSE t \in FreePairs : TRUE IN
        /\ refresh' = [refresh EXCEPT ![t] = "live"]
        /\ access' = access \cup {t}
        /\ IF c \in web
           THEN session' = t /\ remember' = t
           ELSE UNCHANGED cookies

(***************************************************************************)
(* login, from the browser or from another client: the row is read, and    *)
(* the pair issued when Login lets it pass.                                *)
(***************************************************************************)
LogIn(c, browser) ==
    /\ step[c] = "done"
    /\ ~suspended
    /\ Begins(c, "signin", NoPair, browser)
    /\ UNCHANGED <<auth, access, cookies, exchanged>>

SignIn(c) ==
    /\ step[c] = "signin"
    /\ IssueTokenPair(c)
    /\ GoesOn(c, "done")
    /\ UNCHANGED <<suspended, exchanged>>

(***************************************************************************)
(* refresh: findByHash, findById, revoke, issueTokenPair.  The frontend    *)
(* never calls it.                                                         *)
(***************************************************************************)
Refresh(c, t) ==
    /\ step[c] = "done"
    /\ Usable(t)
    /\ Begins(c, "user", t, FALSE)
    /\ UNCHANGED <<auth, access, cookies, exchanged>>

\* Broken variant of CheckUser: the status of the account is not looked at.
CheckNothing(c) ==
    /\ step[c] = "user"
    /\ GoesOn(c, "rotate")
    /\ UNCHANGED <<auth, access, cookies, exchanged>>

CheckUser(c) ==
    /\ step[c] = "user"
    /\ GoesOn(c, IF suspended THEN "done" ELSE "rotate")
    /\ UNCHANGED <<auth, access, cookies, exchanged>>

\* Broken variant of Rotate: the old token is not revoked.
RotateKeeps(c) ==
    /\ step[c] = "rotate"
    /\ GoesOn(c, "reissue")
    /\ UNCHANGED <<auth, access, cookies, exchanged>>

Rotate(c) ==
    /\ step[c] = "rotate"
    /\ refresh' = [refresh EXCEPT ![tok[c]] = "spent"]
    /\ GoesOn(c, "reissue")
    /\ UNCHANGED <<suspended, access, cookies, exchanged>>

Reissue(c) ==
    /\ step[c] = "reissue"
    /\ IssueTokenPair(c)
    /\ exchanged' = [exchanged EXCEPT ![tok[c]] = @ + 1]
    /\ GoesOn(c, "done")
    /\ UNCHANGED suspended

(***************************************************************************)
(* POST /auth/logout, behind requireAuth: it takes a valid access token.   *)
(***************************************************************************)
Logout(c, t) ==
    /\ step[c] = "done"
    /\ access # {}
    /\ refresh[t] # "free"
    /\ Begins(c, "find", t, FALSE)
    /\ UNCHANGED <<auth, access, cookies, exchanged>>

(***************************************************************************)
(* The logout route of the frontend calls it when both cookies are there,  *)
(* and deletes them whatever it answers.                                   *)
(***************************************************************************)
WebLogout(c) ==
    /\ step[c] = "done"
    /\ remember # NoPair
    /\ Begins(c, IF session \in access THEN "find" ELSE "left", remember, TRUE)
    /\ UNCHANGED <<auth, access, cookies, exchanged>>

After(c) == IF c \in web THEN "left" ELSE "done"

FindByHash(c) ==
    /\ step[c] = "find"
    /\ GoesOn(c, IF refresh[tok[c]] = "live" THEN "revoke" ELSE After(c))
    /\ UNCHANGED <<auth, access, cookies, exchanged>>

Revoke(c) ==
    /\ step[c] = "revoke"
    /\ refresh' = [refresh EXCEPT ![tok[c]] = "spent"]
    /\ GoesOn(c, After(c))
    /\ UNCHANGED <<suspended, access, cookies, exchanged>>

DeleteCookies(c) ==
    /\ step[c] = "left"
    /\ session' = NoPair
    /\ remember' = NoPair
    /\ GoesOn(c, "done")
    /\ UNCHANGED <<auth, access, exchanged>>

(***************************************************************************)
(* suspendUser: findById, updateStatus, revokeAllForUser.                  *)
(***************************************************************************)
Suspend(c) ==
    /\ step[c] = "done"
    /\ Begins(c, "mark", NoPair, FALSE)
    /\ UNCHANGED <<auth, access, cookies, exchanged>>

UpdateStatus(c) ==
    /\ step[c] = "mark"
    /\ suspended' = TRUE
    /\ GoesOn(c, "revokeAll")
    /\ UNCHANGED <<refresh, access, cookies, exchanged>>

RevokeAllForUser(c) ==
    /\ step[c] = "revokeAll"
    /\ refresh' = [t \in Pairs |-> IF refresh[t] = "live" THEN "spent" ELSE refresh[t]]
    /\ GoesOn(c, "done")
    /\ UNCHANGED <<suspended, access, cookies, exchanged>>

(***************************************************************************)
(* A query fails, or the service does not answer: what was written stays.  *)
(* The frontend's logout goes on to its cookies.                           *)
(***************************************************************************)
CallFails(c) ==
    /\ step[c] \notin {"done", "left"}
    /\ GoesOn(c, IF step[c] \in {"find", "revoke"} THEN After(c) ELSE "done")
    /\ UNCHANGED <<auth, access, cookies, exchanged>>

(***************************************************************************)
(* Time: an access token expires, and after it the refresh token; the      *)
(* session cookie, set later for the same 60 minutes, and the refresh      *)
(* cookie end after their tokens.                                          *)
(***************************************************************************)
AccessExpires(t) ==
    /\ t \in access
    /\ access' = access \ {t}
    /\ UNCHANGED <<auth, callVars, cookies, exchanged>>

RefreshExpires(t) ==
    /\ refresh[t] = "live"
    /\ t \notin access
    /\ refresh' = [refresh EXCEPT ![t] = "spent"]
    /\ UNCHANGED <<suspended, access, callVars, cookies, exchanged>>

CookieExpires ==
    \/ /\ session \in Pairs \ access
       /\ session' = NoPair
       /\ UNCHANGED <<auth, access, callVars, remember, exchanged>>
    \/ /\ remember # NoPair
       /\ refresh[remember] = "spent"
       /\ session = NoPair
       /\ remember' = NoPair
       /\ UNCHANGED <<auth, access, callVars, session, exchanged>>

(***************************************************************************)
(* The model's own: nobody can make use of the pair any more.              *)
(***************************************************************************)
ForgetPair(t) ==
    /\ refresh[t] = "spent"
    /\ t \notin access \cup {session, remember}
    /\ \A c \in Calls : tok[c] # t
    /\ refresh' = [refresh EXCEPT ![t] = "free"]
    /\ exchanged' = [exchanged EXCEPT ![t] = 0]
    /\ UNCHANGED <<suspended, access, callVars, cookies>>

Begin(c) ==
    \/ \E browser \in BOOLEAN : LogIn(c, browser)
    \/ \E t \in Pairs : Refresh(c, t) \/ Logout(c, t)
    \/ WebLogout(c) \/ Suspend(c)

Proceed(c) ==
    \/ SignIn(c) \/ CheckUser(c) \/ Rotate(c) \/ Reissue(c)
    \/ FindByHash(c) \/ Revoke(c) \/ DeleteCookies(c)
    \/ UpdateStatus(c) \/ RevokeAllForUser(c)

SessionNext ==
    \/ \E c \in Calls : Begin(c) \/ Proceed(c) \/ CallFails(c)
    \/ \E t \in Pairs : AccessExpires(t) \/ RefreshExpires(t) \/ ForgetPair(t)
    \/ CookieExpires

(***************************************************************************)
(* Queries return or fail, and time passes.  Nobody has to call anything.  *)
(***************************************************************************)
SessionFairness ==
    /\ \A c \in Calls : WF_sessionVars(Proceed(c) \/ CallFails(c))
    /\ \A t \in Pairs : WF_sessionVars(AccessExpires(t))

SessionSpec == SessionInit /\ [][SessionNext]_sessionVars /\ SessionFairness

-----------------------------------------------------------------------------

SessionTypeOK ==
    /\ suspended \in BOOLEAN
    /\ refresh \in [Pairs -> {"free", "live", "spent"}]
    /\ access \subseteq Pairs
    /\ step \in [Calls -> CallSteps]
    /\ tok \in [Calls -> Pairs \cup {NoPair}]
    /\ web \subseteq Calls
    /\ session \in Pairs \cup {NoPair}
    /\ remember \in Pairs \cup {NoPair}
    /\ exchanged \in [Pairs -> Nat]

(***************************************************************************)
(* A refresh token buys one new pair for each call that presents it at the *)
(* same time, and none once a rotation is over: rotation bounds, although  *)
(* the code does not make single-use, what a token is good for.            *)
(***************************************************************************)
ExchangesAreBounded ==
    \A t \in Pairs :
        /\ exchanged[t] <= Cardinality(Calls)
        /\ exchanged[t] > 0 => refresh[t] = "spent"

(***************************************************************************)
(* The values are those of the code, and rotation bounds what a refresh    *)
(* token is good for.                                                      *)
(***************************************************************************)
RotationIsSound ==
    /\ SessionTypeOK
    /\ ExchangesAreBounded

(***************************************************************************)
(* A suspended account is out for good, once the calls that were in flight *)
(* are over and the access tokens have expired: nothing it still holds, a  *)
(* pair issued behind revokeAllForUser included, gets it another one.      *)
(***************************************************************************)
SuspensionBites == suspended ~> [](suspended /\ access = {})
=============================================================================
