---------------------------- MODULE AccessProofs ----------------------------
(***************************************************************************)
(* Proofs about the way from a browser to the services: the rotation of    *)
(* refresh tokens (Session), the cart and the checkout of the site         *)
(* (Storefront), the decisions and the limits of the gateway (Gateway),    *)
(* and the login with its lockout (Login). The four modules share no       *)
(* state; each part below has an invariant of its own, and follows from    *)
(* the specification of one of them.                                       *)
(***************************************************************************)
EXTENDS Session, Storefront, Gateway, Login, FiniteSetTheorems, SequenceTheorems,
        WellFoundedInduction, NaturalsInduction, TLAPS

-----------------------------------------------------------------------------
(***************************************************************************)
(* Session.  A call that will exchange a refresh token is counted as if    *)
(* it had exchanged it already.                                            *)
(***************************************************************************)

(***************************************************************************)
(* The calls that still hold the refresh token of t, and will exchange it  *)
(* if nothing stops them.                                                  *)
(***************************************************************************)
Presenting(t) == {c \in Calls : step[c] \in {"user", "rotate", "reissue"} /\ tok[c] = t}

TokensFit ==
    \A c \in Calls :
        /\ step[c] \in {"user", "rotate", "reissue"} => tok[c] \in Pairs
        /\ step[c] = "reissue" => refresh[tok[c]] = "spent"

ExchangesAreCounted ==
    \A t \in Pairs :
        /\ exchanged[t] + Cardinality(Presenting(t)) <= Cardinality(Calls)
        /\ exchanged[t] > 0 => refresh[t] = "spent"

SessionInv == SessionTypeOK /\ TokensFit /\ ExchangesAreCounted

(***************************************************************************)
(* Sets of calls are finite, and smaller ones have fewer members.          *)
(***************************************************************************)
LEMMA CallsAreFinite ==
  ASSUME NEW S, NEW T \in SUBSET Calls, S \subseteq T
  PROVE  /\ Cardinality(T) \in Nat
         /\ Cardinality(S) \in Nat
         /\ Cardinality(S) <= Cardinality(T)
<1>1. IsFiniteSet(T)
  BY CallsAssumption, FS_Subset
<1>. QED
  BY <1>1, FS_Subset, FS_CardinalityType

LEMMA SessionInitInv == SessionInit => SessionInv
<1> SUFFICES ASSUME SessionInit PROVE SessionInv
  OBVIOUS
<1>1. SessionTypeOK /\ TokensFit
  BY DEF SessionInit, SessionTypeOK, TokensFit, CallSteps
<1>2. ASSUME NEW t \in Pairs PROVE Presenting(t) = {}
  BY DEF SessionInit, Presenting
<1>3. ExchangesAreCounted
  BY <1>2, CallsAreFinite, FS_EmptySet DEF SessionInit, ExchangesAreCounted
<1>. QED
  BY <1>1, <1>3 DEF SessionInv

(***************************************************************************)
(* A step that begins no refresh and exchanges nothing keeps the account.  *)
(***************************************************************************)
LEMMA FewerPresent ==
  ASSUME SessionInv,
         \A t \in Pairs : Presenting(t)' \subseteq Presenting(t),
         exchanged' = exchanged,
         \A t \in Pairs : refresh[t] = "spent" => refresh'[t] = "spent"
  PROVE  ExchangesAreCounted'
<1> SUFFICES ASSUME NEW t \in Pairs
             PROVE  /\ exchanged[t] + Cardinality(Presenting(t)') <= Cardinality(Calls)
                    /\ exchanged[t] > 0 => refresh'[t] = "spent"
  BY DEF ExchangesAreCounted
<1>1. Presenting(t) \subseteq Calls
  BY DEF Presenting
<1>2. Cardinality(Presenting(t)') <= Cardinality(Presenting(t))
      /\ Cardinality(Presenting(t)) \in Nat /\ Cardinality(Presenting(t)') \in Nat
      /\ Cardinality(Calls) \in Nat
  BY <1>1, CallsAreFinite
<1>3. exchanged[t] \in Nat
  BY DEF SessionInv, SessionTypeOK
<1>. QED
  BY <1>2, <1>3 DEF SessionInv, ExchangesAreCounted

(***************************************************************************)
(* A call that goes on presents its token as before, or no longer.         *)
(***************************************************************************)
LEMMA GoesOnPresents ==
  ASSUME SessionTypeOK, NEW c \in Calls, NEW s \in CallSteps, GoesOn(c, s),
         s \in {"user", "rotate", "reissue"} => step[c] \in {"user", "rotate", "reissue"}
  PROVE  /\ \A t \in Pairs : Presenting(t)' \subseteq Presenting(t)
         /\ \A t \in Pairs : s \notin {"user", "rotate", "reissue"} /\ tok[c] = t
                                => Presenting(t)' = Presenting(t) \ {c}
         /\ step' \in [Calls -> CallSteps]
         /\ tok' \in [Calls -> Pairs \cup {NoPair}]
         /\ web' \subseteq Calls
<1>1. /\ step' \in [Calls -> CallSteps]
      /\ tok' \in [Calls -> Pairs \cup {NoPair}]
      /\ web' \subseteq Calls
  BY DEF GoesOn, SessionTypeOK
<1>2. \A t \in Pairs : Presenting(t)' \subseteq Presenting(t)
  BY NoPairAssumption DEF GoesOn, SessionTypeOK, Presenting
<1>3. ASSUME NEW t \in Pairs, s \notin {"user", "rotate", "reissue"}, tok[c] = t
      PROVE  Presenting(t)' = Presenting(t) \ {c}
  BY <1>3, NoPairAssumption DEF GoesOn, SessionTypeOK, Presenting
<1>. QED
  BY <1>1, <1>2, <1>3

LEMMA IssueKeeps ==
  ASSUME SessionTypeOK, NEW c \in Calls, IssueTokenPair(c)
  PROVE  /\ refresh' \in [Pairs -> {"free", "live", "spent"}]
         /\ access' \subseteq Pairs
         /\ session' \in Pairs \cup {NoPair}
         /\ remember' \in Pairs \cup {NoPair}
         /\ \A t \in Pairs : refresh[t] = "spent" => refresh'[t] = "spent"
<1> DEFINE t == CHOOSE t \in FreePairs : TRUE
<1>1. t \in Pairs /\ refresh[t] = "free"
  BY DEF IssueTokenPair, FreePairs
<1>. QED
  BY <1>1 DEF IssueTokenPair, SessionTypeOK, cookies

LEMMA BeginKeeps ==
  ASSUME SessionInv, NEW c \in Calls, Begin(c)
  PROVE  SessionInv'
<1> USE DEF SessionInv
<1>1. ASSUME NEW s \in CallSteps \ {"user", "rotate", "reissue"}, NEW t \in Pairs \cup {NoPair},
             NEW browser \in BOOLEAN, Begins(c, s, t, browser), step[c] = "done",
             UNCHANGED <<auth, access, cookies, exchanged>>
      PROVE  SessionInv'
  <2>1. SessionTypeOK' /\ TokensFit'
    BY <1>1 DEF Begins, SessionTypeOK, TokensFit, auth, cookies
  <2>2. \A u \in Pairs : Presenting(u)' \subseteq Presenting(u)
    BY <1>1 DEF Begins, SessionTypeOK, Presenting
  <2>. QED
    BY <1>1, <2>1, <2>2, FewerPresent DEF auth
<1>2. ASSUME NEW t \in Pairs, Refresh(c, t)
      PROVE  SessionInv'
  <2>1. SessionTypeOK' /\ TokensFit'
    BY <1>2 DEF Refresh, Begins, SessionTypeOK, TokensFit, auth, cookies, CallSteps
  <2>2. exchanged[t] = 0
    BY <1>2 DEF Refresh, Usable, ExchangesAreCounted, SessionTypeOK
  <2>3. \A u \in Pairs \ {t} : Presenting(u)' \subseteq Presenting(u)
    BY <1>2 DEF Refresh, Begins, SessionTypeOK, Presenting
  <2>4. \A u \in Pairs : Presenting(u)' \subseteq Calls /\ Presenting(u) \subseteq Calls
    BY DEF Presenting
  <2>5. ASSUME NEW u \in Pairs
        PROVE  /\ exchanged[u] + Cardinality(Presenting(u)') <= Cardinality(Calls)
               /\ exchanged[u] > 0 => refresh[u] = "spent"
    <3>1. CASE u = t
      BY <3>1, <2>2, <2>4, CallsAreFinite
    <3>2. CASE u # t
      <4>1. Cardinality(Presenting(u)') <= Cardinality(Presenting(u))
            /\ Cardinality(Presenting(u)') \in Nat
            /\ Cardinality(Presenting(u)) \in Nat /\ Cardinality(Calls) \in Nat
        BY <2>3, <2>4, <3>2, CallsAreFinite
      <4>2. exchanged[u] \in Nat
        BY DEF SessionTypeOK
      <4>. QED
        BY <4>1, <4>2 DEF ExchangesAreCounted
    <3>. QED
      BY <3>1, <3>2
  <2>. QED
    BY <2>1, <2>5, <1>2 DEF ExchangesAreCounted, Refresh, auth
<1>3. CASE \E browser \in BOOLEAN : LogIn(c, browser)
  BY <1>1, <1>3 DEF LogIn, CallSteps
<1>4. CASE \E t \in Pairs : Logout(c, t)
  BY <1>1, <1>4 DEF Logout, CallSteps
<1>5. CASE WebLogout(c)
  BY <1>1, <1>5 DEF WebLogout, CallSteps, SessionTypeOK
<1>6. CASE Suspend(c)
  BY <1>1, <1>6 DEF Suspend, CallSteps
<1>. QED
  BY <1>2, <1>3, <1>4, <1>5, <1>6 DEF Begin

(***************************************************************************)
(* The one step that counts: a call that exchanges the token gives its own *)
(* claim to it up.                                                         *)
(***************************************************************************)
LEMMA ReissueKeeps ==
  ASSUME SessionInv, NEW c \in Calls, Reissue(c)
  PROVE  SessionInv'
<1> USE DEF SessionInv
<1>0. tok[c] \in Pairs
  BY DEF Reissue, TokensFit
<1>. PICK t \in Pairs : t = tok[c]
  BY <1>0
<1>1. refresh[t] = "spent" /\ c \in Presenting(t)
  BY DEF Reissue, TokensFit, Presenting
<1>2. GoesOn(c, "done") /\ "done" \in CallSteps
  BY DEF Reissue, CallSteps
<1>3. /\ \A u \in Pairs : Presenting(u)' \subseteq Presenting(u)
      /\ Presenting(t)' = Presenting(t) \ {c}
  BY <1>2, GoesOnPresents
<1>4. SessionTypeOK' /\ TokensFit'
  <2>1. \A u \in Pairs : refresh[u] = "spent" => refresh'[u] = "spent"
    BY IssueKeeps DEF Reissue
  <2>2. exchanged' \in [Pairs -> Nat]
    BY <1>0 DEF Reissue, SessionTypeOK
  <2>3. SessionTypeOK'
    BY <2>2, <1>2, GoesOnPresents, IssueKeeps DEF Reissue, SessionTypeOK
  <2>4. TokensFit'
    BY <2>1, <1>2 DEF GoesOn, TokensFit, SessionTypeOK
  <2>. QED
    BY <2>3, <2>4
<1>5. ASSUME NEW u \in Pairs
      PROVE  /\ exchanged'[u] + Cardinality(Presenting(u)') <= Cardinality(Calls)
             /\ exchanged'[u] > 0 => refresh'[u] = "spent"
  <2>1. Presenting(u) \subseteq Calls /\ exchanged[u] \in Nat
    BY DEF Presenting, SessionTypeOK
  <2>2. /\ Cardinality(Presenting(u)') <= Cardinality(Presenting(u))
        /\ Cardinality(Presenting(u)') \in Nat
        /\ Cardinality(Presenting(u)) \in Nat /\ Cardinality(Calls) \in Nat
    BY <2>1, <1>3, CallsAreFinite
  <2>3. refresh[u] = "spent" => refresh'[u] = "spent"
    BY IssueKeeps DEF Reissue
  <2>4. exchanged[u] + Cardinality(Presenting(u)) <= Cardinality(Calls)
        /\ (exchanged[u] > 0 => refresh[u] = "spent")
    BY DEF ExchangesAreCounted
  <2>5. CASE u = t
    <3>1. IsFiniteSet(Presenting(t))
      BY <2>1, <2>5, CallsAssumption, FS_Subset
    <3>2. Cardinality(Presenting(t)') = Cardinality(Presenting(t)) - 1
      BY <3>1, <1>1, <1>3, FS_RemoveElement
    <3>3. exchanged'[u] = exchanged[u] + 1
      BY <2>5, <1>1 DEF Reissue, SessionTypeOK
    <3>. QED
      BY <3>2, <3>3, <2>5, <2>1, <2>2, <2>3, <2>4, <1>1
  <2>6. CASE u # t
    <3>1. exchanged'[u] = exchanged[u]
      BY <2>6 DEF Reissue, SessionTypeOK
    <3>. QED
      BY <3>1, <2>1, <2>2, <2>3, <2>4
  <2>. QED
    BY <2>5, <2>6
<1>. QED
  BY <1>4, <1>5 DEF ExchangesAreCounted

LEMMA ProceedKeeps ==
  ASSUME SessionInv, NEW c \in Calls, Proceed(c) \/ CallFails(c)
  PROVE  SessionInv'
<1> USE DEF SessionInv
<1>1. ASSUME NEW s \in CallSteps, GoesOn(c, s),
             s \in {"user", "rotate", "reissue"} => step[c] \in {"user", "rotate", "reissue"},
             s = "reissue" => refresh'[tok[c]] = "spent",
             refresh' \in [Pairs -> {"free", "live", "spent"}],
             \A t \in Pairs : refresh[t] = "spent" => refresh'[t] = "spent",
             suspended' \in BOOLEAN, access' \subseteq Pairs,
             session' \in Pairs \cup {NoPair}, remember' \in Pairs \cup {NoPair},
             exchanged' = exchanged
      PROVE  SessionInv'
  <2>1. SessionTypeOK'
    BY <1>1, GoesOnPresents DEF SessionTypeOK
  <2>2. TokensFit'
    BY <1>1 DEF GoesOn, TokensFit, SessionTypeOK
  <2>3. ExchangesAreCounted'
    BY <1>1, GoesOnPresents, FewerPresent
  <2>. QED
    BY <2>1, <2>2, <2>3
<1>a. After(c) \in CallSteps \ {"user", "rotate", "reissue"}
  BY DEF After, CallSteps
<1>b. {"done", "rotate", "reissue", "revoke", "revokeAll"} \subseteq CallSteps
  BY DEF CallSteps
<1>2. CASE SignIn(c)
  BY <1>1, <1>2, <1>b, IssueKeeps DEF SignIn, SessionTypeOK
<1>3. CASE CheckUser(c)
  BY <1>1, <1>3, <1>b DEF CheckUser, SessionTypeOK, auth, cookies
<1>4. CASE Rotate(c)
  <2>1. tok[c] \in Pairs
    BY <1>4 DEF Rotate, TokensFit
  <2>. QED
    BY <1>1, <1>4, <1>b, <2>1 DEF Rotate, SessionTypeOK, cookies
<1>5. CASE Reissue(c)
  BY <1>5, ReissueKeeps
<1>6. CASE FindByHash(c)
  BY <1>1, <1>6, <1>a, <1>b DEF FindByHash, SessionTypeOK, auth, cookies
<1>7. CASE Revoke(c)
  BY <1>1, <1>7, <1>a DEF Revoke, SessionTypeOK, cookies
<1>8. CASE DeleteCookies(c)
  BY <1>1, <1>8, <1>b DEF DeleteCookies, SessionTypeOK, auth
<1>9. CASE UpdateStatus(c)
  BY <1>1, <1>9, <1>b DEF UpdateStatus, SessionTypeOK, cookies
<1>10. CASE RevokeAllForUser(c)
  BY <1>1, <1>10, <1>b DEF RevokeAllForUser, SessionTypeOK, cookies
<1>11. CASE CallFails(c)
  BY <1>1, <1>11, <1>a, <1>b DEF CallFails, SessionTypeOK, auth, cookies
<1>. QED
  BY <1>2, <1>3, <1>4, <1>5, <1>6, <1>7, <1>8, <1>9, <1>10, <1>11 DEF Proceed

LEMMA TimeKeeps ==
  ASSUME SessionInv,
         \/ \E t \in Pairs : AccessExpires(t) \/ RefreshExpires(t)
         \/ CookieExpires
  PROVE  SessionInv'
<1> USE DEF SessionInv
<1>1. SessionTypeOK' /\ TokensFit'
  BY DEF AccessExpires, RefreshExpires, CookieExpires, SessionTypeOK, TokensFit,
         auth, callVars, cookies
<1>2. /\ \A t \in Pairs : Presenting(t)' = Presenting(t)
      /\ exchanged' = exchanged
      /\ \A t \in Pairs : refresh[t] = "spent" => refresh'[t] = "spent"
  BY DEF AccessExpires, RefreshExpires, CookieExpires, SessionTypeOK, Presenting,
         auth, callVars, cookies
<1>. QED
  BY <1>1, <1>2, FewerPresent

LEMMA ForgetPairKeeps ==
  ASSUME SessionInv, NEW t \in Pairs, ForgetPair(t)
  PROVE  SessionInv'
<1> USE DEF SessionInv
<1>1. SessionTypeOK' /\ TokensFit'
  BY DEF ForgetPair, SessionTypeOK, TokensFit, callVars, cookies
<1>2. ASSUME NEW u \in Pairs
      PROVE  /\ exchanged'[u] + Cardinality(Presenting(u)') <= Cardinality(Calls)
             /\ exchanged'[u] > 0 => refresh'[u] = "spent"
  <2>1. Presenting(u)' = Presenting(u) /\ Presenting(u) \subseteq Calls
    BY DEF ForgetPair, Presenting, callVars
  <2>2. CASE u = t
    <3>1. exchanged'[u] = 0
      BY <2>2 DEF ForgetPair, SessionTypeOK
    <3>. QED
      BY <3>1, <2>1, CallsAreFinite
  <2>3. CASE u # t
    BY <2>1, <2>3 DEF ForgetPair, SessionTypeOK, ExchangesAreCounted
  <2>. QED
    BY <2>2, <2>3
<1>. QED
  BY <1>1, <1>2 DEF ExchangesAreCounted

LEMMA SessionKept ==
  ASSUME SessionInv, [SessionNext]_sessionVars
  PROVE  SessionInv'
<1>1. CASE UNCHANGED sessionVars
  BY <1>1 DEF sessionVars, auth, callVars, cookies, SessionInv, SessionTypeOK, TokensFit,
              ExchangesAreCounted, Presenting
<1>. QED
  BY <1>1, BeginKeeps, ProceedKeeps, TimeKeeps, ForgetPairKeeps DEF SessionNext

(***************************************************************************)
(* The inductive invariant of the sessions.                                *)
(***************************************************************************)
THEOREM SessionInvariant == SessionSpec => []SessionInv
<1>1. SessionInv /\ [SessionNext]_sessionVars => SessionInv'
  BY SessionKept
<1>. QED
  BY <1>1, SessionInitInv, PTL DEF SessionSpec

(***************************************************************************)
(* Whatever calls overlap, expire and fail, a refresh token buys at most   *)
(* one pair for each call in flight, and none once it is spent and they    *)
(* are over.                                                               *)
(***************************************************************************)
THEOREM RotationIsAlwaysSound == SessionSpec => []RotationIsSound
<1>1. SessionInv => RotationIsSound
  <2> SUFFICES ASSUME SessionInv PROVE ExchangesAreBounded
    BY DEF SessionInv, RotationIsSound
  <2> SUFFICES ASSUME NEW t \in Pairs
               PROVE  /\ exchanged[t] <= Cardinality(Calls)
                      /\ exchanged[t] > 0 => refresh[t] = "spent"
    BY DEF ExchangesAreBounded
  <2>1. Cardinality(Presenting(t)) \in Nat /\ Cardinality(Calls) \in Nat
    BY CallsAreFinite DEF Presenting
  <2>2. exchanged[t] \in Nat
    BY DEF SessionInv, SessionTypeOK
  <2>. QED
    BY <2>1, <2>2 DEF SessionInv, ExchangesAreCounted
<1>. QED
  BY <1>1, SessionInvariant, PTL

(***************************************************************************)
(* What SuspensionBites promises to come about in the end, comes about     *)
(* call by call: those that were past the check of the account.            *)
(***************************************************************************)
Issuing == {c \in Calls : step[c] \in {"signin", "rotate", "reissue"}}

SessionsEnded == suspended /\ access = {} /\ Issuing = {}

SuspensionCloses ==
    suspended => /\ suspended'
                 /\ Issuing' \subseteq Issuing
                 /\ access' \subseteq access \/ Issuing' # Issuing

LEMMA ClosedByEveryStep ==
  ASSUME SessionTypeOK, [SessionNext]_sessionVars
  PROVE  SuspensionCloses
<1> SUFFICES ASSUME suspended
             PROVE  /\ suspended'
                    /\ Issuing' \subseteq Issuing
                    /\ access' \subseteq access \/ Issuing' # Issuing
  BY DEF SuspensionCloses
<1> USE DEF SessionTypeOK, auth, cookies, callVars, Issuing
<1>1. ASSUME NEW c \in Calls, Begin(c)
      PROVE  suspended' /\ Issuing' \subseteq Issuing /\ access' \subseteq access
  BY <1>1 DEF Begin, LogIn, Refresh, Logout, WebLogout, Suspend, Begins
<1>2. ASSUME NEW c \in Calls, SignIn(c) \/ Reissue(c)
      PROVE  suspended' /\ Issuing' \subseteq Issuing /\ Issuing' # Issuing
  <2>1. suspended' /\ GoesOn(c, "done") /\ c \in Issuing
    BY <1>2 DEF SignIn, Reissue
  <2>. QED
    BY <2>1 DEF GoesOn
<1>3. ASSUME NEW c \in Calls,
             \/ CheckUser(c) \/ Rotate(c) \/ FindByHash(c) \/ Revoke(c) \/ DeleteCookies(c)
             \/ UpdateStatus(c) \/ RevokeAllForUser(c) \/ CallFails(c)
      PROVE  suspended' /\ Issuing' \subseteq Issuing /\ access' \subseteq access
  BY <1>3 DEF CheckUser, Rotate, FindByHash, Revoke, DeleteCookies, UpdateStatus,
              RevokeAllForUser, CallFails, After, GoesOn
<1>4. CASE \/ \E t \in Pairs : AccessExpires(t) \/ RefreshExpires(t) \/ ForgetPair(t)
           \/ CookieExpires \/ UNCHANGED sessionVars
  BY <1>4 DEF AccessExpires, RefreshExpires, ForgetPair, CookieExpires, sessionVars
<1>. QED
  BY <1>1, <1>2, <1>3, <1>4 DEF SessionNext, Proceed

(***************************************************************************)
(* Once an account is suspended it stays so, and a token pair is issued    *)
(* only by a call that was past the check when it was, and once.           *)
(***************************************************************************)
THEOREM SuspensionAlwaysCloses == SessionSpec => [][SuspensionCloses]_sessionVars
<1>1. SessionInv /\ [SessionNext]_sessionVars => SuspensionCloses
  BY ClosedByEveryStep DEF SessionInv
<1>. QED
  BY <1>1, SessionInvariant, PTL DEF SessionSpec

(***************************************************************************)
(* When those calls are over and the access tokens have expired, the       *)
(* suspended account has no session and never gets one: the state that     *)
(* SuspensionBites promises to be reached is never left.                   *)
(***************************************************************************)
THEOREM SuspensionIsFinal == SessionSpec => [](SessionsEnded => []SessionsEnded)
<1>1. SessionInv /\ [SessionNext]_sessionVars /\ SessionsEnded => SessionsEnded'
  BY ClosedByEveryStep DEF SessionInv, SuspensionCloses, SessionsEnded
<1>. QED
  BY <1>1, SessionInvariant, PTL DEF SessionSpec

-----------------------------------------------------------------------------
(***************************************************************************)
(* Storefront.  By what the copy of the cart may differ from the cart,     *)
(* and who is behind an order that nobody pays.                            *)
(***************************************************************************)

(***************************************************************************)
(* Only the cart page has a pending line, and a copy to show; only the     *)
(* checkout page submits, and only a product's page adds.                  *)
(***************************************************************************)
PagesFit ==
    /\ pending # NoItem => page = "cart"
    /\ submitting => page = "checkout"
    /\ adding => page = "other"
    /\ page = "cart" => copied
    /\ ~copied => fetch = "idle"

(***************************************************************************)
(* The copy, or the one the refetch has read, differs from the server's    *)
(* cart only by what a call that was granted and has not settled changed.  *)
(***************************************************************************)
Granted == \E s \in Slots : phase[s] = "done" /\ op[s] \in CartOps

CopyFits ==
    /\ copied /\ fetch = "idle" /\ ~outdated /\ ~drift /\ ~Granted => cache = qty
    /\ fetch = "read" /\ ~drift /\ ~Granted => snap = qty

(***************************************************************************)
(* An initiation that was granted has its order; what acts late has a call *)
(* that failed or was cut off behind it, or an order on its way to be paid.*)
(***************************************************************************)
OrderFits ==
    \A s \in Slots :
        /\ op[s] = "initiate" /\ phase[s] = "done" => order = "initiated"
        /\ op[s] \in PayOps /\ phase[s] = "late" => failed \/ order = "initiated"

(***************************************************************************)
(* The inductive invariant: the three properties, and what they rest on.   *)
(***************************************************************************)
StorefrontInv ==
    /\ StorefrontTypeOK
    /\ PagesFit
    /\ ControlsComeBack
    /\ CopyFits
    /\ OrderFits
    /\ StrandedByFailure

(***************************************************************************)
(* The quantities of a cart and of its copy.                               *)
(***************************************************************************)
LEMMA QtysFacts ==
    /\ 0 \in Qtys /\ 1..MaxQty \subseteq Qtys
    /\ Qtys \subseteq Nat
    /\ Empty \in [Items -> Qtys]
<1>1. 0 \in Qtys /\ 1..MaxQty \subseteq Qtys /\ Qtys \subseteq Nat
  BY MaxQtyAssumption DEF Qtys
<1>. QED
  BY <1>1 DEF Empty

(***************************************************************************)
(* The site opens with no copy of the cart and nothing under way.          *)
(***************************************************************************)
LEMMA StorefrontInitInv == StorefrontInit => StorefrontInv
<1> SUFFICES ASSUME StorefrontInit PROVE StorefrontInv
  OBVIOUS
<1>1. StorefrontTypeOK
  BY QtysFacts, CartsAssumption DEF StorefrontInit, StorefrontTypeOK, Ops, CartOps, Qtys
<1>2. PagesFit /\ ControlsComeBack /\ CopyFits /\ OrderFits /\ StrandedByFailure
  BY DEF StorefrontInit, PagesFit, ControlsComeBack, CopyFits, OrderFits, StrandedByFailure
<1>. QED
  BY <1>1, <1>2 DEF StorefrontInv

(***************************************************************************)
(* A slot keeps its types when its call ends, or is only left behind.      *)
(***************************************************************************)
SlotsTyped ==
    /\ op \in [Slots -> Ops]
    /\ item \in [Slots -> Items \cup {NoItem}]
    /\ want \in [Slots -> Qtys]
    /\ \A s \in Slots : phase[s] \in {"sent", "late"} /\ op[s] = "change" => want[s] > 0
    /\ phase \in [Slots -> {"free", "sent", "done", "late"}]

LEMMA FreesTyped ==
  ASSUME StorefrontTypeOK, NEW s \in Slots, NEW to \in {"free", "late"},
         to = "late" => phase[s] = "sent", Frees(s, to)
  PROVE  SlotsTyped'
<1>1. CASE to = "free"
  BY <1>1, QtysFacts DEF StorefrontTypeOK, SlotsTyped, Frees, Ops, CartOps
<1>2. CASE to = "late"
  BY <1>2, QtysFacts DEF StorefrontTypeOK, SlotsTyped, Frees
<1>. QED
  BY <1>1, <1>2

LEMMA PressKeeps ==
  ASSUME StorefrontInv, NEW o \in {"change", "remove", "renew"}, NEW i \in Items,
         NEW n \in Qtys, o = "change" => n > 0, page = "cart", Press(o, i, n)
  PROVE  StorefrontInv'
<1> USE DEF StorefrontInv
<1>1. StorefrontTypeOK'
  BY QtysFacts, NoItemAssumption DEF StorefrontTypeOK, Ops, Press, Send, Free, CartOps, PayOps,
     server, query, pages, slots, history
<1>2. PagesFit' /\ ControlsComeBack'
  BY QtysFacts, NoItemAssumption DEF StorefrontTypeOK, PagesFit, ControlsComeBack,
     Awaited, Press, Send, Free, CartOps, PayOps, server, query, pages, slots, history
<1>3. CopyFits'
  BY QtysFacts, NoItemAssumption DEF StorefrontTypeOK, PagesFit, CopyFits, Granted,
     Press, Send, Free, CartOps, PayOps, server, query, pages, slots, history
<1>4. OrderFits' /\ StrandedByFailure'
  BY QtysFacts, NoItemAssumption DEF StorefrontTypeOK, OrderFits, StrandedByFailure,
     Press, Send, Free, CartOps, PayOps, server, query, pages, slots, history
<1>. QED
  BY <1>1, <1>2, <1>3, <1>4

LEMMA PayKeeps ==
  ASSUME StorefrontInv, Pay
  PROVE  StorefrontInv'
<1> USE DEF StorefrontInv
<1>1. StorefrontTypeOK'
  BY QtysFacts, NoItemAssumption DEF StorefrontTypeOK, Ops, Pay, Send, Free, CartOps,
     PayOps, server, query, pages, slots, history
<1>2. PagesFit' /\ ControlsComeBack'
  BY QtysFacts, NoItemAssumption DEF StorefrontTypeOK, PagesFit, ControlsComeBack,
     Awaited, Pay, Send, Free, CartOps, PayOps, server, query, pages, slots, history
<1>3. CopyFits'
  BY QtysFacts, NoItemAssumption DEF StorefrontTypeOK, PagesFit, CopyFits, Granted,
     Pay, Send, Free, CartOps, PayOps, server, query, pages, slots, history
<1>4. OrderFits' /\ StrandedByFailure'
  BY QtysFacts, NoItemAssumption DEF StorefrontTypeOK, OrderFits, StrandedByFailure,
     Pay, Send, Free, CartOps, PayOps, server, query, pages, slots, history
<1>. QED
  BY <1>1, <1>2, <1>3, <1>4

LEMMA AddKeeps ==
  ASSUME StorefrontInv, Add
  PROVE  StorefrontInv'
<1> USE DEF StorefrontInv
<1>1. StorefrontTypeOK'
  BY QtysFacts, NoItemAssumption DEF StorefrontTypeOK, Ops, Add, Send, Free, CartOps,
     PayOps, server, query, pages, slots, history
<1>2. PagesFit' /\ ControlsComeBack'
  BY QtysFacts, NoItemAssumption DEF StorefrontTypeOK, PagesFit, ControlsComeBack,
     Awaited, Add, Send, Free, CartOps, PayOps, server, query, pages, slots, history
<1>3. CopyFits'
  BY QtysFacts, NoItemAssumption DEF StorefrontTypeOK, PagesFit, CopyFits, Granted,
     Add, Send, Free, CartOps, PayOps, server, query, pages, slots, history
<1>4. OrderFits' /\ StrandedByFailure'
  BY QtysFacts, NoItemAssumption DEF StorefrontTypeOK, OrderFits, StrandedByFailure,
     Add, Send, Free, CartOps, PayOps, server, query, pages, slots, history
<1>. QED
  BY <1>1, <1>2, <1>3, <1>4

LEMMA ServeKeeps ==
  ASSUME StorefrontInv, NEW s \in Slots, Serve(s)
  PROVE  StorefrontInv'
<1> USE DEF StorefrontInv
<1>1. StorefrontTypeOK'
  <2>1. qty' \in [Items -> Qtys]
    <3>1. Empty \in [Items -> Qtys] /\ want[s] \in Qtys /\ qty \in [Items -> Qtys]
      BY QtysFacts DEF StorefrontTypeOK
    <3>2. \/ qty' \in {qty, Empty, [qty EXCEPT ![item[s]] = want[s]]}
          \/ \E i \in Items, n \in 1..MaxQty : qty' = [qty EXCEPT ![i] = n]
      BY DEF Serve, Grant, server
    <3>. QED
      BY <3>1, <3>2, QtysFacts
  <2>2. order' \in {"none", "unpaid", "initiated"}
    BY DEF Serve, Grant, StorefrontTypeOK, server
  <2>3. UNCHANGED <<query, pages>> /\ drift' \in BOOLEAN /\ failed' \in BOOLEAN
    BY DEF Serve, StorefrontTypeOK
  <2>4. CASE phase[s] = "late"
    BY <2>1, <2>2, <2>3, <2>4, QtysFacts
       DEF Serve, Ends, Frees, StorefrontTypeOK, Ops, CartOps, query, pages
  <2>5. CASE phase[s] # "late"
    BY <2>1, <2>2, <2>3, <2>5, QtysFacts DEF Serve, StorefrontTypeOK, query, pages
  <2>. QED
    BY <2>4, <2>5
<1>2. PagesFit' /\ ControlsComeBack'
  BY QtysFacts, NoItemAssumption DEF StorefrontTypeOK, PagesFit, ControlsComeBack,
     Awaited, Serve, Grant, Ends, Frees, CartOps, PayOps, server, query, pages, slots, history
<1>3. CopyFits'
  BY QtysFacts, NoItemAssumption DEF StorefrontTypeOK, PagesFit, CopyFits, Granted,
     Serve, Grant, Ends, Frees, CartOps, PayOps, server, query, pages, slots, history
<1>4. OrderFits' /\ StrandedByFailure'
  BY QtysFacts, NoItemAssumption DEF StorefrontTypeOK, OrderFits, StrandedByFailure,
     Serve, Grant, Ends, Frees, CartOps, PayOps, server, query, pages, slots, history
<1>. QED
  BY <1>1, <1>2, <1>3, <1>4

LEMMA LapseKeeps ==
  ASSUME StorefrontInv, NEW s \in Slots, Lapse(s)
  PROVE  StorefrontInv'
<1> USE DEF StorefrontInv
<1>1. StorefrontTypeOK'
  BY QtysFacts, NoItemAssumption DEF StorefrontTypeOK, Ops, Lapse, Ends, Frees,
     CartOps, PayOps, server, query, pages, slots, history
<1>2. PagesFit' /\ ControlsComeBack'
  BY QtysFacts, NoItemAssumption DEF StorefrontTypeOK, PagesFit, ControlsComeBack,
     Awaited, Lapse, Ends, Frees, CartOps, PayOps, server, query, pages, slots,
     history
<1>3. CopyFits'
  BY QtysFacts, NoItemAssumption DEF StorefrontTypeOK, PagesFit, CopyFits, Granted,
     Lapse, Ends, Frees, CartOps, PayOps, server, query, pages, slots, history
<1>4. OrderFits' /\ StrandedByFailure'
  BY QtysFacts, NoItemAssumption DEF StorefrontTypeOK, OrderFits, StrandedByFailure,
     Lapse, Ends, Frees, CartOps, PayOps, server, query, pages, slots, history
<1>. QED
  BY <1>1, <1>2, <1>3, <1>4

LEMMA SettleKeeps ==
  ASSUME StorefrontInv, NEW s \in Slots, Settle(s)
  PROVE  StorefrontInv'
<1> USE DEF StorefrontInv
<1>1. StorefrontTypeOK'
  BY QtysFacts, NoItemAssumption DEF StorefrontTypeOK, Ops, Settle, Outcome,
     Invalidate, Ends, Frees, Rest, CartOps, PayOps, server, query, pages, slots,
     history
<1>2. PagesFit' /\ ControlsComeBack'
  BY QtysFacts, NoItemAssumption DEF StorefrontTypeOK, PagesFit, ControlsComeBack,
     Awaited, Settle, Outcome, Invalidate, Ends, Frees, Rest, CartOps, PayOps, server,
     query, pages, slots, history
<1>3. CopyFits'
  BY QtysFacts, NoItemAssumption DEF StorefrontTypeOK, PagesFit, CopyFits, Granted,
     Settle, Outcome, Invalidate, Ends, Frees, Rest, CartOps, PayOps, server, query,
     pages, slots, history
<1>4. OrderFits' /\ StrandedByFailure'
  BY QtysFacts, NoItemAssumption DEF StorefrontTypeOK, OrderFits, StrandedByFailure,
     Settle, Outcome, Invalidate, Ends, Frees, Rest, CartOps, PayOps, server, query,
     pages, slots, history
<1>. QED
  BY <1>1, <1>2, <1>3, <1>4

LEMMA InitiateKeeps ==
  ASSUME StorefrontInv, NEW s \in Slots, Initiate(s)
  PROVE  StorefrontInv'
<1> USE DEF StorefrontInv
<1>1. StorefrontTypeOK'
  BY QtysFacts, NoItemAssumption DEF StorefrontTypeOK, Ops, Initiate, Outcome,
     CartOps, PayOps, server, query, pages, slots, history
<1>2. PagesFit' /\ ControlsComeBack'
  BY QtysFacts, NoItemAssumption DEF StorefrontTypeOK, PagesFit, ControlsComeBack,
     Awaited, Initiate, Outcome, CartOps, PayOps, server, query, pages, slots, history
<1>3. CopyFits'
  BY QtysFacts, NoItemAssumption DEF StorefrontTypeOK, PagesFit, CopyFits, Granted,
     Initiate, Outcome, CartOps, PayOps, server, query, pages, slots, history
<1>4. OrderFits' /\ StrandedByFailure'
  BY QtysFacts, NoItemAssumption DEF StorefrontTypeOK, OrderFits, StrandedByFailure,
     Initiate, Outcome, CartOps, PayOps, server, query, pages, slots, history
<1>. QED
  BY <1>1, <1>2, <1>3, <1>4

LEMMA RedirectKeeps ==
  ASSUME StorefrontInv, NEW s \in Slots, Redirect(s)
  PROVE  StorefrontInv'
<1> USE DEF StorefrontInv
<1>1. StorefrontTypeOK'
  BY QtysFacts, NoItemAssumption DEF StorefrontTypeOK, Ops, Redirect, Outcome, Visit, Frees,
     CartOps, PayOps, server, query, pages, slots, history
<1>2. PagesFit' /\ ControlsComeBack'
  BY QtysFacts, NoItemAssumption DEF StorefrontTypeOK, PagesFit, ControlsComeBack,
     Awaited, Redirect, Outcome, Visit, Frees, CartOps, PayOps, server, query, pages, slots, history
<1>3. CopyFits'
  <2>1. Granted => Granted'
    <3> SUFFICES ASSUME NEW r \in Slots, phase[r] = "done", op[r] \in CartOps
                 PROVE  Granted'
      BY DEF Granted
    <3>1. r # s
      BY DEF Redirect, CartOps
    <3>2. phase'[r] = "done" /\ op'[r] \in CartOps
      BY <3>1 DEF Redirect, Frees, StorefrontTypeOK
    <3>. QED
      BY <3>2 DEF Granted
  <2>2. UNCHANGED <<qty, copied, cache, outdated, fetch, snap, drift>>
    BY DEF Redirect, server, query, history
  <2>. QED
    BY <2>1, <2>2 DEF CopyFits
<1>4. OrderFits' /\ StrandedByFailure'
  BY QtysFacts, NoItemAssumption DEF StorefrontTypeOK, OrderFits, StrandedByFailure,
     Redirect, Outcome, Visit, Frees, CartOps, PayOps, server, query, pages, slots, history
<1>. QED
  BY <1>1, <1>2, <1>3, <1>4

LEMMA LeaveKeeps ==
  ASSUME StorefrontInv, NEW s \in Slots, Leave(s)
  PROVE  StorefrontInv'
<1> USE DEF StorefrontInv
<1>1. StorefrontTypeOK'
  BY QtysFacts, NoItemAssumption DEF StorefrontTypeOK, Ops, Leave, Unloaded, Visit,
     Outcome, CartOps, PayOps, server, query, pages, slots, history
<1>2. PagesFit' /\ ControlsComeBack'
  BY QtysFacts, NoItemAssumption DEF StorefrontTypeOK, PagesFit, ControlsComeBack,
     Awaited, Leave, Unloaded, Visit, Outcome, CartOps, PayOps, server, query, pages,
     slots, history
<1>3. CopyFits'
  BY QtysFacts, NoItemAssumption DEF StorefrontTypeOK, PagesFit, CopyFits, Granted,
     Leave, Unloaded, Visit, Outcome, CartOps, PayOps, server, query, pages, slots,
     history
<1>4. OrderFits' /\ StrandedByFailure'
  BY QtysFacts, NoItemAssumption DEF StorefrontTypeOK, OrderFits, StrandedByFailure,
     Leave, Unloaded, Visit, Outcome, CartOps, PayOps, server, query, pages, slots,
     history
<1>. QED
  BY <1>1, <1>2, <1>3, <1>4

LEMMA UnloadKeeps ==
  ASSUME StorefrontInv, Unload
  PROVE  StorefrontInv'
<1> USE DEF StorefrontInv
<1>1. StorefrontTypeOK'
  BY QtysFacts, NoItemAssumption DEF StorefrontTypeOK, Ops, Unload, Unloaded, Visit,
     CartOps, PayOps, server, query, pages, slots, history
<1>2. PagesFit' /\ ControlsComeBack'
  BY QtysFacts, NoItemAssumption DEF StorefrontTypeOK, PagesFit, ControlsComeBack,
     Awaited, Unload, Unloaded, Visit, CartOps, PayOps, server, query, pages, slots,
     history
<1>3. CopyFits'
  BY QtysFacts, NoItemAssumption DEF StorefrontTypeOK, PagesFit, CopyFits, Granted,
     Unload, Unloaded, Visit, CartOps, PayOps, server, query, pages, slots, history
<1>4. OrderFits' /\ StrandedByFailure'
  BY QtysFacts, NoItemAssumption DEF StorefrontTypeOK, OrderFits, StrandedByFailure,
     Unload, Unloaded, Visit, CartOps, PayOps, server, query, pages, slots, history
<1>. QED
  BY <1>1, <1>2, <1>3, <1>4

LEMMA PayFailsKeeps ==
  ASSUME StorefrontInv, NEW s \in Slots, PayFails(s)
  PROVE  StorefrontInv'
<1> USE DEF StorefrontInv
<1>1. StorefrontTypeOK'
  <2>1. SlotsTyped'
    BY FreesTyped DEF PayFails, Ends, Rest
  <2>2. submitting' \in BOOLEAN /\ failed' \in BOOLEAN /\ mine' \subseteq Slots
    BY DEF StorefrontTypeOK, PayFails, Ends
  <2>3. UNCHANGED <<server, query, page, pending, review, adding, drift>>
    BY DEF PayFails
  <2>. QED
    BY <2>1, <2>2, <2>3 DEF StorefrontTypeOK, SlotsTyped, server, query
<1>2. PagesFit' /\ ControlsComeBack'
  BY QtysFacts, NoItemAssumption DEF StorefrontTypeOK, PagesFit, ControlsComeBack,
     Awaited, PayFails, Outcome, Ends, Frees, Rest, CartOps, PayOps, server, query,
     pages, slots, history
<1>3. CopyFits'
  BY QtysFacts, NoItemAssumption DEF StorefrontTypeOK, PagesFit, CopyFits, Granted,
     PayFails, Outcome, Ends, Frees, Rest, CartOps, PayOps, server, query, pages,
     slots, history
<1>4. OrderFits' /\ StrandedByFailure'
  BY QtysFacts, NoItemAssumption DEF StorefrontTypeOK, OrderFits, StrandedByFailure,
     PayFails, Outcome, Ends, Frees, Rest, CartOps, PayOps, server, query, pages,
     slots, history
<1>. QED
  BY <1>1, <1>2, <1>3, <1>4

LEMMA AddFailsKeeps ==
  ASSUME StorefrontInv, NEW s \in Slots, AddFails(s)
  PROVE  StorefrontInv'
<1> USE DEF StorefrontInv
<1>1. StorefrontTypeOK'
  <2>1. SlotsTyped'
    BY FreesTyped DEF AddFails, Ends, Rest
  <2>2. adding' \in BOOLEAN /\ mine' \subseteq Slots
    BY DEF StorefrontTypeOK, AddFails, Ends
  <2>3. UNCHANGED <<server, query, page, pending, review, submitting, history>>
    BY DEF AddFails
  <2>. QED
    BY <2>1, <2>2, <2>3 DEF StorefrontTypeOK, SlotsTyped, server, query, history
<1>2. PagesFit' /\ ControlsComeBack'
  BY QtysFacts, NoItemAssumption DEF StorefrontTypeOK, PagesFit, ControlsComeBack,
     Awaited, AddFails, Outcome, Ends, Frees, Rest, CartOps, PayOps, server, query,
     pages, slots, history
<1>3. CopyFits'
  BY QtysFacts, NoItemAssumption DEF StorefrontTypeOK, PagesFit, CopyFits, Granted,
     AddFails, Outcome, Ends, Frees, Rest, CartOps, PayOps, server, query, pages,
     slots, history
<1>4. OrderFits' /\ StrandedByFailure'
  BY QtysFacts, NoItemAssumption DEF StorefrontTypeOK, OrderFits, StrandedByFailure,
     AddFails, Outcome, Ends, Frees, Rest, CartOps, PayOps, server, query, pages,
     slots, history
<1>. QED
  BY <1>1, <1>2, <1>3, <1>4

LEMMA AddedKeeps ==
  ASSUME StorefrontInv, NEW s \in Slots, Added(s)
  PROVE  StorefrontInv'
<1> USE DEF StorefrontInv
<1>1. StorefrontTypeOK'
  <2>1. SlotsTyped' /\ UNCHANGED <<server, failed>>
    BY FreesTyped DEF Added
  <2>2. CASE page = "cart"
    BY <2>1, <2>2 DEF Added, StorefrontTypeOK, SlotsTyped, server, query, pages
  <2>3. CASE page # "cart"
    <3>1. Visit("cart") /\ Mount /\ mine' = {} /\ UNCHANGED snap
      BY <2>3 DEF Added
    <3>2. /\ cache' \in [Items -> Qtys] /\ copied' \in BOOLEAN /\ outdated' \in BOOLEAN
          /\ fetch' \in {"idle", "asked", "read"} /\ drift' \in BOOLEAN
      BY <3>1, QtysFacts DEF Mount, StorefrontTypeOK
    <3>. QED
      BY <2>1, <3>1, <3>2 DEF Visit, StorefrontTypeOK, SlotsTyped, server
  <2>. QED
    BY <2>2, <2>3
<1>2. PagesFit' /\ ControlsComeBack'
  BY QtysFacts, NoItemAssumption DEF StorefrontTypeOK, PagesFit, ControlsComeBack,
     Awaited, Added, Outcome, Frees, Visit, Mount, CartOps, PayOps, server, query,
     pages, slots, history
<1>3. CopyFits'
  BY QtysFacts, NoItemAssumption DEF StorefrontTypeOK, PagesFit, CopyFits, Granted,
     Added, Outcome, Frees, Visit, Mount, CartOps, PayOps, server, query, pages,
     slots, history
<1>4. OrderFits' /\ StrandedByFailure'
  BY QtysFacts, NoItemAssumption DEF StorefrontTypeOK, OrderFits, StrandedByFailure,
     Added, Outcome, Frees, Visit, Mount, CartOps, PayOps, server, query, pages,
     slots, history
<1>. QED
  BY <1>1, <1>2, <1>3, <1>4

LEMMA OpenCheckoutKeeps ==
  ASSUME StorefrontInv, OpenCheckout
  PROVE  StorefrontInv'
<1> USE DEF StorefrontInv
<1>1. StorefrontTypeOK'
  BY QtysFacts, NoItemAssumption DEF StorefrontTypeOK, Ops, OpenCheckout, Visit,
     CartOps, PayOps, server, query, pages, slots, history
<1>2. PagesFit' /\ ControlsComeBack'
  BY QtysFacts, NoItemAssumption DEF StorefrontTypeOK, PagesFit, ControlsComeBack,
     Awaited, OpenCheckout, Visit, CartOps, PayOps, server, query, pages, slots,
     history
<1>3. CopyFits'
  BY QtysFacts, NoItemAssumption DEF StorefrontTypeOK, PagesFit, CopyFits, Granted,
     OpenCheckout, Visit, CartOps, PayOps, server, query, pages, slots, history
<1>4. OrderFits' /\ StrandedByFailure'
  BY QtysFacts, NoItemAssumption DEF StorefrontTypeOK, OrderFits, StrandedByFailure,
     OpenCheckout, Visit, CartOps, PayOps, server, query, pages, slots, history
<1>. QED
  BY <1>1, <1>2, <1>3, <1>4

LEMMA OpenOtherKeeps ==
  ASSUME StorefrontInv, OpenOther
  PROVE  StorefrontInv'
<1> USE DEF StorefrontInv
<1>1. StorefrontTypeOK'
  BY QtysFacts, NoItemAssumption DEF StorefrontTypeOK, Ops, OpenOther, Visit, CartOps,
     PayOps, server, query, pages, slots, history
<1>2. PagesFit' /\ ControlsComeBack'
  BY QtysFacts, NoItemAssumption DEF StorefrontTypeOK, PagesFit, ControlsComeBack,
     Awaited, OpenOther, Visit, CartOps, PayOps, server, query, pages, slots, history
<1>3. CopyFits'
  BY QtysFacts, NoItemAssumption DEF StorefrontTypeOK, PagesFit, CopyFits, Granted,
     OpenOther, Visit, CartOps, PayOps, server, query, pages, slots, history
<1>4. OrderFits' /\ StrandedByFailure'
  BY QtysFacts, NoItemAssumption DEF StorefrontTypeOK, OrderFits, StrandedByFailure,
     OpenOther, Visit, CartOps, PayOps, server, query, pages, slots, history
<1>. QED
  BY <1>1, <1>2, <1>3, <1>4

LEMMA OpenCartKeeps ==
  ASSUME StorefrontInv, OpenCart
  PROVE  StorefrontInv'
<1> USE DEF StorefrontInv
<1>1. StorefrontTypeOK'
  BY QtysFacts, NoItemAssumption DEF StorefrontTypeOK, Ops, OpenCart, Visit, Mount,
     CartOps, PayOps, server, query, pages, slots, history
<1>2. PagesFit' /\ ControlsComeBack'
  BY QtysFacts, NoItemAssumption DEF StorefrontTypeOK, PagesFit, ControlsComeBack,
     Awaited, OpenCart, Visit, Mount, CartOps, PayOps, server, query, pages, slots,
     history
<1>3. CopyFits'
  BY QtysFacts, NoItemAssumption DEF StorefrontTypeOK, PagesFit, CopyFits, Granted,
     OpenCart, Visit, Mount, CartOps, PayOps, server, query, pages, slots, history
<1>4. OrderFits' /\ StrandedByFailure'
  BY QtysFacts, NoItemAssumption DEF StorefrontTypeOK, OrderFits, StrandedByFailure,
     OpenCart, Visit, Mount, CartOps, PayOps, server, query, pages, slots, history
<1>. QED
  BY <1>1, <1>2, <1>3, <1>4

LEMMA AgesKeeps ==
  ASSUME StorefrontInv, Ages
  PROVE  StorefrontInv'
<1> USE DEF StorefrontInv
<1>1. StorefrontTypeOK'
  BY QtysFacts, NoItemAssumption DEF StorefrontTypeOK, Ops, Ages, CartOps, PayOps,
     server, query, pages, slots, history
<1>2. PagesFit' /\ ControlsComeBack'
  BY QtysFacts, NoItemAssumption DEF StorefrontTypeOK, PagesFit, ControlsComeBack,
     Awaited, Ages, CartOps, PayOps, server, query, pages, slots, history
<1>3. CopyFits'
  BY QtysFacts, NoItemAssumption DEF StorefrontTypeOK, PagesFit, CopyFits, Granted,
     Ages, CartOps, PayOps, server, query, pages, slots, history
<1>4. OrderFits' /\ StrandedByFailure'
  BY QtysFacts, NoItemAssumption DEF StorefrontTypeOK, OrderFits, StrandedByFailure,
     Ages, CartOps, PayOps, server, query, pages, slots, history
<1>. QED
  BY <1>1, <1>2, <1>3, <1>4

LEMMA CollectKeeps ==
  ASSUME StorefrontInv, Collect
  PROVE  StorefrontInv'
<1> USE DEF StorefrontInv
<1>1. StorefrontTypeOK'
  BY QtysFacts, NoItemAssumption DEF StorefrontTypeOK, Ops, Collect, CartOps, PayOps,
     server, query, pages, slots, history
<1>2. PagesFit' /\ ControlsComeBack'
  BY QtysFacts, NoItemAssumption DEF StorefrontTypeOK, PagesFit, ControlsComeBack,
     Awaited, Collect, CartOps, PayOps, server, query, pages, slots, history
<1>3. CopyFits'
  BY QtysFacts, NoItemAssumption DEF StorefrontTypeOK, PagesFit, CopyFits, Granted,
     Collect, CartOps, PayOps, server, query, pages, slots, history
<1>4. OrderFits' /\ StrandedByFailure'
  BY QtysFacts, NoItemAssumption DEF StorefrontTypeOK, OrderFits, StrandedByFailure,
     Collect, CartOps, PayOps, server, query, pages, slots, history
<1>. QED
  BY <1>1, <1>2, <1>3, <1>4

LEMMA ReadKeeps ==
  ASSUME StorefrontInv, Read
  PROVE  StorefrontInv'
<1> USE DEF StorefrontInv
<1>1. StorefrontTypeOK'
  BY QtysFacts, NoItemAssumption DEF StorefrontTypeOK, Ops, Read, CartOps, PayOps,
     server, query, pages, slots, history
<1>2. PagesFit' /\ ControlsComeBack'
  BY QtysFacts, NoItemAssumption DEF StorefrontTypeOK, PagesFit, ControlsComeBack,
     Awaited, Read, CartOps, PayOps, server, query, pages, slots, history
<1>3. CopyFits'
  BY QtysFacts, NoItemAssumption DEF StorefrontTypeOK, PagesFit, CopyFits, Granted,
     Read, CartOps, PayOps, server, query, pages, slots, history
<1>4. OrderFits' /\ StrandedByFailure'
  BY QtysFacts, NoItemAssumption DEF StorefrontTypeOK, OrderFits, StrandedByFailure,
     Read, CartOps, PayOps, server, query, pages, slots, history
<1>. QED
  BY <1>1, <1>2, <1>3, <1>4

LEMMA TakeKeeps ==
  ASSUME StorefrontInv, Take
  PROVE  StorefrontInv'
<1> USE DEF StorefrontInv
<1>1. StorefrontTypeOK'
  BY QtysFacts, NoItemAssumption DEF StorefrontTypeOK, Ops, Take, CartOps, PayOps,
     server, query, pages, slots, history
<1>2. PagesFit' /\ ControlsComeBack'
  BY QtysFacts, NoItemAssumption DEF StorefrontTypeOK, PagesFit, ControlsComeBack,
     Awaited, Take, CartOps, PayOps, server, query, pages, slots, history
<1>3. CopyFits'
  BY QtysFacts, NoItemAssumption DEF StorefrontTypeOK, PagesFit, CopyFits, Granted,
     Take, CartOps, PayOps, server, query, pages, slots, history
<1>4. OrderFits' /\ StrandedByFailure'
  BY QtysFacts, NoItemAssumption DEF StorefrontTypeOK, OrderFits, StrandedByFailure,
     Take, CartOps, PayOps, server, query, pages, slots, history
<1>. QED
  BY <1>1, <1>2, <1>3, <1>4

LEMMA ReadFailsKeeps ==
  ASSUME StorefrontInv, ReadFails
  PROVE  StorefrontInv'
<1> USE DEF StorefrontInv
<1>1. StorefrontTypeOK'
  BY QtysFacts, NoItemAssumption DEF StorefrontTypeOK, Ops, ReadFails, CartOps,
     PayOps, server, query, pages, slots, history
<1>2. PagesFit' /\ ControlsComeBack'
  BY QtysFacts, NoItemAssumption DEF StorefrontTypeOK, PagesFit, ControlsComeBack,
     Awaited, ReadFails, CartOps, PayOps, server, query, pages, slots, history
<1>3. CopyFits'
  BY QtysFacts, NoItemAssumption DEF StorefrontTypeOK, PagesFit, CopyFits, Granted,
     ReadFails, CartOps, PayOps, server, query, pages, slots, history
<1>4. OrderFits' /\ StrandedByFailure'
  BY QtysFacts, NoItemAssumption DEF StorefrontTypeOK, OrderFits, StrandedByFailure,
     ReadFails, CartOps, PayOps, server, query, pages, slots, history
<1>. QED
  BY <1>1, <1>2, <1>3, <1>4

LEMMA StorefrontNextInv == StorefrontInv /\ [StorefrontNext]_storefrontVars => StorefrontInv'
<1> SUFFICES ASSUME StorefrontInv, [StorefrontNext]_storefrontVars PROVE StorefrontInv'
  OBVIOUS
<1>1. CASE Presses
  <2> SUFFICES ASSUME NEW i \in Items, NEW n \in Qtys \cup {MaxQty + 1},
                      Remove(i) \/ Renew(i) \/ Step(i, n)
               PROVE  StorefrontInv'
    BY <1>1, MaxQtyAssumption DEF Presses, Qtys
  <2>1. 0 \in Qtys /\ 1..MaxQty \subseteq Qtys
    BY MaxQtyAssumption DEF Qtys
  <2>2. CASE Remove(i) \/ Renew(i)
    BY <2>1, <2>2, PressKeeps DEF Remove, Renew, Enabled
  <2>3. CASE Step(i, n)
    <3>1. n \in Qtys /\ n > 0 /\ page = "cart" /\ Press("change", i, n)
      BY <2>1, <2>3, MaxQtyAssumption DEF Step, Enabled
    <3>. QED
      BY <3>1, PressKeeps
  <2>. QED
    BY <2>2, <2>3
<1>2. CASE UNCHANGED storefrontVars
  BY <1>2 DEF storefrontVars, server, query, pages, slots, history, StorefrontInv,
              StorefrontTypeOK, PagesFit, ControlsComeBack, Awaited, CopyFits, Granted,
              OrderFits, StrandedByFailure
<1>. QED
  BY <1>1, <1>2, PayKeeps, AddKeeps, ServeKeeps, LapseKeeps, SettleKeeps, InitiateKeeps, RedirectKeeps,
     LeaveKeeps, UnloadKeeps, PayFailsKeeps, AddFailsKeeps, AddedKeeps,
     OpenCheckoutKeeps, OpenOtherKeeps, OpenCartKeeps, AgesKeeps, CollectKeeps, ReadKeeps,
     TakeKeeps, ReadFailsKeeps
     DEF StorefrontNext, Returns

(***************************************************************************)
(* The inductive invariant of the site.                                    *)
(***************************************************************************)
THEOREM StorefrontInvariant == StorefrontSpec => []StorefrontInv
  BY StorefrontInitInv, StorefrontNextInv, PTL DEF StorefrontSpec

(***************************************************************************)
(* For any lines and any number of calls in flight: a control of the cart, *)
(* of the checkout or of a product's page is disabled only while a call of *)
(* the page is under way, however the calls overlap, fail and come back    *)
(* late, and whichever page is opened, left or unloaded meanwhile.         *)
(***************************************************************************)
THEOREM ControlsAreAlwaysSound == StorefrontSpec => []ControlsAreSound
<1>1. StorefrontInv => ControlsAreSound
  BY DEF StorefrontInv, ControlsAreSound
<1>. QED
  BY <1>1, StorefrontInvariant, PTL

(***************************************************************************)
(* For any lines, quantities and number of calls: a cart page at rest      *)
(* whose copy is not stale shows the server's cart.  Excepted are, until a *)
(* refetch reads the cart, what changes it without invalidating the copy   *)
(* (an addition, a checkout, an execution after the 504), a cart that      *)
(* could not be read, and a fetch under way behind the page when a change  *)
(* settled.                                                                *)
(***************************************************************************)
THEOREM ViewIsAlwaysCurrent == StorefrontSpec => []ViewIsCurrent
<1>1. StorefrontInv => ViewIsCurrent
  BY DEF StorefrontInv, StorefrontTypeOK, PagesFit, CopyFits, Granted, ViewIsCurrent, AtRest
<1>. QED
  BY <1>1, StorefrontInvariant, PTL

(***************************************************************************)
(* For any number of calls in flight: an order that nobody is on the way   *)
(* to pay comes of a call of pay that failed or that an unload of the site *)
(* cut off; leaving the page within the site strands none.                 *)
(***************************************************************************)
THEOREM OnlyFailureStrands == StorefrontSpec => []StrandedByFailure
<1>1. StorefrontInv => StrandedByFailure
  BY DEF StorefrontInv
<1>. QED
  BY <1>1, StorefrontInvariant, PTL

-----------------------------------------------------------------------------
(***************************************************************************)
(* Gateway.  Which routes a path can match, what the decision lets         *)
(* through, and how many requests a window does.                           *)
(***************************************************************************)
USE LimitsAssumption, InputsAssumption

(***************************************************************************)
(* A path that matches a pattern is as long, and each of its segments is   *)
(* the pattern's unless that is a parameter.                               *)
(***************************************************************************)
LEMMA MatchOne ==
    \A a, p : matchPattern(<<a>>, p) => Len(p) = 1 /\ a \in {":id", p[1]}
BY DEF matchPattern

LEMMA MatchTwo ==
    \A a, b, p : matchPattern(<<a, b>>, p) =>
        Len(p) = 2 /\ a \in {":id", p[1]} /\ b \in {":id", p[2]}
BY DEF matchPattern

LEMMA MatchThree ==
    \A a, b, c, p : matchPattern(<<a, b, c>>, p) =>
        /\ Len(p) = 3
        /\ a \in {":id", p[1]} /\ b \in {":id", p[2]} /\ c \in {":id", p[3]}
BY DEF matchPattern

LEMMA MatchFour ==
    \A a, b, c, d, p : matchPattern(<<a, b, c, d>>, p) =>
        /\ Len(p) = 4
        /\ a \in {":id", p[1]} /\ b \in {":id", p[2]} /\ c \in {":id", p[3]}
        /\ d \in {":id", p[4]}
BY DEF matchPattern

LEMMA MatchFive ==
    \A a, b, c, d, e, p : matchPattern(<<a, b, c, d, e>>, p) =>
        /\ Len(p) = 5
        /\ a \in {":id", p[1]} /\ b \in {":id", p[2]} /\ c \in {":id", p[3]}
        /\ d \in {":id", p[4]} /\ e \in {":id", p[5]}
BY DEF matchPattern

(***************************************************************************)
(* No path is of two routes of the table.                                  *)
(***************************************************************************)
LEMMA RoutesAreApart ==
    ASSUME NEW m, NEW p, NEW r \in Matches(m, p), NEW s \in Matches(m, p)
    PROVE  r = s
BY MatchOne, MatchTwo, MatchThree, MatchFour, MatchFive
   DEF Matches, ROUTE_TABLE, Open, For

LEMMA RouteIsFound ==
    ASSUME NEW m, NEW p, NEW r \in Matches(m, p)
    PROVE  matchRoute(m, p) = r
<1>1. matchRoute(m, p) \in Matches(m, p)
  BY DEF matchRoute
<1>. QED  BY <1>1, RoutesAreApart

LEMMA MatchesAreFew ==
    ASSUME NEW m, NEW p
    PROVE  Cardinality(Matches(m, p)) <= 1
<1>1. CASE Matches(m, p) = {}
  BY <1>1, FS_EmptySet
<1>2. CASE Matches(m, p) # {}
  <2>1. PICK r \in Matches(m, p) : TRUE
    BY <1>2
  <2>2. Matches(m, p) = {r}
    BY <2>1, RoutesAreApart
  <2>3. Cardinality({r}) = 1
    BY FS_Singleton
  <2>. QED  BY <2>2, <2>3
<1>. QED  BY <1>1, <1>2

LEMMA RoutesFit ==
    ASSUME NEW r \in ROUTE_TABLE
    PROVE  /\ r.auth \in {"public", "authenticated"}
           /\ r.allowedRoles \subseteq Roles
BY DEF ROUTE_TABLE, Open, For, Roles, Admin, Supplier, Retailer, SupplierOrAdmin

(***************************************************************************)
(* A request that is forwarded was asked for by somebody who may, and the  *)
(* service is told by whom; one that is not has its refusal.               *)
(***************************************************************************)
LEMMA ForwardedMayCall ==
    ASSUME NEW x \in Inputs, Decision(x) = 0
    PROVE  MayCall(x) /\ Identity(x) = Caller(x) /\ Identity(x) \in Roles \cup {"none"}
<1>. DEFINE route == matchRoute(x.method, x.path)
<1>1. /\ Matches(x.method, x.path) # {}
      /\ authenticate(route, x) /\ authorize(route, x)
  BY DEF Decision, gateway
<1>2. route \in Matches(x.method, x.path)
  BY <1>1 DEF matchRoute
<1>3. /\ route \in ROUTE_TABLE /\ route.method = x.method
      /\ matchPattern(route.pattern, x.path)
      /\ route.auth \in {"public", "authenticated"}
      /\ route.allowedRoles \subseteq Roles
  BY <1>2, RoutesFit DEF Matches
<1>4. MayCall(x)
  BY <1>1, <1>3 DEF MayCall, authorize
<1>. DEFINE y == [x EXCEPT !.token = "none"]
<1>5. y.method = x.method /\ y.path = x.path /\ y.token = "none"
  BY DEF GatewayRequests
<1>6. \A r \in ROUTE_TABLE : r.method = x.method /\ matchPattern(r.pattern, x.path) => r = route
  BY <1>2, RoutesAreApart DEF Matches
<1>7. MayCall(y) <=> route.auth = "public"
  BY <1>3, <1>5, <1>6 DEF MayCall, Roles
<1>8. Identity(x) = Caller(x)
  BY <1>7 DEF Identity, Caller
<1>9. Identity(x) \in Roles \cup {"none"}
  BY <1>1, <1>3 DEF Identity, authenticate
<1>. QED  BY <1>4, <1>8, <1>9

LEMMA DecisionsAreCodes ==
    ASSUME NEW x
    PROVE  Decision(x) \in {0, 400, 401, 403, 404, 413}
BY DEF Decision, gateway

-----------------------------------------------------------------------------
(***************************************************************************)
(* Requests.  A request is executed at most once and only when it was      *)
(* forwarded; until it is, nobody is told of it.                           *)
(***************************************************************************)
RequestsFit ==
    /\ clock \in Times
    /\ stage \in [Ids -> Stages]
    /\ req \in [Ids -> Inputs]
    /\ answer \in [Ids -> Codes]
    /\ seen \in [Ids -> Roles \cup {"none"}]
    /\ runs \in [Ids -> 0..1]

AnswersFit ==
    \A i \in Ids :
        /\ stage[i] \in {"none", "reading"} => answer[i] = 0 /\ runs[i] = 0
        /\ stage[i] = "forwarded" => answer[i] = 0
        /\ \/ stage[i] = "forwarded"
           \/ stage[i] = "answered" /\ answer[i] \in {200, 502, 504}
           => Decision(req[i]) = 0 /\ seen[i] = Identity(req[i])
        /\ runs[i] > 0 => \/ stage[i] = "forwarded"
                          \/ stage[i] = "answered" /\ answer[i] \in {200, 502, 504}
        /\ answer[i] = 200 => runs[i] = 1

LEMMA RequestsStart ==
    ASSUME GatewayInit
    PROVE  RequestsFit /\ AnswersFit
<1>1. 1 \in Times
  BY DEF Times
<1>2. (CHOOSE x \in Inputs : TRUE) \in Inputs
  OBVIOUS
<1>3. RequestsFit
  BY <1>1, <1>2 DEF GatewayInit, RequestsFit, Stages, Codes
<1>4. AnswersFit
  BY DEF GatewayInit, AnswersFit
<1>. QED  BY <1>3, <1>4

LEMMA RequestsKept ==
    ASSUME RequestsFit, AnswersFit, [GatewayNext]_gatewayVars
    PROVE  RequestsFit' /\ AnswersFit'
<1>. USE DEF RequestsFit, AnswersFit
<1>1. CASE ClockTicks
  BY <1>1 DEF ClockTicks, Times, limits
<1>2. ASSUME NEW i \in Ids, NEW x \in Inputs, NEW c \in Clients, Arrive(i, x, c)
      PROVE  RequestsFit' /\ AnswersFit'
  BY <1>2 DEF Arrive, Moves, Stages, Codes
<1>3. ASSUME NEW i \in Ids, Refuse(i)
      PROVE  RequestsFit' /\ AnswersFit'
  <2>1. PICK code \in {400, 401, 403, 404, 413} : code = Decision(req[i])
    BY <1>3, DecisionsAreCodes DEF Refuse
  <2>. QED  BY <1>3, <2>1 DEF Refuse, Moves, Stages, Codes
<1>4. ASSUME NEW i \in Ids, Forward(i)
      PROVE  RequestsFit' /\ AnswersFit'
  <2>1. Identity(req[i]) \in Roles \cup {"none"}
    BY <1>4, ForwardedMayCall DEF Forward
  <2>. QED  BY <1>4, <2>1 DEF Forward, Moves, Stages, Codes
<1>5. ASSUME NEW i \in Ids, Execute(i)
      PROVE  RequestsFit' /\ AnswersFit'
  BY <1>5 DEF Execute
<1>6. ASSUME NEW i \in Ids, Relay(i) \/ GiveUp(i)
      PROVE  RequestsFit' /\ AnswersFit'
  BY <1>6 DEF Relay, GiveUp, Moves, Stages, Codes
<1>7. ASSUME NEW i \in Ids, Forget(i)
      PROVE  RequestsFit' /\ AnswersFit'
  <2>1. (CHOOSE x \in Inputs : TRUE) \in Inputs
    OBVIOUS
  <2>. QED  BY <1>7, <2>1 DEF Forget, Moves, Stages, Codes
<1>8. CASE UNCHANGED gatewayVars
  BY <1>8 DEF gatewayVars
<1>. QED  BY <1>1, <1>2, <1>3, <1>4, <1>5, <1>6, <1>7, <1>8 DEF GatewayNext

-----------------------------------------------------------------------------
(***************************************************************************)
(* Counting what passed: f[t] requests at each instant t.                  *)
(***************************************************************************)
PassesOf(f, T) == UNION {{t} \X (1..f[t]) : t \in T}
Total(f, T) == Cardinality(PassesOf(f, T))

LEMMA PassesOfAre ==
    ASSUME NEW f, NEW T, NEW q
    PROVE  q \in PassesOf(f, T) <=> \E t \in T : q \in {t} \X (1..f[t])
BY DEF PassesOf

LEMMA TimesAreFinite ==
    ASSUME NEW T \in SUBSET Times
    PROVE  IsFiniteSet(T)
<1>1. IsFiniteSet(Times)
  BY FS_Interval DEF Times
<1>. QED  BY <1>1, FS_Subset

LEMMA PassesAreFinite ==
    ASSUME NEW f \in [Times -> Nat], NEW T \in SUBSET Times
    PROVE  IsFiniteSet(PassesOf(f, T)) /\ Total(f, T) \in Nat
<1>. DEFINE slice == [t \in T |-> {t} \X (1..f[t])]
            S == {{t} \X (1..f[t]) : t \in T}
<1>1. slice \in Surjection(T, S)
  BY DEF Surjection
<1>2. IsFiniteSet(S)
  BY <1>1, TimesAreFinite, FS_Surjection
<1>3. ASSUME NEW t \in T
      PROVE  IsFiniteSet({t} \X (1..f[t]))
  <2>1. IsFiniteSet({t})
    BY FS_Singleton
  <2>2. f[t] \in Nat
    OBVIOUS
  <2>3. IsFiniteSet(1..f[t])
    BY <2>2, FS_Interval
  <2>. QED  BY <2>1, <2>3, FS_Product
<1>4. IsFiniteSet(UNION S)
  BY <1>2, <1>3, FS_UNION
<1>. QED  BY <1>4, FS_CardinalityType DEF PassesOf, Total

LEMMA TotalGrows ==
    ASSUME NEW f \in [Times -> Nat], NEW T \in SUBSET Times, NEW U \in SUBSET T
    PROVE  Total(f, U) <= Total(f, T)
<1>1. PassesOf(f, U) \subseteq PassesOf(f, T)
  BY PassesOfAre
<1>. QED  BY <1>1, PassesAreFinite, FS_Subset DEF Total

LEMMA TotalSplits ==
    ASSUME NEW f \in [Times -> Nat], NEW T \in SUBSET Times, NEW U \in SUBSET Times
    PROVE  Total(f, T \cup U) <= Total(f, T) + Total(f, U)
<1>1. PassesOf(f, T \cup U) = PassesOf(f, T) \cup PassesOf(f, U)
  BY PassesOfAre
<1>2. IsFiniteSet(PassesOf(f, T)) /\ IsFiniteSet(PassesOf(f, U))
      /\ Total(f, T) \in Nat /\ Total(f, U) \in Nat
  BY PassesAreFinite
<1>3. Cardinality(PassesOf(f, T) \cap PassesOf(f, U)) \in Nat
  BY <1>2, FS_Subset, FS_CardinalityType
<1>4. Cardinality(PassesOf(f, T) \cup PassesOf(f, U)) =
          Cardinality(PassesOf(f, T)) + Cardinality(PassesOf(f, U))
              - Cardinality(PassesOf(f, T) \cap PassesOf(f, U))
  BY <1>2, FS_Union
<1>5. Total(f, T \cup U) = Total(f, T) + Total(f, U)
                                  - Cardinality(PassesOf(f, T) \cap PassesOf(f, U))
  BY <1>1, <1>4 DEF Total
<1>6. PICK n \in Nat : n = Cardinality(PassesOf(f, T) \cap PassesOf(f, U))
  BY <1>3
<1>7. Total(f, T \cup U) = Total(f, T) + Total(f, U) - n
  BY <1>5, <1>6

<1>. QED  BY <1>2, <1>7

LEMMA TotalOfNothing ==
    ASSUME NEW f \in [Times -> Nat], NEW T \in SUBSET Times, \A t \in T : f[t] = 0
    PROVE  Total(f, T) = 0
<1>1. PassesOf(f, T) = {}
  BY DEF PassesOf
<1>. QED  BY <1>1, FS_EmptySet DEF Total

LEMMA TotalWithOut ==
    ASSUME NEW f \in [Times -> Nat], NEW T \in SUBSET Times, NEW U \in SUBSET T,
           NEW t \in T \ U, f[t] >= 1
    PROVE  Total(f, U) <= Total(f, T) - 1
<1>1. PassesOf(f, U) \subseteq PassesOf(f, T)
  BY PassesOfAre
<1>2. <<t, 1>> \in PassesOf(f, T)
  BY PassesOfAre
<1>3. <<t, 1>> \notin PassesOf(f, U)
  BY PassesOfAre
<1>4. PassesOf(f, U) \subseteq PassesOf(f, T) \ {<<t, 1>>}
  BY <1>1, <1>3
<1>5. IsFiniteSet(PassesOf(f, T)) /\ Total(f, T) \in Nat
  BY PassesAreFinite
<1>6. /\ IsFiniteSet(PassesOf(f, T) \ {<<t, 1>>})
      /\ Cardinality(PassesOf(f, T) \ {<<t, 1>>}) = Total(f, T) - 1
  BY <1>2, <1>5, FS_RemoveElement DEF Total
<1>. QED  BY <1>4, <1>6, FS_Subset DEF Total

OneMore(f, t) == [f EXCEPT ![t] = @ + 1]

LEMMA TotalOneMore ==
    ASSUME NEW f \in [Times -> Nat], NEW T \in SUBSET Times, NEW t \in Times
    PROVE  /\ OneMore(f, t) \in [Times -> Nat]
           /\ Total(OneMore(f, t), T) = IF t \in T THEN Total(f, T) + 1 ELSE Total(f, T)
<1>. DEFINE g == OneMore(f, t)
<1>1. g \in [Times -> Nat] /\ g[t] = f[t] + 1 /\ \A u \in Times \ {t} : g[u] = f[u]
  BY DEF OneMore
<1>. HIDE DEF g
<1>2. CASE t \notin T
  <2>0. \A u \in T : g[u] = f[u]
    BY <1>1, <1>2
  <2>1. PassesOf(g, T) = PassesOf(f, T)
    BY <2>0, Zenon DEF PassesOf
  <2>. QED  BY <1>1, <1>2, <2>1 DEF Total, g
<1>3. CASE t \in T
  <2>1. f[t] \in Nat /\ (1..g[t]) = (1..f[t]) \cup {f[t] + 1}
    BY <1>1
  <2>2. PassesOf(g, T) = PassesOf(f, T) \cup {<<t, f[t] + 1>>}
    <3>1. ASSUME NEW q \in PassesOf(g, T)
          PROVE  q \in PassesOf(f, T) \cup {<<t, f[t] + 1>>}
      <4>1. PICK u \in T : q \in {u} \X (1..g[u])
        BY <3>1, PassesOfAre
      <4>. QED  BY <1>1, <2>1, <4>1, PassesOfAre
    <3>2. ASSUME NEW q \in PassesOf(f, T)
          PROVE  q \in PassesOf(g, T)
      <4>1. PICK u \in T : q \in {u} \X (1..f[u])
        BY <3>2, PassesOfAre
      <4>2. q \in {u} \X (1..g[u])
        BY <1>1, <2>1, <4>1
      <4>. QED  BY <4>2, PassesOfAre
    <3>3. <<t, f[t] + 1>> \in PassesOf(g, T)
      BY <1>3, <2>1, PassesOfAre
    <3>. QED  BY <3>1, <3>2, <3>3
  <2>3. <<t, f[t] + 1>> \notin PassesOf(f, T)
    BY <2>1, PassesOfAre
  <2>4. IsFiniteSet(PassesOf(f, T))
    BY PassesAreFinite
  <2>5. Cardinality(PassesOf(g, T)) = Cardinality(PassesOf(f, T)) + 1
    BY <2>2, <2>3, <2>4, FS_AddElement
  <2>. QED  BY <1>1, <1>3, <2>5 DEF Total, g
<1>. QED  BY <1>2, <1>3

(***************************************************************************)
(* One limiter and one client: f of what passed, r the end of the window,  *)
(* n its count, c the clock, m the limit and w the length of the window.   *)
(* A window opens with a request that passes; from then on at most m pass, *)
(* and in the window's length before it at most m - 1 did.                 *)
(***************************************************************************)
Since(o) == {u \in Times : o <= u}
Before(o, w) == {u \in Times : o - w < u /\ u < o}
Within(t, w) == {u \in Times : t <= u /\ u < t + w}

RateFits(f, r, n, c, m, w) ==
    /\ f \in [Times -> Nat] /\ r \in Nat /\ n \in Nat
    /\ \A u \in Times : u > c \/ u >= r => f[u] = 0
    /\ r # 0 =>
         LET o == r - w IN
         /\ o \in Times /\ o <= c
         /\ f[o] >= 1
         /\ Total(f, Since(o)) <= n /\ Total(f, Since(o)) <= m
         /\ Total(f, Before(o, w)) <= m - 1
    /\ \A t \in Times : Total(f, Within(t, w)) <= 2 * m - 1

LEMMA RateStarts ==
    ASSUME NEW f \in [Times -> Nat], NEW m \in Nat \ {0}, NEW w \in Nat \ {0},
           \A t \in Times : f[t] = 0
    PROVE  RateFits(f, 0, 0, 1, m, w)
<1>1. \A t \in Times : Total(f, Within(t, w)) = 0
  BY TotalOfNothing DEF Within
<1>. QED  BY <1>1 DEF RateFits

LEMMA RateTicks ==
    ASSUME NEW f, NEW r, NEW n, NEW c \in Times, NEW m \in Nat \ {0}, NEW w \in Nat \ {0},
           RateFits(f, r, n, c, m, w)
    PROVE  RateFits(f, r, n, c + 1, m, w)
<1>1. c \in Nat /\ Times \subseteq Nat
  BY DEF Times
<1>. QED  BY <1>1 DEF RateFits

(***************************************************************************)
(* The first request of a window.                                          *)
(***************************************************************************)
LEMMA RateOpens ==
    ASSUME NEW f, NEW r, NEW n, NEW c \in Times, NEW m \in Nat \ {0}, NEW w \in Nat \ {0},
           RateFits(f, r, n, c, m, w),
           r <= c
    PROVE  RateFits(OneMore(f, c), c + w, 1, c, m, w)
<1>. DEFINE g == OneMore(f, c)
            s == c + w
<1>1. f \in [Times -> Nat] /\ r \in Nat /\ n \in Nat
  BY DEF RateFits
<1>2. Times \subseteq Nat \ {0} /\ w \in Nat \ {0}
  BY DEF Times
<1>3. g \in [Times -> Nat] /\ g[c] = f[c] + 1 /\ \A u \in Times \ {c} : g[u] = f[u]
  BY <1>1 DEF OneMore
<1>4. \A u \in Times : u >= c => f[u] = 0
  BY <1>1, <1>2 DEF RateFits
<1>5. \A T \in SUBSET Times : Total(g, T) = IF c \in T THEN Total(f, T) + 1 ELSE Total(f, T)
  BY <1>1, TotalOneMore
<1>. HIDE DEF g
<1>6. Total(g, Since(c)) = 1
  <2>1. Since(c) \subseteq Times /\ c \in Since(c)
    BY <1>2 DEF Since
  <2>2. Total(f, Since(c)) = 0
    BY <1>1, <1>4, <2>1, TotalOfNothing DEF Since
  <2>. QED  BY <1>5, <2>1, <2>2
<1>7. Total(f, Before(c, w)) <= m - 1
  <2>1. CASE r = 0
    <3>1. \A t \in Before(c, w) : f[t] = 0
      BY <1>2, <2>1 DEF RateFits, Before
    <3>. QED  BY <1>1, <3>1, TotalOfNothing DEF Before
  <2>2. CASE r # 0
    <3>. DEFINE o == r - w
    <3>1. o \in Times /\ f[o] >= 1 /\ Total(f, Since(o)) <= m
      BY <2>2 DEF RateFits
    <3>2. Before(c, w) \subseteq Since(o) /\ o \in Since(o) \ Before(c, w) /\ Since(o) \subseteq Times
      <4>1. o \in Nat /\ c \in Nat /\ w \in Nat /\ o + w <= c
        BY <1>1, <1>2, <3>1
      <4>. HIDE DEF o
      <4>2. ASSUME NEW u \in Times, c - w < u PROVE o <= u
        <5>1. u \in Nat
          BY <1>2
        <5>. QED  BY <4>1, <4>2, <5>1
      <4>3. ~ (c - w < o)
        BY <4>1
      <4>4. Before(c, w) \subseteq Since(o) /\ Since(o) \subseteq Times
        BY <4>2 DEF Before, Since
      <4>5. o \in Since(o) /\ o \notin Before(c, w)
        BY <3>1, <4>1, <4>3 DEF Before, Since
      <4>. QED  BY <4>4, <4>5
    <3>3. Total(f, Before(c, w)) <= Total(f, Since(o)) - 1
      BY <1>1, <3>1, <3>2, TotalWithOut
    <3>4. Before(c, w) \in SUBSET Times /\ Since(o) \in SUBSET Times
      BY DEF Before, Since
    <3>5. Total(f, Before(c, w)) \in Nat /\ Total(f, Since(o)) \in Nat
      BY <1>1, <3>4, PassesAreFinite
    <3>. QED  BY <3>1, <3>3, <3>5
  <2>. QED  BY <2>1, <2>2
<1>8. Total(g, Before(c, w)) <= m - 1
  <2>1. c \notin Before(c, w) /\ Before(c, w) \subseteq Times
    BY <1>2 DEF Before
  <2>. QED  BY <1>5, <1>7, <2>1
<1>9. ASSUME NEW t \in Times
      PROVE  Total(g, Within(t, w)) <= 2 * m - 1
  <2>1. CASE c \notin Within(t, w)
    BY <1>5, <2>1 DEF RateFits, Within
  <2>2. CASE c \in Within(t, w)
    <3>1. Within(t, w) \subseteq Before(c, w) \cup Since(c)
      <4>1. c < t + w /\ c \in Nat /\ t \in Nat
        BY <1>2, <2>2 DEF Within
      <4>2. \A u \in Times : t <= u => c - w < u /\ (u < c \/ c <= u)
        BY <1>2, <4>1
      <4>. QED  BY <4>2 DEF Within, Before, Since
    <3>2. Before(c, w) \in SUBSET Times /\ Since(c) \in SUBSET Times
      BY DEF Before, Since
    <3>3. Total(g, Within(t, w)) <= Total(g, Before(c, w) \cup Since(c))
      BY <1>3, <3>1, <3>2, TotalGrows
    <3>4. Total(g, Before(c, w) \cup Since(c)) <= Total(g, Before(c, w)) + Total(g, Since(c))
      BY <1>3, <3>2, TotalSplits
    <3>5. /\ Within(t, w) \in SUBSET Times
          /\ (Before(c, w) \cup Since(c)) \in SUBSET Times
      BY <3>2 DEF Within
    <3>6. \A T \in SUBSET Times : Total(g, T) \in Nat
      BY <1>3, PassesAreFinite
    <3>7. /\ Total(g, Within(t, w)) \in Nat /\ Total(g, Before(c, w) \cup Since(c)) \in Nat
          /\ Total(g, Before(c, w)) \in Nat
      BY <3>2, <3>5, <3>6
    <3>. QED  BY <1>6, <1>8, <3>3, <3>4, <3>7
  <2>. QED  BY <2>1, <2>2
<1>10. s - w = c /\ s \in Nat /\ s # 0
  BY <1>2
<1>11. \A u \in Times : u > c \/ u >= s => g[u] = 0
  BY <1>2, <1>3, <1>4
<1>12. g[c] >= 1
  BY <1>1, <1>3
<1>. HIDE DEF s
<1>13. RateFits(g, s, 1, c, m, w)
  BY <1>2, <1>3, <1>6, <1>8, <1>9, <1>10, <1>11, <1>12 DEF RateFits
<1>. QED  BY <1>13 DEF g, s

(***************************************************************************)
(* A request that the window counts and that passes, and one that does     *)
(* not.                                                                    *)
(***************************************************************************)
LEMMA RateCounts ==
    ASSUME NEW f, NEW r, NEW n, NEW c \in Times, NEW m \in Nat \ {0}, NEW w \in Nat \ {0},
           RateFits(f, r, n, c, m, w),
           ~ (r <= c), n + 1 <= m
    PROVE  RateFits(OneMore(f, c), r, n + 1, c, m, w)
<1>. DEFINE g == OneMore(f, c)
            o == r - w
<1>1. f \in [Times -> Nat] /\ r \in Nat /\ n \in Nat
  BY DEF RateFits
<1>2. Times \subseteq Nat \ {0} /\ w \in Nat \ {0}
  BY DEF Times
<1>3. g \in [Times -> Nat] /\ g[c] = f[c] + 1 /\ \A u \in Times \ {c} : g[u] = f[u]
  BY <1>1 DEF OneMore
<1>4. \A T \in SUBSET Times : Total(g, T) = IF c \in T THEN Total(f, T) + 1 ELSE Total(f, T)
  BY <1>1, TotalOneMore
<1>. HIDE DEF g
<1>5. /\ o \in Times /\ o <= c /\ f[o] >= 1 /\ Total(f, Since(o)) <= n
      /\ Total(f, Before(o, w)) <= m - 1
  BY <1>1, <1>2 DEF RateFits
<1>6. Since(o) \in SUBSET Times /\ c \in Since(o) /\ Before(o, w) \in SUBSET Times
      /\ c \notin Before(o, w)
  BY <1>1, <1>2, <1>5 DEF Since, Before
<1>7. Total(f, Since(o)) \in Nat /\ Total(f, Before(o, w)) \in Nat
  BY <1>1, <1>6, PassesAreFinite
<1>8. Total(g, Since(o)) <= n + 1 /\ Total(g, Since(o)) <= m /\ Total(g, Before(o, w)) <= m - 1
  BY <1>1, <1>4, <1>5, <1>6, <1>7
<1>9. ASSUME NEW t \in Times
      PROVE  Total(g, Within(t, w)) <= 2 * m - 1
  <2>1. CASE c \notin Within(t, w)
    BY <1>4, <2>1 DEF RateFits, Within
  <2>2. CASE c \in Within(t, w)
    <3>1. Within(t, w) \subseteq Before(o, w) \cup Since(o)
      <4>1. c < t + w /\ c \in Nat /\ t \in Nat /\ o \in Nat /\ o <= c
        BY <1>2, <1>5, <2>2 DEF Within
      <4>2. \A u \in Times : t <= u => o - w < u /\ (u < o \/ o <= u)
        BY <1>2, <4>1
      <4>. QED  BY <4>2 DEF Within, Before, Since
    <3>2. Total(g, Within(t, w)) <= Total(g, Before(o, w) \cup Since(o))
      BY <1>3, <1>6, <3>1, TotalGrows
    <3>3. Total(g, Before(o, w) \cup Since(o)) <= Total(g, Before(o, w)) + Total(g, Since(o))
      BY <1>3, <1>6, TotalSplits
    <3>4. /\ Within(t, w) \in SUBSET Times
          /\ (Before(o, w) \cup Since(o)) \in SUBSET Times
      BY <1>6 DEF Within
    <3>5. \A T \in SUBSET Times : Total(g, T) \in Nat
      BY <1>3, PassesAreFinite
    <3>6. /\ Total(g, Within(t, w)) \in Nat /\ Total(g, Before(o, w) \cup Since(o)) \in Nat
          /\ Total(g, Before(o, w)) \in Nat /\ Total(g, Since(o)) \in Nat
      BY <1>6, <3>4, <3>5
    <3>. QED  BY <1>8, <3>2, <3>3, <3>6
  <2>. QED  BY <2>1, <2>2
<1>10. \A u \in Times : u > c \/ u >= r => g[u] = 0
  <2>1. \A u \in Times : u > c \/ u >= r => f[u] = 0 /\ u # c
    BY <1>1, <1>2 DEF RateFits
  <2>. QED  BY <1>3, <2>1
<1>11. g[o] >= 1
  BY <1>1, <1>3, <1>5
<1>12. n + 1 \in Nat
  BY <1>1
<1>13. RateFits(g, r, n + 1, c, m, w)
  BY <1>1, <1>3, <1>5, <1>8, <1>9, <1>10, <1>11, <1>12 DEF RateFits
<1>. QED  BY <1>13 DEF g

LEMMA RateRefuses ==
    ASSUME NEW f, NEW r, NEW n, NEW c \in Times, NEW m \in Nat \ {0}, NEW w \in Nat \ {0},
           RateFits(f, r, n, c, m, w)
    PROVE  RateFits(f, r, n + 1, c, m, w)
<1>1. r # 0 => Total(f, Since(r - w)) \in Nat
  BY PassesAreFinite DEF RateFits, Since
<1>. QED  BY <1>1 DEF RateFits

-----------------------------------------------------------------------------
(***************************************************************************)
(* The limiters.                                                           *)
(***************************************************************************)
LimitsFit ==
    /\ clock \in Times
    /\ hits \in [Limiters -> [Clients -> Nat]]
    /\ reset \in [Limiters -> [Clients -> Nat]]
    /\ passed \in [Limiters -> [Clients -> [Times -> Nat]]]

RatesFit ==
    \A l \in Limiters, a \in Clients :
        RateFits(passed[l][a], reset[l][a], hits[l][a], clock, Limit[l], WindowOf[l])

LEMMA LimitsArePositive ==
    \A l \in Limiters : Limit[l] \in Nat \ {0} /\ WindowOf[l] \in Nat \ {0}
BY DEF Limiters, Limit, WindowOf

LEMMA LimitsStart ==
    ASSUME GatewayInit
    PROVE  LimitsFit /\ RatesFit
<1>1. 1 \in Times
  BY DEF Times
<1>2. LimitsFit
  BY <1>1 DEF GatewayInit, LimitsFit
<1>3. ASSUME NEW l \in Limiters, NEW a \in Clients
      PROVE  RateFits(passed[l][a], reset[l][a], hits[l][a], clock, Limit[l], WindowOf[l])
  <2>1. /\ passed[l][a] \in [Times -> Nat] /\ \A t \in Times : passed[l][a][t] = 0
        /\ reset[l][a] = 0 /\ hits[l][a] = 0 /\ clock = 1
    BY DEF GatewayInit
  <2>. QED  BY <2>1, RateStarts, LimitsArePositive
<1>. QED  BY <1>2, <1>3 DEF RatesFit

(***************************************************************************)
(* What a request that comes in does to each limiter and each address.     *)
(***************************************************************************)
LEMMA Tallied ==
    ASSUME LimitsFit, NEW x, NEW a \in Clients, Tally(x, a), UNCHANGED clock
    PROVE  /\ LimitsFit'
           /\ \A l \in Limiters, b \in Clients :
                \/ UNCHANGED <<hits[l][b], reset[l][b], passed[l][b]>>
                \/ /\ b = a
                   /\ hits'[l][b] = CountOf(l, b)
                   /\ reset'[l][b] = IF reset[l][b] <= clock
                                     THEN clock + WindowOf[l] ELSE reset[l][b]
                   /\ passed'[l][b] = IF Passes(l, b)
                                      THEN OneMore(passed[l][b], clock) ELSE passed[l][b]
<1>. DEFINE C == Counting(x, a)
<1>1. /\ hits' = [l \in Limiters |-> [hits[l] EXCEPT ![a] = IF l \in C THEN CountOf(l, a) ELSE @]]
      /\ reset' = [l \in Limiters |-> [reset[l] EXCEPT ![a] =
                    IF l \in C /\ reset[l][a] <= clock THEN clock + WindowOf[l] ELSE @]]
      /\ passed' = [l \in Limiters |-> [passed[l] EXCEPT ![a][clock] =
                    IF l \in C /\ Passes(l, a) THEN @ + 1 ELSE @]]
  BY DEF Tally
<1>. HIDE DEF C
<1>2. clock \in Times /\ clock \in Nat /\ \A l \in Limiters : clock + WindowOf[l] \in Nat
  BY LimitsArePositive DEF LimitsFit, Times
<1>3. \A l \in Limiters : CountOf(l, a) \in Nat
  BY LimitsArePositive DEF LimitsFit, CountOf, More
<1>4. LimitsFit'
  <2>1. hits' \in [Limiters -> [Clients -> Nat]]
    BY <1>1, <1>3 DEF LimitsFit
  <2>2. reset' \in [Limiters -> [Clients -> Nat]]
    BY <1>1, <1>2 DEF LimitsFit
  <2>3. passed' \in [Limiters -> [Clients -> [Times -> Nat]]]
    BY <1>1, <1>2 DEF LimitsFit
  <2>. QED  BY <1>2, <2>1, <2>2, <2>3 DEF LimitsFit
<1>5. ASSUME NEW l \in Limiters, NEW b \in Clients
      PROVE  \/ UNCHANGED <<hits[l][b], reset[l][b], passed[l][b]>>
             \/ /\ b = a
                /\ hits'[l][b] = CountOf(l, b)
                /\ reset'[l][b] = IF reset[l][b] <= clock
                                  THEN clock + WindowOf[l] ELSE reset[l][b]
                /\ passed'[l][b] = IF Passes(l, b)
                                   THEN OneMore(passed[l][b], clock) ELSE passed[l][b]
  <2>1. CASE b # a
    BY <1>1, <2>1 DEF LimitsFit
  <2>2. CASE b = a /\ l \notin C
    <3>1. hits'[l][b] = hits[l][b] /\ reset'[l][b] = reset[l][b]
      BY <1>1, <2>2 DEF LimitsFit
    <3>2. passed'[l][b] = [passed[l][b] EXCEPT ![clock] = @]
      BY <1>1, <2>2 DEF LimitsFit
    <3>3. passed'[l][b] = passed[l][b]
      BY <3>2 DEF LimitsFit
    <3>. QED  BY <3>1, <3>3
  <2>3. CASE b = a /\ l \in C
    <3>1. hits'[l][b] = CountOf(l, b)
      BY <1>1, <2>3 DEF LimitsFit
    <3>2. reset'[l][b] = IF reset[l][b] <= clock THEN clock + WindowOf[l] ELSE reset[l][b]
      BY <1>1, <2>3 DEF LimitsFit
    <3>3. passed'[l][b] = [passed[l][b] EXCEPT ![clock] = IF Passes(l, b) THEN @ + 1 ELSE @]
      BY <1>1, <2>3 DEF LimitsFit
    <3>4. passed[l][b] \in [Times -> Nat]
      BY DEF LimitsFit
    <3>5. passed'[l][b] = IF Passes(l, b) THEN OneMore(passed[l][b], clock) ELSE passed[l][b]
      BY <3>3, <3>4 DEF OneMore
    <3>. QED  BY <2>3, <3>1, <3>2, <3>5
  <2>. QED  BY <2>1, <2>2, <2>3
<1>. QED  BY <1>4, <1>5

LEMMA RateTallied ==
    ASSUME LimitsFit, NEW l \in Limiters, NEW b \in Clients,
           RateFits(passed[l][b], reset[l][b], hits[l][b], clock, Limit[l], WindowOf[l])
    PROVE  RateFits(IF Passes(l, b) THEN OneMore(passed[l][b], clock) ELSE passed[l][b],
                    IF reset[l][b] <= clock THEN clock + WindowOf[l] ELSE reset[l][b],
                    CountOf(l, b), clock, Limit[l], WindowOf[l])
<1>. DEFINE m == Limit[l]
<1>1. /\ m \in Nat \ {0} /\ WindowOf[l] \in Nat \ {0}
      /\ clock \in Times /\ reset[l][b] \in Nat /\ hits[l][b] \in Nat
  BY LimitsArePositive DEF LimitsFit
<1>2. CASE reset[l][b] <= clock
  <2>1. CountOf(l, b) = 1 /\ Passes(l, b)
    BY <1>1, <1>2 DEF CountOf, Passes
  <2>2. RateFits(OneMore(passed[l][b], clock), clock + WindowOf[l], 1, clock, m, WindowOf[l])
    BY <1>1, <1>2, RateOpens
  <2>. QED  BY <1>2, <2>1, <2>2
<1>3. CASE ~ (reset[l][b] <= clock) /\ hits[l][b] > m
  <2>1. CountOf(l, b) = hits[l][b] /\ ~ Passes(l, b)
    BY <1>1, <1>3 DEF CountOf, More, Passes
  <2>. QED  BY <1>3, <2>1
<1>4. CASE ~ (reset[l][b] <= clock) /\ ~ (hits[l][b] > m)
  <2>1. CountOf(l, b) = hits[l][b] + 1
    BY <1>1, <1>4 DEF CountOf, More
  <2>2. CASE hits[l][b] + 1 <= m
    <3>1. RateFits(OneMore(passed[l][b], clock), reset[l][b], hits[l][b] + 1, clock, m, WindowOf[l])
      BY <1>1, <1>4, <2>2, RateCounts
    <3>2. Passes(l, b)
      BY <2>1, <2>2 DEF Passes
    <3>. QED  BY <1>4, <2>1, <3>1, <3>2
  <2>3. CASE ~ (hits[l][b] + 1 <= m)
    <3>1. RateFits(passed[l][b], reset[l][b], hits[l][b] + 1, clock, m, WindowOf[l])
      BY <1>1, RateRefuses
    <3>2. ~ Passes(l, b)
      BY <2>1, <2>3 DEF Passes
    <3>. QED  BY <1>4, <2>1, <3>1, <3>2
  <2>. QED  BY <2>2, <2>3
<1>. QED  BY <1>2, <1>3, <1>4

LEMMA LimitsKept ==
    ASSUME LimitsFit, RatesFit, [GatewayNext]_gatewayVars
    PROVE  LimitsFit' /\ RatesFit'
<1>1. ASSUME UNCHANGED <<clock, limits, passed>>
      PROVE  LimitsFit' /\ RatesFit'
  BY <1>1 DEF LimitsFit, RatesFit, limits
<1>2. CASE ClockTicks
  <2>1. clock' = clock + 1 /\ clock' \in Times /\ UNCHANGED <<hits, reset, passed>>
    BY <1>2 DEF ClockTicks, LimitsFit, Times, limits
  <2>2. ASSUME NEW l \in Limiters, NEW a \in Clients
        PROVE  RateFits(passed[l][a], reset[l][a], hits[l][a], clock + 1, Limit[l], WindowOf[l])
    <3>1. RateFits(passed[l][a], reset[l][a], hits[l][a], clock, Limit[l], WindowOf[l])
      BY DEF RatesFit
    <3>. QED  BY <3>1, RateTicks, LimitsArePositive DEF LimitsFit
  <2>. QED  BY <2>1, <2>2 DEF LimitsFit, RatesFit
<1>3. ASSUME NEW i \in Ids, NEW x \in Inputs, NEW a \in Clients, Arrive(i, x, a)
      PROVE  LimitsFit' /\ RatesFit'
  <2>1. Tally(x, a) /\ UNCHANGED clock
    BY <1>3 DEF Arrive
  <2>2. ASSUME NEW l \in Limiters, NEW b \in Clients
        PROVE  RateFits(passed'[l][b], reset'[l][b], hits'[l][b], clock, Limit[l], WindowOf[l])
    <3>1. RateFits(passed[l][b], reset[l][b], hits[l][b], clock, Limit[l], WindowOf[l])
      BY DEF RatesFit
    <3>2. CASE UNCHANGED <<hits[l][b], reset[l][b], passed[l][b]>>
      BY <3>1, <3>2
    <3>3. CASE /\ hits'[l][b] = CountOf(l, b)
               /\ reset'[l][b] = IF reset[l][b] <= clock
                                 THEN clock + WindowOf[l] ELSE reset[l][b]
               /\ passed'[l][b] = IF Passes(l, b)
                                  THEN OneMore(passed[l][b], clock) ELSE passed[l][b]
      BY <3>1, <3>3, RateTallied
    <3>. QED  BY <2>1, <3>2, <3>3, Tallied
  <2>3. LimitsFit'
    BY <2>1, Tallied
  <2>. QED  BY <2>1, <2>2, <2>3 DEF RatesFit
<1>4. ASSUME NEW i \in Ids, \/ Refuse(i) \/ Forward(i) \/ Execute(i) \/ Relay(i)
                            \/ GiveUp(i) \/ Forget(i)
      PROVE  LimitsFit' /\ RatesFit'
  <2>1. UNCHANGED <<clock, limits, passed>>
    BY <1>4 DEF Refuse, Forward, Execute, Relay, GiveUp, Forget
  <2>. QED  BY <1>1, <2>1
<1>5. CASE UNCHANGED gatewayVars
  BY <1>1, <1>5 DEF gatewayVars
<1>. QED  BY <1>2, <1>3, <1>4, <1>5 DEF GatewayNext

-----------------------------------------------------------------------------
GatewayInv ==
    /\ RequestsFit
    /\ AnswersFit
    /\ LimitsFit
    /\ RatesFit

(***************************************************************************)
(* The inductive invariant of the gateway.                                 *)
(***************************************************************************)
THEOREM GatewayInvariant == GatewaySpec => []GatewayInv
<1>1. GatewayInit => GatewayInv
  BY RequestsStart, LimitsStart DEF GatewayInv
<1>2. GatewayInv /\ [GatewayNext]_gatewayVars => GatewayInv'
  BY RequestsKept, LimitsKept DEF GatewayInv
<1>. QED  BY <1>1, <1>2, PTL DEF GatewaySpec

(***************************************************************************)
(* For any requests of clients, at any rate: no request is of two routes,  *)
(* what is done was asked for by somebody who may and is done once, what   *)
(* is refused is not done, and what is answered 200 is.                    *)
(***************************************************************************)
THEOREM AnswersAreAlwaysSound == GatewaySpec => []AnswersAreSound
<1>1. GatewayInv => GatewayTypeOK
  <2>1. \A i \in Ids : Cardinality(Matches(req[i].method, req[i].path)) <= 1
    BY MatchesAreFew
  <2>. QED  BY <2>1 DEF GatewayInv, GatewayTypeOK, RequestsFit, LimitsFit
<1>2. GatewayInv => RefusedIsHarmless
  <2>1. SUFFICES ASSUME GatewayInv, NEW i \in Ids
                 PROVE  /\ answer[i] \in 400..499 => runs[i] = 0
                        /\ runs[i] > 0 => runs[i] = 1 /\ MayCall(req[i])
                                          /\ seen[i] = Caller(req[i])
                        /\ answer[i] = 200 => runs[i] = 1
    BY DEF RefusedIsHarmless
  <2>2. runs[i] \in 0..1 /\ req[i] \in Inputs
    BY <2>1 DEF GatewayInv, RequestsFit
  <2>3. answer[i] = 200 => runs[i] = 1
    BY <2>1 DEF GatewayInv, AnswersFit
  <2>4. ASSUME runs[i] > 0
        PROVE  /\ answer[i] \in {0, 200, 502, 504}
               /\ Decision(req[i]) = 0 /\ seen[i] = Identity(req[i])
    BY <2>1, <2>4 DEF GatewayInv, AnswersFit
  <2>5. ASSUME runs[i] > 0
        PROVE  MayCall(req[i]) /\ seen[i] = Caller(req[i])
    BY <2>2, <2>4, <2>5, ForwardedMayCall
  <2>6. answer[i] \in 400..499 => runs[i] = 0
    BY <2>2, <2>4
  <2>. QED  BY <2>2, <2>3, <2>5, <2>6
<1>. QED  BY <1>1, <1>2, GatewayInvariant, PTL DEF AnswersAreSound

(***************************************************************************)
(* The requests that pass at several processes are numbered: those of each *)
(* process by at most B numbers.                                           *)
(***************************************************************************)
Places(F, G, T) == UNION {{p} \X (1..F[p[1]][p[2]]) : p \in G \X T}

LEMMA PlacesAre ==
    ASSUME NEW F, NEW G, NEW T, NEW q
    PROVE  q \in Places(F, G, T) <=> \E p \in G \X T : q \in {p} \X (1..F[p[1]][p[2]])
BY DEF Places

LEMMA PassesAdd ==
    ASSUME NEW G, IsFiniteSet(G), NEW F \in [G -> [Times -> Nat]], NEW T \in SUBSET Times,
           NEW B \in Nat, \A g \in G : Total(F[g], T) <= B
    PROVE  Cardinality(Places(F, G, T)) <= Cardinality(G) * B
<1>. DEFINE A == Places(F, G, T)
            S(g) == PassesOf(F[g], T)
            number == [g \in G |-> CHOOSE k : k \in Injection(S(g), 1..B)]
            place == [q \in A |-> <<q[1][1], number[q[1][1]][<<q[1][2], q[2]>>]>>]
<1>1. ASSUME NEW g \in G
      PROVE  number[g] \in Injection(S(g), 1..B)
  <2>1. IsFiniteSet(S(g)) /\ Cardinality(S(g)) \in Nat /\ Cardinality(S(g)) <= B
    BY PassesAreFinite DEF Total
  <2>2. PICK b : b \in Bijection(1..Cardinality(S(g)), S(g))
    BY <2>1, FS_CardinalityType DEF ExistsBijection
  <2>. DEFINE n == Cardinality(S(g))
              k == [x \in S(g) |-> CHOOSE j \in 1..n : b[j] = x]
  <2>3. ASSUME NEW x \in S(g)
        PROVE  k[x] \in 1..n /\ b[k[x]] = x
    <3>1. \E j \in 1..n : b[j] = x
      BY <2>2 DEF Bijection, Surjection
    <3>. QED  BY <3>1
  <2>. HIDE DEF S
  <2>4. \A x, y \in S(g) : k[x] = k[y] => x = y
    BY <2>3
  <2>5. \A x \in S(g) : k[x] \in 1..B
    BY <2>1, <2>3
  <2>6. k \in Injection(S(g), 1..B)
    <3>1. k \in [S(g) -> 1..B]
      BY <2>5
    <3>. HIDE DEF k
    <3>. QED  BY <2>4, <3>1 DEF Injection, IsInjective
  <2>. QED  BY <2>6
<1>2. ASSUME NEW q \in A
      PROVE  \E g \in G, u \in T, j \in Nat : q = <<<<g, u>>, j>> /\ <<u, j>> \in S(g)
  <2>0. PICK p \in G \X T : q \in {p} \X (1..F[p[1]][p[2]])
    BY PlacesAre
  <2>1. PICK g \in G, u \in T : q \in {<<g, u>>} \X (1..F[g][u])
    BY <2>0
  <2>2. PICK j \in 1..F[g][u] : q = <<<<g, u>>, j>>
    BY <2>1
  <2>3. <<u, j>> \in {u} \X (1..F[g][u])
    OBVIOUS
  <2>4. <<u, j>> \in S(g)
    BY <2>3, PassesOfAre
  <2>5. j \in Nat
    BY <2>2
  <2>. QED  BY <2>2, <2>4, <2>5
<1>. HIDE DEF A, S, number
<1>3. ASSUME NEW q \in A, NEW g \in G, NEW u \in T, NEW j, q = <<<<g, u>>, j>>
      PROVE  place[q] = <<g, number[g][<<u, j>>]>>
  BY <1>3
<1>4. \A q \in A : place[q] \in G \X (1..B)
  <2>1. SUFFICES ASSUME NEW q \in A
                 PROVE  place[q] \in G \X (1..B)
    OBVIOUS
  <2>3. PICK g \in G, u \in T, j \in Nat : q = <<<<g, u>>, j>> /\ <<u, j>> \in S(g)
    BY <1>2
  <2>4. number[g][<<u, j>>] \in 1..B
    BY <1>1, <2>3 DEF Injection
  <2>. QED  BY <1>3, <2>3, <2>4
<1>5. \A q, p \in A : place[q] = place[p] => q = p
  <2>1. SUFFICES ASSUME NEW q \in A, NEW p \in A, place[q] = place[p]
                 PROVE  q = p
    OBVIOUS
  <2>2. PICK g \in G, u \in T, j \in Nat : q = <<<<g, u>>, j>> /\ <<u, j>> \in S(g)
    BY <1>2
  <2>3. PICK h \in G, v \in T, i \in Nat : p = <<<<h, v>>, i>> /\ <<v, i>> \in S(h)
    BY <1>2
  <2>4. g = h /\ number[g][<<u, j>>] = number[h][<<v, i>>]
    BY <1>3, <2>1, <2>2, <2>3
  <2>5. <<u, j>> = <<v, i>>
    BY <1>1, <2>2, <2>3, <2>4 DEF Injection, IsInjective
  <2>. QED  BY <2>2, <2>3, <2>4, <2>5
<1>6. place \in Injection(A, G \X (1..B))
  <2>1. place \in [A -> G \X (1..B)]
    BY <1>4
  <2>. HIDE DEF place
  <2>. QED  BY <1>5, <2>1 DEF Injection, IsInjective
<1>7. IsFiniteSet(G \X (1..B)) /\ Cardinality(G \X (1..B)) = Cardinality(G) * B
  <2>1. \A R : IsFiniteSet(R) => /\ IsFiniteSet(G \X R)
                                 /\ Cardinality(G \X R) = Cardinality(G) * Cardinality(R)
    BY FS_Product
  <2>2. IsFiniteSet(1..B) /\ Cardinality(1..B) = B
    <3>0. 1 \in Int /\ B \in Int
      OBVIOUS
    <3>1. /\ IsFiniteSet(1..B)
          /\ Cardinality(1..B) = IF 1 > B THEN 0 ELSE B - 1 + 1
      BY <3>0, FS_Interval, Zenon
    <3>. HIDE DEF place
    <3>. QED  BY <3>1, SMT
  <2>3. Cardinality(G) * Cardinality(1..B) = Cardinality(G) * B
    BY <2>2, Zenon
  <2>. QED  BY <2>1, <2>2, <2>3, Zenon
<1>8. Cardinality(A) <= Cardinality(G \X (1..B))
  BY <1>6, <1>7, FS_Injection
<1>. QED  BY <1>7, <1>8 DEF A

(***************************************************************************)
(* For any limits, windows, number of processes and of addresses: within   *)
(* any length of a limiter's window an address gets less than twice the    *)
(* limit through each process, and through several together so many times  *)
(* that.                                                                   *)
(***************************************************************************)
THEOREM RatesAreAlwaysBounded == GatewaySpec => []RatesAreBounded
<1>1. ASSUME GatewayInv
      PROVE  RatesAreBounded
  <2>1. SUFFICES ASSUME NEW l \in Limiters, NEW a \in Addresses, NEW G \in SUBSET Processes,
                        NEW t \in Times
                 PROVE  PassedIn(l, a, G, Within(t, WindowOf[l]))
                            <= Cardinality(G) * (2 * Limit[l] - 1)
    BY DEF RatesAreBounded, Within
  <2>. DEFINE F == [g \in G |-> passed[l][<<g, a>>]]
              T == Within(t, WindowOf[l])
              B == 2 * Limit[l] - 1
  <2>2. B \in Nat /\ T \in SUBSET Times /\ IsFiniteSet(G)
    <3>1. IsFiniteSet(G)
      BY ProcessesAssumption, FS_Subset
    <3>. QED  BY <3>1, LimitsArePositive DEF Within
  <2>3. ASSUME NEW g \in G
        PROVE  F[g] \in [Times -> Nat] /\ Total(F[g], T) <= B
    <3>1. <<g, a>> \in Clients
      BY DEF Clients
    <3>2. RateFits(passed[l][<<g, a>>], reset[l][<<g, a>>], hits[l][<<g, a>>], clock,
                   Limit[l], WindowOf[l])
      BY <1>1, <3>1 DEF GatewayInv, RatesFit
    <3>. QED  BY <3>2 DEF RateFits
  <2>4. F \in [G -> [Times -> Nat]]
    BY <2>3
  <2>5. PassedIn(l, a, G, T) = Cardinality(Places(F, G, T))
    <3>1. \A p \in G \X T : F[p[1]] = passed[l][<<p[1], a>>]
      OBVIOUS
    <3>. HIDE DEF F, T
    <3>. QED  BY <3>1, Zenon DEF PassedIn, Places
  <2>. HIDE DEF F, T, B
  <2>6. Cardinality(Places(F, G, T)) <= Cardinality(G) * B
    BY <2>2, <2>3, <2>4, PassesAdd
  <2>. QED  BY <2>5, <2>6 DEF B, T
<1>. QED  BY <1>1, GatewayInvariant, PTL

HIDE InputsAssumption
HIDE LimitsAssumption

-----------------------------------------------------------------------------
(***************************************************************************)
(* Login.  The loop of computeLockedUntil against the rule it stands for,  *)
(* and the handlers that run it.                                           *)
(***************************************************************************)
USE PolicyAssumption, MaxTimeAssumption, HandlersAssumption

LEMMA LeastExists ==
    ASSUME NEW S \in SUBSET Nat, S # {}
    PROVE  \E m \in S : \A n \in S : m <= n
<1>1. PICK m \in S : \A n \in S : ~ (<<n, m>> \in OpToRel(<, Nat))
  BY WFMin, NatLessThanWellFounded, Zenon
<1>2. \A n \in S : ~ (n < m)
  BY <1>1, Zenon DEF OpToRel
<1>. QED  BY <1>2

LEMMA GreatestExists ==
    ASSUME NEW N \in Nat, NEW S \in SUBSET (0..N), S # {}
    PROVE  \E m \in S : \A n \in S : n <= m
<1>. DEFINE R == {N - n : n \in S}
<1>1. R \in SUBSET Nat /\ R # {}
  <2>1. \A n \in S : N - n \in Nat
    OBVIOUS
  <2>. QED  BY <2>1
<1>2. PICK d \in R : \A e \in R : d <= e
  BY <1>1, LeastExists
<1>3. PICK m \in S : d = N - m
  OBVIOUS
<1>4. ASSUME NEW n \in S
      PROVE  n <= m
  <2>1. N - m <= N - n
    BY <1>2, <1>3
  <2>2. m \in Nat /\ n \in Nat
    OBVIOUS
  <2>. QED  BY <2>1, <2>2
<1>. QED  BY <1>4

LEMMA InstantsAreFinite ==
    ASSUME NEW S \in SUBSET Instants
    PROVE  IsFiniteSet(S) /\ Cardinality(S) \in Nat
<1>1. IsFiniteSet(Instants)
  BY FS_Interval DEF Instants
<1>. QED  BY <1>1, FS_Subset, FS_CardinalityType

(***************************************************************************)
(* The n-th latest of a set of instants is there if the set has n.         *)
(***************************************************************************)
Later(S, t) == {u \in S : u >= t}

LEMMA NthLatestExists ==
    ASSUME NEW S \in SUBSET Instants, NEW n \in Nat \ {0}, n <= Cardinality(S)
    PROVE  NthLatest(S, n) \in S /\ Cardinality(Later(S, NthLatest(S, n))) = n
<1>. DEFINE G == {t \in S : Cardinality(Later(S, t)) >= n}
<1>0. IsFiniteSet(S) /\ Cardinality(S) \in Nat /\ S \in SUBSET Nat /\ S \in SUBSET (0..MaxTime)
  BY InstantsAreFinite DEF Instants
<1>1. G # {}
  <2>1. S # {}
    BY FS_EmptySet
  <2>2. PICK m \in S : \A t \in S : m <= t
    BY <1>0, <2>1, LeastExists
  <2>3. Later(S, m) = S
    BY <1>0, <2>2 DEF Later
  <2>. QED  BY <1>0, <2>3
<1>2. PICK g \in G : \A t \in G : t <= g
  <2>1. G \in SUBSET (0..MaxTime)
    BY <1>0
  <2>. QED  BY <1>1, <2>1, GreatestExists
<1>3. IsFiniteSet(Later(S, g)) /\ Cardinality(Later(S, g)) \in Nat
  BY InstantsAreFinite DEF Later
<1>4. Cardinality(Later(S, g)) = n
  <2>1. SUFFICES ASSUME Cardinality(Later(S, g)) > n
                 PROVE  FALSE
    BY <1>2, <1>3
  <2>. DEFINE R == Later(S, g) \ {g}
  <2>2. g \in Later(S, g) /\ g \in Nat
    BY <1>0, <1>2 DEF Later
  <2>3. IsFiniteSet(R) /\ Cardinality(R) = Cardinality(Later(S, g)) - 1
    BY <1>3, <2>2, FS_RemoveElement
  <2>4. Cardinality(R) >= n /\ R # {}
    <3>1. Cardinality(R) >= n
      BY <1>3, <2>1, <2>3
    <3>. QED  BY <2>3, <3>1, FS_EmptySet
  <2>5. R \in SUBSET Nat
    BY <1>0 DEF Later
  <2>6. PICK m \in R : \A t \in R : m <= t
    BY <2>4, <2>5, LeastExists
  <2>7. m \in S /\ m > g
    BY <1>0, <2>2, <2>6 DEF Later
  <2>8. Later(S, m) = R
    <3>1. \A u \in R : u \in S /\ u >= m
      BY <1>0, <2>2, <2>6 DEF Later
    <3>2. m \in Nat /\ \A u \in S : u \in Nat
      BY <1>0, <2>7
    <3>3. \A u \in S : u >= m => u >= g /\ u # g
      BY <2>2, <2>7, <3>2
    <3>. QED  BY <3>1, <3>3 DEF Later
  <2>9. m \in G
    BY <2>4, <2>7, <2>8
  <2>. QED  BY <1>0, <1>2, <2>2, <2>7, <2>9
<1>5. \E t \in S : Cardinality({u \in S : u >= t}) = n
  BY <1>2, <1>4 DEF Later
<1>. QED  BY <1>5 DEF NthLatest, Later

(***************************************************************************)
(* A streak that ends at t triggers the lock when enough of it is not      *)
(* older than the window.                                                  *)
(***************************************************************************)
LEMMA TriggeredFits ==
    ASSUME NEW t \in Instants, NEW S \in SUBSET (1..t), t \in S
    PROVE  Triggered(S) <=> Threshold <= Cardinality({u \in S : t - Window <= u})
<1>. DEFINE R == {u \in S : t - Window <= u}
<1>0. S \in SUBSET Instants /\ t \in Nat /\ S \in SUBSET Nat /\ \A u \in S : u <= t
  BY DEF Instants
<1>1. /\ IsFiniteSet(S) /\ Cardinality(S) \in Nat
      /\ IsFiniteSet(R) /\ Cardinality(R) \in Nat /\ Cardinality(R) <= Cardinality(S)
  BY <1>0, InstantsAreFinite, FS_Subset
<1>2. Threshold <= Cardinality(R) => Threshold <= Cardinality(S)
  BY <1>1
<1>3. SUFFICES ASSUME Threshold <= Cardinality(S)
               PROVE  NthLatest(S, 1) - NthLatest(S, Threshold) <= Window
                          <=> Threshold <= Cardinality(R)
  BY <1>1, <1>2 DEF Triggered
<1>4. NthLatest(S, 1) = t
  <2>1. 1 <= Cardinality(S)
    BY <1>1, <1>3
  <2>2. NthLatest(S, 1) \in S /\ Cardinality(Later(S, NthLatest(S, 1))) = 1
    BY <1>0, <2>1, NthLatestExists
  <2>3. PICK o : Later(S, NthLatest(S, 1)) = {o}
    <3>1. IsFiniteSet(Later(S, NthLatest(S, 1)))
      BY <1>1, FS_Subset DEF Later
    <3>. QED  BY <2>2, <3>1, FS_Singleton
  <2>4. t \in Later(S, NthLatest(S, 1)) /\ NthLatest(S, 1) \in Later(S, NthLatest(S, 1))
    <3>1. PICK x \in S : x = NthLatest(S, 1)
      BY <2>2
    <3>2. x \in 1..t
      BY <3>1
    <3>3. t >= x /\ x >= x
      BY <1>0, <3>2
    <3>. QED  BY <3>1, <3>3 DEF Later
  <2>. QED  BY <2>3, <2>4
<1>. DEFINE y == NthLatest(S, Threshold)
<1>5. y \in S /\ Cardinality(Later(S, y)) = Threshold
  BY <1>0, <1>3, NthLatestExists
<1>. HIDE DEF y
<1>6. IsFiniteSet(Later(S, y))
  BY <1>1, FS_Subset DEF Later
<1>7. ASSUME t - y <= Window
      PROVE  Threshold <= Cardinality(R)
  <2>1. Later(S, y) \subseteq R
    <3>1. \A u \in S : u \in Nat /\ y \in Nat /\ (u >= y => t - Window <= u)
      BY <1>0, <1>5, <1>7
    <3>. QED  BY <3>1 DEF Later
  <2>. QED  BY <1>1, <1>5, <2>1, FS_Subset
<1>8. ASSUME ~ (t - y <= Window)
      PROVE  ~ (Threshold <= Cardinality(R))
  <2>1. R \subseteq Later(S, y) \ {y}
    <3>1. \A u \in S : u \in Nat /\ y \in Nat /\ (t - Window <= u => u >= y /\ u # y)
      BY <1>0, <1>5, <1>8
    <3>. QED  BY <3>1 DEF Later
  <2>2. y \in Later(S, y)
    BY <1>0, <1>5 DEF Later
  <2>3. /\ IsFiniteSet(Later(S, y) \ {y})
        /\ Cardinality(Later(S, y) \ {y}) = Threshold - 1
    BY <1>5, <1>6, <2>2, FS_RemoveElement
  <2>4. Cardinality(R) <= Threshold - 1
    BY <2>1, <2>3, FS_Subset
  <2>. QED  BY <1>1, <2>4
<1>. QED  BY <1>4, <1>7, <1>8 DEF y

-----------------------------------------------------------------------------
(***************************************************************************)
(* The loop of computeLockedUntil.  There is a table of its turns, and the *)
(* t-th entry has the streak that ends at t and the last lock up to t.     *)
(***************************************************************************)
NoScan == [streak |-> {}, lock |-> 0]

Turn(f, t, since) == IF t = 0 THEN NoScan ELSE Scanned(f[t - 1], t, since)

LEMMA TurnsAgree ==
    ASSUME NEW f, NEW g, NEW t, NEW since, t = 0 \/ f[t - 1] = g[t - 1]
    PROVE  Turn(f, t, since) = Turn(g, t, since)
BY DEF Turn

LEMMA ScansExist ==
    ASSUME NEW since, NEW n \in Nat
    PROVE  \E f : f = [t \in 0..n |-> Turn(f, t, since)]
<1>. DEFINE N == {k \in Nat : ~ \E f : f = [t \in 0..k |-> Turn(f, t, since)]}
<1>1. SUFFICES ASSUME N # {}
               PROVE  FALSE
  OBVIOUS
<1>2. PICK k \in N : \A j \in N : k <= j
  BY <1>1, LeastExists
<1>3. CASE k = 0
  <2>. DEFINE f == [t \in 0..0 |-> NoScan]
  <2>1. \A t \in 0..0 : Turn(f, t, since) = NoScan
    BY DEF Turn
  <2>2. f = [t \in 0..0 |-> Turn(f, t, since)]
    BY <2>1
  <2>. QED  BY <1>3, <2>2
<1>4. CASE k # 0
  <2>1. k - 1 \in Nat /\ k - 1 \notin N
    BY <1>2, <1>4
  <2>2. PICK f : f = [t \in 0..(k - 1) |-> Turn(f, t, since)]
    BY <2>1
  <2>. DEFINE g == [t \in 0..k |-> IF t = k THEN Turn(f, k, since) ELSE f[t]]
  <2>3. ASSUME NEW t \in 0..k
        PROVE  g[t] = Turn(g, t, since)
    <3>1. t = 0 \/ f[t - 1] = g[t - 1]
      BY <1>4, <2>1
    <3>2. Turn(g, t, since) = Turn(f, t, since)
      BY <3>1, TurnsAgree
    <3>3. t # k => t \in 0..(k - 1)
      BY <1>4
    <3>4. t # k => f[t] = Turn(f, t, since)
      BY <2>2, <3>3
    <3>. QED  BY <3>2, <3>4
  <2>4. g = [t \in 0..k |-> Turn(g, t, since)]
    BY <2>3
  <2>. QED  BY <2>4
<1>. QED  BY <1>3, <1>4

LEMMA ScanExists ==
    ASSUME NEW since
    PROVE  \E scan : /\ scan = [t \in 0..MaxTime |-> Turn(scan, t, since)]
                     /\ LockScan(since) = scan[MaxTime].lock
<1>. DEFINE scan == CHOOSE f : f = [t \in 0..MaxTime |-> Turn(f, t, since)]
<1>1. scan = [t \in 0..MaxTime |-> Turn(scan, t, since)]
  BY ScansExist
<1>2. LockScan(since) = scan[MaxTime].lock
  BY Zenon DEF LockScan, Turn, NoScan
<1>. QED  BY <1>1, <1>2

\* The rule on the attempts of the instants from since on.
EndsSeen(t, since) ==
    /\ attempts[t] = "bad"
    /\ Threshold <= Cardinality({u \in Instants :
            /\ since <= u /\ t - Window <= u /\ u <= t
            /\ attempts[u] = "bad"
            /\ \A v \in u..t : attempts[v] # "ok"})

Streak(t, since) ==
    {u \in 1..t : since <= u /\ attempts[u] = "bad" /\ \A v \in u..t : attempts[v] # "ok"}

EndsUpTo(t, since) == {u \in 1..t : u >= since /\ EndsSeen(u, since)}

LockFits(l, t, since) ==
    IF EndsUpTo(t, since) = {} THEN l = 0
    ELSE \E u \in EndsUpTo(t, since) :
            l = u + Window /\ \A v \in EndsUpTo(t, since) : v <= u

ScanFits(e, t, since) ==
    /\ e = [streak |-> Streak(t, since), lock |-> e.lock]
    /\ LockFits(e.lock, t, since)

AttemptsFit == attempts \in [Instants -> Marks]

LEMMA EndsSeenFits ==
    ASSUME AttemptsFit, NEW since \in Int, NEW t \in Instants, t >= since, attempts[t] = "bad"
    PROVE  EndsSeen(t, since) <=> Triggered(Streak(t, since))
<1>1. t \in 1..t /\ t \in Nat /\ Streak(t, since) \in SUBSET (1..t)
  BY DEF Instants, Streak
<1>2. t \in Streak(t, since)
  <2>1. \A v \in t..t : attempts[v] # "ok"
    BY <1>1
  <2>. QED  BY <1>1, <2>1 DEF Streak
<1>3. {u \in Streak(t, since) : t - Window <= u} =
        {u \in Instants :
            /\ since <= u /\ t - Window <= u /\ u <= t
            /\ attempts[u] = "bad"
            /\ \A v \in u..t : attempts[v] # "ok"}
  <2>1. \A u : u \in 1..t <=> u \in Instants /\ u <= t
    BY <1>1 DEF Instants
  <2>. QED  BY <2>1 DEF Streak
<1>. QED  BY <1>1, <1>2, <1>3, TriggeredFits DEF EndsSeen

LEMMA TurnFits ==
    ASSUME AttemptsFit, NEW since \in Int, NEW t \in Instants, NEW e,
           ScanFits(e, t - 1, since)
    PROVE  ScanFits(Scanned(e, t, since), t, since)
<1>. DEFINE d == Scanned(e, t, since)
<1>1. t \in Nat /\ t >= 1 /\ attempts[t] \in Marks
  BY DEF Instants, AttemptsFit
<1>2. /\ e = [streak |-> Streak(t - 1, since), lock |-> e.lock]
      /\ e.streak = Streak(t - 1, since)
      /\ LockFits(e.lock, t - 1, since)
  <2>1. e = [streak |-> Streak(t - 1, since), lock |-> e.lock]
    BY DEF ScanFits
  <2>2. [streak |-> Streak(t - 1, since), lock |-> e.lock].streak = Streak(t - 1, since)
    OBVIOUS
  <2>. QED  BY <2>1, <2>2 DEF ScanFits
<1>3. \A u : u \in 1..t <=> u \in 1..(t - 1) \/ u = t
  BY <1>1
<1>4. \A u \in 1..(t - 1) : \A v : v \in u..t <=> v \in u..(t - 1) \/ v = t
  BY <1>1
<1>5. ~ EndsSeen(t, since) \/ t < since => EndsUpTo(t, since) = EndsUpTo(t - 1, since)
  BY <1>1, <1>3 DEF EndsUpTo
<1>6. CASE t < since \/ attempts[t] = "none"
  <2>1. d = e
    BY <1>6 DEF Scanned
  <2>2. Streak(t, since) = Streak(t - 1, since)
    <3>1. CASE t < since
      <4>1. Streak(t, since) = {} /\ Streak(t - 1, since) = {}
        BY <1>1, <3>1 DEF Streak
      <4>. QED  BY <4>1
    <3>2. CASE attempts[t] = "none"
      BY <1>3, <1>4, <3>2 DEF Streak
    <3>. QED  BY <1>6, <3>1, <3>2
  <2>3. ~ EndsSeen(t, since) \/ t < since
    BY <1>6 DEF EndsSeen
  <2>4. EndsUpTo(t, since) = EndsUpTo(t - 1, since)
    BY <1>5, <2>3
  <2>. QED  BY <1>2, <2>1, <2>2, <2>4 DEF ScanFits, LockFits
<1>7. CASE ~ (t < since) /\ attempts[t] = "ok"
  <2>1. d = [streak |-> {}, lock |-> e.lock]
    <3>1. d = [e EXCEPT !.streak = {}]
      BY <1>7 DEF Scanned
    <3>. QED  BY <1>2, <3>1
  <2>2. Streak(t, since) = {}
    <3>1. \A u \in 1..t : t \in u..t
      BY <1>1
    <3>. QED  BY <1>7, <3>1 DEF Streak
  <2>3. EndsUpTo(t, since) = EndsUpTo(t - 1, since)
    BY <1>5, <1>7 DEF EndsSeen
  <2>4. d.lock = e.lock
    BY <2>1
  <2>. QED  BY <1>2, <2>1, <2>2, <2>3, <2>4 DEF ScanFits, LockFits
<1>8. CASE ~ (t < since) /\ attempts[t] = "bad"
  <2>1. Streak(t, since) = e.streak \cup {t}
    <3>1. t \in Streak(t, since)
      BY <1>1, <1>8 DEF Streak
    <3>2. Streak(t, since) \ {t} = Streak(t - 1, since)
      BY <1>1, <1>3, <1>4, <1>8 DEF Streak
    <3>. QED  BY <1>2, <3>1, <3>2
  <2>2. d = [streak |-> Streak(t, since),
             lock |-> IF Triggered(Streak(t, since)) THEN t + Window ELSE e.lock]
    BY <1>8, <2>1 DEF Scanned
  <2>3. EndsSeen(t, since) <=> Triggered(Streak(t, since))
    BY <1>1, <1>8, EndsSeenFits
  <2>4. CASE EndsSeen(t, since)
    <3>1. d.lock = t + Window /\ d = [streak |-> Streak(t, since), lock |-> d.lock]
      BY <2>2, <2>3, <2>4
    <3>2. t \in EndsUpTo(t, since)
      BY <1>1, <1>8, <2>4 DEF EndsUpTo
    <3>3. \A v \in EndsUpTo(t, since) : v <= t
      BY DEF EndsUpTo
    <3>. QED  BY <3>1, <3>2, <3>3 DEF ScanFits, LockFits
  <2>5. CASE ~ EndsSeen(t, since)
    <3>1. d.lock = e.lock /\ d = [streak |-> Streak(t, since), lock |-> d.lock]
      BY <2>2, <2>3, <2>5
    <3>2. EndsUpTo(t, since) = EndsUpTo(t - 1, since)
      BY <1>5, <2>5
    <3>. QED  BY <1>2, <3>1, <3>2 DEF ScanFits, LockFits
  <2>. QED  BY <2>4, <2>5
<1>. QED  BY <1>1, <1>6, <1>7, <1>8 DEF Marks

LEMMA ScanIsTheRule ==
    ASSUME AttemptsFit, NEW since \in Int
    PROVE  LockFits(LockScan(since), MaxTime, since)
<1>1. PICK scan : /\ scan = [t \in 0..MaxTime |-> Turn(scan, t, since)]
                  /\ LockScan(since) = scan[MaxTime].lock
  BY ScanExists
<1>. DEFINE N == {t \in 0..MaxTime : ~ ScanFits(scan[t], t, since)}
<1>2. N = {}
  <2>1. SUFFICES ASSUME N # {}
                 PROVE  FALSE
    OBVIOUS
  <2>2. PICK t \in N : \A u \in N : t <= u
    <3>1. N \in SUBSET Nat
      OBVIOUS
    <3>. QED  BY <2>1, <3>1, LeastExists
  <2>3. scan[t] = Turn(scan, t, since)
    BY <1>1, <2>2
  <2>4. CASE t = 0
    <3>1. scan[t] = [streak |-> {}, lock |-> 0]
      BY <2>3, <2>4 DEF Turn, NoScan
    <3>2. Streak(t, since) = {} /\ EndsUpTo(t, since) = {}
      BY <2>4 DEF Streak, EndsUpTo
    <3>3. scan[t].lock = 0
      BY <3>1
    <3>4. ScanFits(scan[t], t, since)
      BY <3>1, <3>2, <3>3 DEF ScanFits, LockFits
    <3>. QED  BY <2>2, <3>4
  <2>5. CASE t # 0
    <3>1. t \in Instants /\ t - 1 \in 0..MaxTime /\ t - 1 \notin N
      BY <2>2, <2>5 DEF Instants
    <3>2. ScanFits(scan[t - 1], t - 1, since)
      BY <3>1
    <3>3. ScanFits(scan[t], t, since)
      BY <2>3, <2>5, <3>1, <3>2, TurnFits DEF Turn
    <3>. QED  BY <2>2, <3>3
  <2>. QED  BY <2>4, <2>5
<1>3. ScanFits(scan[MaxTime], MaxTime, since)
  BY <1>2
<1>. QED  BY <1>1, <1>3 DEF ScanFits

(***************************************************************************)
(* What the loop returns: no expiry, or that of the last failure that ends *)
(* a streak.                                                               *)
(***************************************************************************)
StreakEnds(n) == {t \in Instants : t >= n - Window /\ EndsSeen(t, n - Window)}

LEMMA LockIsTheRule ==
    ASSUME AttemptsFit, NEW n \in Instants
    PROVE  IF StreakEnds(n) = {} THEN ComputeLockedUntil(n) = 0
           ELSE \E t \in StreakEnds(n) : /\ ComputeLockedUntil(n) = t + Window
                                         /\ \A u \in StreakEnds(n) : u <= t
<1>1. n - Window \in Int
  BY DEF Instants
<1>2. LockFits(ComputeLockedUntil(n), MaxTime, n - Window)
  BY <1>1, ScanIsTheRule DEF ComputeLockedUntil
<1>3. StreakEnds(n) = EndsUpTo(MaxTime, n - Window)
  BY DEF StreakEnds, EndsUpTo, Instants
<1>. QED  BY <1>2, <1>3 DEF LockFits

LEMMA LockIsTyped ==
    ASSUME AttemptsFit, NEW n \in Instants
    PROVE  ComputeLockedUntil(n) \in 0..(MaxTime + Window)
<1>1. \A t \in StreakEnds(n) : t + Window \in 0..(MaxTime + Window)
  BY DEF StreakEnds, Instants
<1>2. 0 \in 0..(MaxTime + Window)
  OBVIOUS
<1>. QED  BY <1>1, <1>2, LockIsTheRule

(***************************************************************************)
(* What a login sees of a streak is part of it, and all of it if the last  *)
(* failure is not older than the login.                                    *)
(***************************************************************************)
Ending(t) ==
    {u \in Instants : /\ t - Window <= u /\ u <= t
                      /\ attempts[u] = "bad"
                      /\ \A v \in u..t : attempts[v] # "ok"}

LEMMA SeenIsStreak ==
    ASSUME NEW t \in Instants, NEW since \in Int
    PROVE  /\ EndsSeen(t, since) => EndsStreak(t)
           /\ since <= t - Window /\ EndsStreak(t) => EndsSeen(t, since)
<1>. DEFINE Seen == {u \in Instants : /\ since <= u /\ t - Window <= u /\ u <= t
                                      /\ attempts[u] = "bad"
                                      /\ \A v \in u..t : attempts[v] # "ok"}
<1>1. Seen \subseteq Ending(t) /\ Seen \in SUBSET Instants /\ Ending(t) \in SUBSET Instants
  BY DEF Ending
<1>2. /\ Cardinality(Seen) <= Cardinality(Ending(t))
      /\ Cardinality(Seen) \in Nat /\ Cardinality(Ending(t)) \in Nat
  BY <1>1, InstantsAreFinite, FS_Subset
<1>3. ASSUME since <= t - Window
      PROVE  Seen = Ending(t)
  <2>1. \A u \in Instants : t - Window <= u => since <= u
    BY <1>3 DEF Instants
  <2>. QED  BY <2>1 DEF Ending
<1>4. /\ EndsSeen(t, since) <=> attempts[t] = "bad" /\ Threshold <= Cardinality(Seen)
      /\ EndsStreak(t) <=> attempts[t] = "bad" /\ Threshold <= Cardinality(Ending(t))
  BY DEF EndsSeen, EndsStreak, Ending
<1>. HIDE DEF Seen
<1>. QED  BY <1>2, <1>3, <1>4

(***************************************************************************)
(* A login finds at least the lock of any streak whose last Window it sees *)
(* whole, and no lock the rule does not ask for.                           *)
(***************************************************************************)
LEMMA LockFound ==
    ASSUME AttemptsFit, NEW n \in Instants, NEW t \in Instants, n <= t, EndsStreak(t)
    PROVE  t + Window <= ComputeLockedUntil(n)
<1>1. n - Window \in Int /\ n - Window <= t - Window /\ t >= n - Window
  BY DEF Instants
<1>2. t \in StreakEnds(n)
  BY <1>1, SeenIsStreak DEF StreakEnds
<1>3. PICK u \in StreakEnds(n) : /\ ComputeLockedUntil(n) = u + Window
                                 /\ \A v \in StreakEnds(n) : v <= u
  BY <1>2, LockIsTheRule
<1>4. t <= u /\ u \in Nat /\ t \in Nat
  BY <1>2, <1>3 DEF StreakEnds, Instants
<1>. QED  BY <1>3, <1>4

LEMMA LockMatches == AttemptsFit => LockMatchesRule
<1>1. SUFFICES ASSUME AttemptsFit, NEW n \in Instants
               PROVE  LET lock == ComputeLockedUntil(n) IN
                      /\ lock # 0 => lock - Window \in Instants /\ EndsStreak(lock - Window)
                      /\ \A t \in n..MaxTime : EndsStreak(t) => t + Window <= lock
  BY DEF LockMatchesRule
<1>2. ASSUME ComputeLockedUntil(n) # 0
      PROVE  /\ ComputeLockedUntil(n) - Window \in Instants
             /\ EndsStreak(ComputeLockedUntil(n) - Window)
  <2>1. PICK t \in StreakEnds(n) : ComputeLockedUntil(n) = t + Window
    BY <1>1, <1>2, LockIsTheRule
  <2>2. t \in Instants /\ ComputeLockedUntil(n) - Window = t /\ n - Window \in Int
    BY <2>1 DEF StreakEnds, Instants
  <2>3. EndsStreak(t)
    BY <2>1, <2>2, SeenIsStreak DEF StreakEnds
  <2>. QED  BY <2>2, <2>3
<1>3. ASSUME NEW t \in n..MaxTime, EndsStreak(t)
      PROVE  t + Window <= ComputeLockedUntil(n)
  <2>1. t \in Instants /\ n <= t
    BY DEF Instants
  <2>. QED  BY <1>1, <1>3, <2>1, LockFound
<1>. QED  BY <1>2, <1>3

-----------------------------------------------------------------------------
(***************************************************************************)
(* The handlers.  Those in flight have instants of their own, and what     *)
(* they will record is not there yet.                                      *)
(***************************************************************************)
InFlight(h) == at[h] \notin {"done", "insert"}

LoginsFit ==
    /\ now \in Instants
    /\ status = "NONE" => created = 0
    /\ \A h \in Handlers :
        /\ InFlight(h) => started[h] \in Instants /\ started[h] <= now
        /\ at[h] \in {"check", "verify"} => attempts[started[h]] = "none"
        /\ \A g \in Handlers : InFlight(g) /\ InFlight(h) /\ g # h => started[g] # started[h]

(***************************************************************************)
(* A handler that read the row after the last lock knows its expiry, and   *)
(* once past the check it started after that.                              *)
(***************************************************************************)
LocksFit ==
    \A h \in Handlers \ stale :
        /\ at[h] = "check" => lockedUntil <= until[h]
        /\ at[h] \in {"verify", "count", "lock", "clear"} => lockedUntil <= started[h]

(***************************************************************************)
(* The lock of a streak is stored, about to be, or lost as forgone tells.  *)
(***************************************************************************)
Kept(t) ==
    EndsStreak(t) /\ now < t + Window =>
        \/ t + Window <= lockedUntil
        \/ \E h \in Handlers : Owes(h, t)
        \/ t \in forgone

LEMMA LoginStarts ==
    ASSUME LoginInit
    PROVE  LoginTypeOK /\ LoginsFit /\ LocksFit
<1>1. LoginTypeOK
  BY DEF LoginInit, LoginTypeOK, Statuses, Marks, Steps
<1>2. LoginsFit
  BY DEF LoginInit, LoginsFit, InFlight, Instants
<1>3. LocksFit
  BY DEF LoginInit, LocksFit
<1>. QED  BY <1>1, <1>2, <1>3

LEMMA LoginTypesKept ==
    ASSUME LoginTypeOK, LoginsFit, [LoginNext]_loginVars
    PROVE  LoginTypeOK'
<1>. USE DEF LoginTypeOK, Goes, row, calls
<1>1. ASSUME NEW h \in Handlers, \/ Register(h) \/ Reject(h) \/ Pass(h) \/ InsertRefused(h)
                                 \/ Issue(h) \/ Fails(h)
      PROVE  LoginTypeOK'
  BY <1>1 DEF Register, Reject, Pass, InsertRefused, Issue, Fails, Steps
<1>2. ASSUME NEW h \in Handlers, Insert(h)
      PROVE  LoginTypeOK'
  BY <1>2 DEF Insert, LoginsFit, Steps, Statuses
<1>3. CASE Activate \/ UpdateStatusSuspended
  BY <1>3 DEF Activate, UpdateStatusSuspended, Statuses
<1>4. CASE Tick
  BY <1>4 DEF Tick
<1>5. ASSUME NEW h \in Handlers, Start(h)
      PROVE  LoginTypeOK'
  BY <1>5 DEF Start, Steps, LoginsFit, Instants
<1>6. ASSUME NEW h \in Handlers, RecordFailure(h) \/ RecordSuccess(h)
      PROVE  LoginTypeOK'
  BY <1>6 DEF RecordFailure, RecordSuccess, Marks, Steps
<1>7. ASSUME NEW h \in Handlers, Count(h)
      PROVE  LoginTypeOK'
  <2>1. started[h] \in Instants
    BY <1>7 DEF Count, LoginsFit, InFlight
  <2>2. ComputeLockedUntil(started[h]) \in 0..(MaxTime + Window)
    BY <2>1, LockIsTyped DEF AttemptsFit
  <2>. QED  BY <1>7, <2>2 DEF Count, Steps
<1>8. ASSUME NEW h \in Handlers, Lock(h)
      PROVE  LoginTypeOK'
  BY <1>8 DEF Lock, SetLockedUntil, CutsShort, Statuses, Steps
<1>9. ASSUME NEW h \in Handlers, Clear(h)
      PROVE  LoginTypeOK'
  BY <1>9 DEF Clear, SetLockedUntil, CutsShort, Statuses, Steps
<1>10. CASE UNCHANGED loginVars
  BY <1>10 DEF loginVars
<1>. QED  BY <1>1, <1>2, <1>3, <1>4, <1>5, <1>6, <1>7, <1>8, <1>9, <1>10
          DEF LoginNext, Continue

LEMMA LoginsKept ==
    ASSUME LoginTypeOK, LoginsFit, [LoginNext]_loginVars
    PROVE  LoginsFit'
<1>. USE DEF LoginTypeOK, LoginsFit, InFlight, Goes, row, calls
<1>1. ASSUME NEW h \in Handlers, \/ Register(h) \/ Reject(h) \/ Pass(h) \/ InsertRefused(h)
                                 \/ Issue(h) \/ Fails(h)
      PROVE  LoginsFit'
  BY <1>1 DEF Register, Reject, Pass, InsertRefused, Issue, Fails
<1>2. ASSUME NEW h \in Handlers, Insert(h)
      PROVE  LoginsFit'
  BY <1>2 DEF Insert
<1>3. CASE Activate \/ UpdateStatusSuspended
  BY <1>3 DEF Activate, UpdateStatusSuspended
<1>4. CASE Tick
  <2>1. now' \in Instants /\ now <= now' /\ UNCHANGED <<status, attempts, at, started, created>>
    BY <1>4 DEF Tick, Instants
  <2>2. \A h \in Handlers : started[h] \in Nat /\ now \in Nat /\ now' \in Nat
    BY <2>1 DEF Instants
  <2>. QED  BY <2>1, <2>2
<1>5. ASSUME NEW h \in Handlers, Start(h)
      PROVE  LoginsFit'
  BY <1>5 DEF Start, Instants
<1>6. ASSUME NEW h \in Handlers, RecordFailure(h) \/ RecordSuccess(h)
      PROVE  LoginsFit'
  BY <1>6 DEF RecordFailure, RecordSuccess
<1>7. ASSUME NEW h \in Handlers, Count(h)
      PROVE  LoginsFit'
  BY <1>7 DEF Count
<1>8. ASSUME NEW h \in Handlers, Lock(h) \/ Clear(h)
      PROVE  LoginsFit'
  BY <1>8 DEF Lock, Clear, SetLockedUntil
<1>9. CASE UNCHANGED loginVars
  BY <1>9 DEF loginVars
<1>. QED  BY <1>1, <1>2, <1>3, <1>4, <1>5, <1>6, <1>7, <1>8, <1>9
          DEF LoginNext, Continue

LEMMA LocksKept ==
    ASSUME LoginTypeOK, LoginsFit, LocksFit, [LoginNext]_loginVars
    PROVE  LocksFit'
<1>. USE DEF LoginTypeOK, LocksFit, Goes, row, calls
<1>1. ASSUME NEW h \in Handlers, \/ Register(h) \/ Reject(h) \/ InsertRefused(h)
                                 \/ Issue(h) \/ Fails(h) \/ Insert(h)
      PROVE  LocksFit'
  BY <1>1 DEF Register, Reject, InsertRefused, Issue, Fails, Insert
<1>2. ASSUME NEW h \in Handlers, Pass(h)
      PROVE  LocksFit'
  <2>1. h \notin stale => lockedUntil <= started[h]
    BY <1>2 DEF Pass, Locked
  <2>. QED  BY <1>2, <2>1 DEF Pass
<1>3. CASE Activate \/ UpdateStatusSuspended \/ Tick
  BY <1>3 DEF Activate, UpdateStatusSuspended, Tick
<1>5. ASSUME NEW h \in Handlers, Start(h)
      PROVE  LocksFit'
  BY <1>5 DEF Start
<1>6. ASSUME NEW h \in Handlers, RecordFailure(h) \/ RecordSuccess(h)
      PROVE  LocksFit'
  BY <1>6 DEF RecordFailure, RecordSuccess
<1>7. ASSUME NEW h \in Handlers, Count(h)
      PROVE  LocksFit'
  BY <1>7 DEF Count
<1>8. ASSUME NEW h \in Handlers, Lock(h)
      PROVE  LocksFit'
  BY <1>8 DEF Lock, SetLockedUntil
<1>9. ASSUME NEW h \in Handlers, Clear(h)
      PROVE  LocksFit'
  <2>1. lockedUntil' = 0 /\ lockedUntil' <= lockedUntil
    BY <1>9 DEF Clear, SetLockedUntil
  <2>2. \A g \in Handlers : 0 <= until[g] /\ 0 <= started[g]
    OBVIOUS
  <2>. QED  BY <1>9, <2>1, <2>2 DEF Clear
<1>10. CASE UNCHANGED loginVars
  BY <1>10 DEF loginVars
<1>. QED  BY <1>1, <1>2, <1>3, <1>5, <1>6, <1>7, <1>8, <1>9, <1>10
          DEF LoginNext, Continue

(***************************************************************************)
(* A step that adds no attempt to a streak adds no streak.                 *)
(***************************************************************************)
LEMMA StreaksAreOld ==
    ASSUME NEW t \in Instants, NEW s \in Instants, AttemptsFit, AttemptsFit',
           attempts[s] = "none",
           \A u \in Instants : u # s => attempts'[u] = attempts[u],
           attempts'[s] = "ok" \/ s < t - Window \/ t < s,
           EndsStreak(t)'
    PROVE  EndsStreak(t)
<1>1. attempts'[t] = "bad" /\ Threshold <= Cardinality(Ending(t)')
  BY DEF EndsStreak, Ending
<1>2. t # s
  BY <1>1 DEF Instants
<1>3. Ending(t)' \subseteq Ending(t)
  <2>1. SUFFICES ASSUME NEW u \in Instants, t - Window <= u, u <= t, attempts'[u] = "bad",
                        \A v \in u..t : attempts'[v] # "ok"
                 PROVE  attempts[u] = "bad" /\ \A v \in u..t : attempts[v] # "ok"
    BY DEF Ending
  <2>2. u # s
    BY <2>1 DEF Instants
  <2>3. \A v \in u..t : v \in Instants
    BY <2>1 DEF Instants
  <2>4. \A v \in u..t : attempts[v] # "ok"
    BY <2>1, <2>3
  <2>. QED  BY <2>1, <2>2, <2>4
<1>4. /\ Cardinality(Ending(t)') <= Cardinality(Ending(t))
      /\ Cardinality(Ending(t)') \in Nat /\ Cardinality(Ending(t)) \in Nat
  <2>1. Ending(t) \in SUBSET Instants
    BY DEF Ending
  <2>. QED  BY <1>3, <2>1, InstantsAreFinite, FS_Subset, FS_CardinalityType
<1>. QED  BY <1>1, <1>2, <1>4 DEF EndsStreak, Ending

LEMMA LockKept ==
    ASSUME LoginTypeOK, LoginTypeOK', LoginsFit, LocksFit, [LoginNext]_loginVars,
           NEW t \in Instants, Kept(t)
    PROVE  Kept(t)'
<1>. USE DEF Goes, row, calls
<1>0. SUFFICES ASSUME EndsStreak(t)', now' < t + Window
               PROVE  \/ t + Window <= lockedUntil'
                      \/ \E h \in Handlers : Owes(h, t)'
                      \/ t \in forgone'
  BY DEF Kept
<1>a. /\ AttemptsFit /\ AttemptsFit' /\ now \in Nat /\ now' \in Nat /\ t \in Nat
      /\ lockedUntil \in Nat /\ lockedUntil' \in Nat
      /\ at \in [Handlers -> Steps] /\ started \in [Handlers -> Nat] /\ until \in [Handlers -> Nat]
      /\ Window \in Nat /\ forgone \subseteq Instants
  BY DEF LoginTypeOK, AttemptsFit, Instants
<1>b. ASSUME EndsStreak(t), now <= now'
      PROVE  \/ t + Window <= lockedUntil
             \/ \E h \in Handlers : Owes(h, t)
             \/ t \in forgone
  BY <1>0, <1>a, <1>b DEF Kept
<1>c. UNCHANGED attempts => EndsStreak(t)
  BY <1>0 DEF EndsStreak
<1>1. ASSUME NEW h \in Handlers, \/ Register(h) \/ Reject(h) \/ Pass(h) \/ InsertRefused(h)
                                 \/ Insert(h) \/ Issue(h) \/ Start(h)
      PROVE  Kept(t)'
  <2>1. /\ UNCHANGED <<now, lockedUntil, attempts, forgone>>
        /\ at[h] \notin {"count", "lock"}
        /\ \A g \in Handlers : g # h => /\ at'[g] = at[g] /\ started'[g] = started[g]
                                        /\ until'[g] = until[g]
    BY <1>1, <1>a DEF Register, Reject, Pass, InsertRefused, Insert, Issue, Start
  <2>2. \A g \in Handlers : Owes(g, t) => Owes(g, t)'
    BY <2>1 DEF Owes
  <2>. QED  BY <1>a, <1>b, <1>c, <2>1, <2>2 DEF Kept
<1>2. ASSUME Activate \/ UpdateStatusSuspended \/ Tick \/ UNCHANGED loginVars
      PROVE  Kept(t)'
  <2>1. UNCHANGED <<lockedUntil, attempts, forgone, at, started, until>> /\ now <= now'
    BY <1>2, <1>a DEF Activate, UpdateStatusSuspended, Tick, loginVars
  <2>2. \A g \in Handlers : Owes(g, t) => Owes(g, t)'
    BY <2>1 DEF Owes
  <2>. QED  BY <1>b, <1>c, <2>1, <2>2 DEF Kept
<1>3. ASSUME NEW h \in Handlers, RecordFailure(h) \/ RecordSuccess(h)
      PROVE  Kept(t)'
  <2>. DEFINE s == started[h]
  <2>1. s \in Instants /\ attempts[s] = "none"
    BY <1>3 DEF RecordFailure, RecordSuccess, LoginsFit, InFlight
  <2>2. /\ UNCHANGED <<now, lockedUntil, forgone, started, until>>
        /\ at[h] = "verify"
        /\ \A g \in Handlers : g # h => at'[g] = at[g]
        /\ \A u \in Instants : u # s => attempts'[u] = attempts[u]
    BY <1>3, <1>a DEF RecordFailure, RecordSuccess, AttemptsFit
  <2>3. \A g \in Handlers : Owes(g, t) => Owes(g, t)'
    BY <2>2 DEF Owes
  <2>4. attempts'[s] = "ok" \/ at'[h] = "count"
    BY <1>3, <1>a, <2>1 DEF RecordFailure, RecordSuccess, AttemptsFit
  <2>5. CASE attempts'[s] = "ok" \/ s < t - Window \/ t < s
    <3>1. EndsStreak(t)
      BY <1>0, <1>a, <2>1, <2>2, <2>5, StreaksAreOld
    <3>. QED  BY <1>a, <1>b, <2>2, <2>3, <3>1 DEF Kept
  <2>6. CASE ~ (attempts'[s] = "ok" \/ s < t - Window \/ t < s)
    <3>1. t - Window <= s /\ s <= t
      BY <1>a, <2>1, <2>6 DEF Instants
    <3>2. Owes(h, t)'
      BY <2>2, <2>4, <2>6, <3>1 DEF Owes
    <3>. QED  BY <3>2 DEF Kept
  <2>. QED  BY <2>5, <2>6
<1>4. ASSUME NEW h \in Handlers, Count(h)
      PROVE  Kept(t)'
  <2>1. /\ UNCHANGED <<now, lockedUntil, attempts, forgone, started>>
        /\ \A g \in Handlers : g # h => at'[g] = at[g] /\ until'[g] = until[g]
    BY <1>4, <1>a DEF Count
  <2>2. \A g \in Handlers : g # h /\ Owes(g, t) => Owes(g, t)'
    BY <2>1 DEF Owes
  <2>3. ASSUME Owes(h, t)
        PROVE  Owes(h, t)'
    <3>1. at[h] = "count" /\ started[h] \in Instants /\ started[h] <= t
      BY <1>4, <2>3 DEF Owes, Count, LoginsFit, InFlight
    <3>. DEFINE lock == ComputeLockedUntil(started[h])
    <3>2. t + Window <= lock /\ lock \in Nat
      <4>1. EndsStreak(t)
        BY <1>c, <2>1
      <4>2. lock \in 0..(MaxTime + Window)
        BY <1>a, <3>1, LockIsTyped
      <4>. QED  BY <1>a, <3>1, <4>1, <4>2, LockFound
    <3>3. started[h] < lock
      BY <1>a, <3>1, <3>2
    <3>4. at'[h] = "lock" /\ until'[h] = lock
      BY <1>4, <1>a, <3>3 DEF Count
    <3>. QED  BY <3>2, <3>4 DEF Owes
  <2>. QED  BY <1>a, <1>b, <1>c, <2>1, <2>2, <2>3 DEF Kept
<1>5. ASSUME NEW h \in Handlers, Fails(h)
      PROVE  Kept(t)'
  <2>1. /\ UNCHANGED <<now, lockedUntil, attempts, started, until>>
        /\ \A g \in Handlers : g # h => at'[g] = at[g]
        /\ forgone' = forgone \cup {u \in Instants : /\ EndsStreak(u) /\ Owes(h, u)
                                                      /\ lockedUntil < u + Window}
    BY <1>5, <1>a DEF Fails
  <2>2. \A g \in Handlers : g # h /\ Owes(g, t) => Owes(g, t)'
    BY <2>1 DEF Owes
  <2>3. Owes(h, t) => t + Window <= lockedUntil' \/ t \in forgone'
    BY <1>a, <1>c, <2>1
  <2>4. t \in forgone => t \in forgone'
    BY <2>1
  <2>. QED  BY <1>a, <1>b, <1>c, <2>1, <2>2, <2>3, <2>4 DEF Kept
<1>6. ASSUME NEW h \in Handlers, Lock(h) \/ Clear(h)
      PROVE  Kept(t)'
  <2>1. /\ UNCHANGED <<now, attempts, started, until>>
        /\ at[h] \in {"lock", "clear"}
        /\ \A g \in Handlers : g # h => at'[g] = at[g]
        /\ CutsShort(h)
        /\ at[h] = "lock" => lockedUntil' = until[h]
    BY <1>6, <1>a DEF Lock, Clear, SetLockedUntil
  <2>2. \A g \in Handlers : g # h /\ Owes(g, t) => Owes(g, t)'
    BY <2>1 DEF Owes
  <2>3. Owes(h, t) => t + Window <= lockedUntil'
    BY <2>1 DEF Owes
  <2>4. t \in forgone => t \in forgone'
    BY <2>1 DEF CutsShort
  <2>5. ASSUME t + Window <= lockedUntil
        PROVE  t + Window <= lockedUntil' \/ t \in forgone'
    <3>1. CASE h \in stale
      BY <1>a, <1>c, <2>1, <2>5, <3>1 DEF CutsShort
    <3>2. CASE h \notin stale
      <4>1. lockedUntil <= started[h]
        BY <2>1, <3>2 DEF LocksFit
      <4>2. started[h] <= now /\ started[h] \in Nat
        BY <1>a, <2>1 DEF LoginsFit, InFlight
      <4>. QED  BY <1>0, <1>a, <2>1, <2>5, <4>1, <4>2
    <3>. QED  BY <3>1, <3>2
  <2>. QED  BY <1>a, <1>b, <1>c, <2>1, <2>2, <2>3, <2>4, <2>5 DEF Kept
<1>7. ASSUME NEW h \in Handlers, Register(h) \/ Start(h) \/ Continue(h) \/ Fails(h)
      PROVE  Kept(t)'
  BY <1>1, <1>3, <1>4, <1>5, <1>6, <1>7 DEF Continue
<1>8. Kept(t)'
  BY <1>2, <1>7 DEF LoginNext
<1>. QED  BY <1>0, <1>8 DEF Kept

LEMMA LocksInForceKept ==
    ASSUME LoginTypeOK, LoginsFit, LocksFit, LockIsInForce, [LoginNext]_loginVars
    PROVE  LockIsInForce'
<1>1. ASSUME NEW t \in Instants
      PROVE  Kept(t)'
  <2>1. Kept(t)
    BY DEF LockIsInForce, Kept
  <2>. QED  BY <2>1, LoginTypesKept, LockKept
<1>. QED  BY <1>1 DEF LockIsInForce, Kept

-----------------------------------------------------------------------------
(***************************************************************************)
(* The guesses in a row within a window, those whose password is being     *)
(* verified counted as failures already.                                   *)
(***************************************************************************)
Verifying == {started[h] : h \in {g \in Handlers : at[g] = "verify"}}

InWindow(t) ==
    {u \in Instants : t - Window <= u /\ u <= t /\ \A v \in u..t : attempts[v] # "ok"}

Failed(t) == {u \in InWindow(t) : attempts[u] = "bad"}

Guessed(t) == {u \in InWindow(t) : attempts[u] = "bad" \/ u \in Verifying}

GuessesFit ==
    Threshold > 1 =>
    \A t \in Instants : Cardinality(Guessed(t)) <= Threshold - 1 + Cardinality(Handlers)

LoginInv == LoginTypeOK /\ LoginsFit /\ LocksFit /\ GuessesFit /\ LockIsInForce

LEMMA HandlersAreCounted == Cardinality(Handlers) \in Nat
BY FS_CardinalityType

(***************************************************************************)
(* Handlers start at no more instants than there are handlers.             *)
(***************************************************************************)
LEMMA FewAreStarted ==
    ASSUME NEW G \in SUBSET Handlers, NEW f
    PROVE  /\ IsFiniteSet({f[g] : g \in G})
           /\ Cardinality({f[g] : g \in G}) \in Nat
           /\ Cardinality({f[g] : g \in G}) <= Cardinality(Handlers)
<1>. DEFINE R == {f[g] : g \in G}
            s == [g \in G |-> f[g]]
<1>1. IsFiniteSet(G) /\ Cardinality(G) <= Cardinality(Handlers) /\ Cardinality(G) \in Nat
  BY FS_Subset, FS_CardinalityType
<1>2. s \in Surjection(G, R)
  BY DEF Surjection
<1>3. IsFiniteSet(R) /\ Cardinality(R) <= Cardinality(G)
  BY <1>1, <1>2, FS_Surjection
<1>. QED  BY <1>1, <1>3, HandlersAreCounted, FS_CardinalityType

(***************************************************************************)
(* A login that passes the check finds less than Threshold failures in any *)
(* row it could extend: the last of them would lock it out.                *)
(***************************************************************************)
LEMMA PassedFindsFew ==
    ASSUME LoginTypeOK, Threshold > 1, NEW s \in Instants, NEW t \in Instants,
           s <= t, t - Window <= s, NEW l, ~Locked(s, l)
    PROVE  Cardinality(Failed(t)) <= Threshold - 1
<1>. DEFINE B == Failed(t)
<1>1. IsFiniteSet(B) /\ Cardinality(B) \in Nat /\ B \in SUBSET (0..t) /\ B \in SUBSET Instants
      /\ s \in Nat /\ t \in Nat /\ AttemptsFit
  <2>1. B \in SUBSET Instants
    BY DEF Failed, InWindow
  <2>2. B \in SUBSET (0..t)
    BY DEF Failed, InWindow, Instants
  <2>. QED  BY <2>1, <2>2, InstantsAreFinite DEF Instants, LoginTypeOK, AttemptsFit
<1>2. SUFFICES ASSUME Cardinality(B) >= Threshold
               PROVE  FALSE
  BY <1>1
<1>3. B # {}
  BY <1>1, <1>2, FS_EmptySet
<1>4. PICK m \in B : \A u \in B : u <= m
  BY <1>1, <1>3, GreatestExists
<1>5. m \in Instants /\ m \in Nat /\ m <= t /\ attempts[m] = "bad"
  BY <1>1, <1>4 DEF Failed, InWindow, Instants
<1>6. m > t - Window
  <2>1. PICK u \in B : u # m
    <3>1. CASE B = {m}
      <4>1. Cardinality(B) = 1
        BY <3>1, FS_Singleton
      <4>. QED  BY <1>2, <4>1
    <3>2. CASE B # {m}
      BY <1>4, <3>2
    <3>. QED  BY <3>1, <3>2
  <2>2. u <= m /\ t - Window <= u /\ u \in Nat
    BY <1>1, <1>4 DEF Failed, InWindow, Instants
  <2>. QED  BY <1>1, <1>5, <2>1, <2>2
<1>7. EndsSeen(m, s - Window)
  <2>. DEFINE R == {u \in Instants :
                       /\ s - Window <= u /\ m - Window <= u /\ u <= m
                       /\ attempts[u] = "bad"
                       /\ \A v \in u..m : attempts[v] # "ok"}
  <2>1. ASSUME NEW u \in B
        PROVE  u \in R
    <3>1. u \in Nat /\ u \in Instants /\ u <= m /\ t - Window <= u /\ attempts[u] = "bad"
          /\ \A v \in u..t : attempts[v] # "ok"
      BY <1>1, <1>4 DEF Failed, InWindow
    <3>2. s - Window <= u /\ m - Window <= u
      BY <1>1, <1>5, <3>1
    <3>3. \A v \in u..m : v \in u..t
      BY <1>1, <1>5, <3>1
    <3>. QED  BY <3>1, <3>2, <3>3
  <2>2. IsFiniteSet(R) /\ Cardinality(R) \in Nat
    BY InstantsAreFinite
  <2>. HIDE DEF R
  <2>3. Cardinality(B) <= Cardinality(R)
    BY <2>1, <2>2, FS_Subset
  <2>4. Threshold <= Cardinality(R)
    BY <1>1, <1>2, <2>2, <2>3
  <2>. QED  BY <1>5, <2>4 DEF EndsSeen, R
<1>8. m \in StreakEnds(s)
  BY <1>1, <1>5, <1>6, <1>7 DEF StreakEnds
<1>9. PICK r \in StreakEnds(s) : /\ ComputeLockedUntil(s) = r + Window
                           /\ \A u \in StreakEnds(s) : u <= r
  BY <1>1, <1>8, LockIsTheRule
<1>10. m <= r /\ r \in Nat
  BY <1>8, <1>9 DEF StreakEnds, Instants
<1>11. s < ComputeLockedUntil(s)
  BY <1>1, <1>5, <1>6, <1>9, <1>10
<1>. QED  BY <1>11 DEF Locked

LEMMA FewerGuesses ==
    ASSUME GuessesFit,
           \A u \in Instants : attempts[u] = "ok" => attempts'[u] = "ok",
           \A u \in Instants : attempts'[u] = "bad" \/ u \in Verifying'
                                   => attempts[u] = "bad" \/ u \in Verifying
    PROVE  GuessesFit'
<1>1. SUFFICES ASSUME Threshold > 1, NEW t \in Instants
               PROVE  Cardinality(Guessed(t)') <= Threshold - 1 + Cardinality(Handlers)
  BY DEF GuessesFit
<1>2. ASSUME NEW u \in Guessed(t)'
      PROVE  u \in Guessed(t)
  <2>1. /\ u \in Instants /\ t - Window <= u /\ u <= t
        /\ \A v \in u..t : attempts'[v] # "ok"
        /\ attempts'[u] = "bad" \/ u \in Verifying'
    BY <1>2 DEF Guessed, InWindow
  <2>2. \A v \in u..t : v \in Instants
    BY <2>1 DEF Instants
  <2>3. \A v \in u..t : attempts[v] # "ok"
    BY <2>1, <2>2
  <2>. QED  BY <2>1, <2>3 DEF Guessed, InWindow
<1>3. IsFiniteSet(Guessed(t)) /\ Cardinality(Guessed(t)) \in Nat
  BY InstantsAreFinite DEF Guessed, InWindow
<1>4. Cardinality(Guessed(t)') <= Cardinality(Guessed(t)) /\ Cardinality(Guessed(t)') \in Nat
  BY <1>2, <1>3, FS_Subset, FS_CardinalityType
<1>5. Cardinality(Guessed(t)) <= Threshold - 1 + Cardinality(Handlers)
  BY <1>1 DEF GuessesFit
<1>. QED  BY <1>3, <1>4, <1>5, HandlersAreCounted

LEMMA PassKeepsGuesses ==
    ASSUME LoginInv, NEW h \in Handlers, Pass(h)
    PROVE  GuessesFit'
<1>. DEFINE s == started[h]
<1>1. s \in Instants /\ ~Locked(s, until[h]) /\ LoginTypeOK
  BY DEF Pass, LoginInv, LoginsFit, InFlight
<1>2. Verifying' = Verifying \cup {s} /\ UNCHANGED attempts
  BY <1>1 DEF Pass, Goes, Verifying, LoginTypeOK
<1>3. SUFFICES ASSUME Threshold > 1, NEW t \in Instants
               PROVE  Cardinality(Guessed(t)') <= Threshold - 1 + Cardinality(Handlers)
  BY DEF GuessesFit
<1>4. IsFiniteSet(Guessed(t)) /\ Cardinality(Guessed(t)) \in Nat
  BY InstantsAreFinite DEF Guessed, InWindow
<1>5. CASE s \notin InWindow(t)
  <2>1. Guessed(t)' = Guessed(t)
    BY <1>2, <1>5 DEF Guessed, InWindow
  <2>. QED  BY <1>3, <2>1 DEF LoginInv, GuessesFit
<1>6. CASE s \in InWindow(t)
  <2>1. Cardinality(Failed(t)) <= Threshold - 1
    BY <1>1, <1>3, <1>6, PassedFindsFew DEF InWindow
  <2>2. IsFiniteSet(Failed(t)) /\ Cardinality(Failed(t)) \in Nat
    BY InstantsAreFinite DEF Failed, InWindow
  <2>3. /\ IsFiniteSet(Verifying') /\ Cardinality(Verifying') \in Nat
        /\ Cardinality(Verifying') <= Cardinality(Handlers)
    BY FewAreStarted, {g \in Handlers : at'[g] = "verify"} \in SUBSET Handlers DEF Verifying
  <2>4. Guessed(t)' \subseteq Failed(t) \cup Verifying'
    BY <1>2 DEF Guessed, Failed, InWindow
  <2>. DEFINE V == Verifying'
  <2>. HIDE DEF V
  <2>5. /\ IsFiniteSet(Failed(t) \cup V)
        /\ Cardinality(Failed(t) \cup V)
             = Cardinality(Failed(t)) + Cardinality(V) - Cardinality(Failed(t) \cap V)
        /\ Cardinality(Failed(t) \cap V) \in Nat
    <3>1. IsFiniteSet(V)
      BY <2>3 DEF V
    <3>. QED  BY <2>2, <3>1, FS_Union, FS_Intersection, FS_CardinalityType
  <2>6. /\ Cardinality(Guessed(t)') <= Cardinality(Failed(t) \cup V)
        /\ Cardinality(Guessed(t)') \in Nat
    BY <2>4, <2>5, FS_Subset, FS_CardinalityType DEF V
  <2>. QED  BY <2>1, <2>2, <2>3, <2>5, <2>6, HandlersAreCounted DEF V
<1>. QED  BY <1>5, <1>6

LEMMA GuessesKept ==
    ASSUME LoginInv, [LoginNext]_loginVars
    PROVE  GuessesFit'
<1>. USE DEF Goes, row, calls
<1>0. /\ LoginTypeOK /\ GuessesFit
      /\ at \in [Handlers -> Steps] /\ attempts \in [Instants -> Marks]
  BY DEF LoginInv, LoginTypeOK
<1>1. ASSUME NEW h \in Handlers, \/ Register(h) \/ Reject(h) \/ InsertRefused(h) \/ Insert(h)
                                 \/ Issue(h) \/ Fails(h) \/ Count(h) \/ Lock(h) \/ Clear(h)
      PROVE  GuessesFit'
  <2>1. /\ UNCHANGED <<attempts, started>>
        /\ \A g \in Handlers : at'[g] = "verify" => at[g] = "verify"
    BY <1>0, <1>1 DEF Register, Reject, InsertRefused, Insert, Issue, Fails, Count, Lock, Clear,
                      SetLockedUntil
  <2>2. Verifying' \subseteq Verifying
    BY <2>1 DEF Verifying
  <2>. QED  BY <1>0, <2>1, <2>2, FewerGuesses
<1>2. CASE Activate \/ UpdateStatusSuspended \/ Tick \/ UNCHANGED loginVars
  <2>1. UNCHANGED <<attempts, started, at>>
    BY <1>2 DEF Activate, UpdateStatusSuspended, Tick, loginVars
  <2>2. Verifying' = Verifying
    BY <2>1 DEF Verifying
  <2>. QED  BY <1>0, <2>1, <2>2, FewerGuesses
<1>3. ASSUME NEW h \in Handlers, Start(h)
      PROVE  GuessesFit'
  <2>1. /\ UNCHANGED attempts
        /\ \A g \in Handlers : at'[g] = "verify" => at[g] = "verify" /\ started'[g] = started[g]
    BY <1>0, <1>3 DEF Start, LoginTypeOK
  <2>2. Verifying' \subseteq Verifying
    BY <2>1 DEF Verifying
  <2>. QED  BY <1>0, <2>1, <2>2, FewerGuesses
<1>4. ASSUME NEW h \in Handlers, RecordFailure(h) \/ RecordSuccess(h)
      PROVE  GuessesFit'
  <2>1. started[h] \in Verifying /\ started[h] \in Instants /\ attempts[started[h]] = "none"
    BY <1>4 DEF RecordFailure, RecordSuccess, Verifying, LoginInv, LoginsFit, InFlight
  <2>2. /\ UNCHANGED started
        /\ \A g \in Handlers : at'[g] = "verify" => at[g] = "verify"
        /\ \A u \in Instants : u # started[h] => attempts'[u] = attempts[u]
    BY <1>0, <1>4 DEF RecordFailure, RecordSuccess
  <2>3. Verifying' \subseteq Verifying
    BY <2>2 DEF Verifying
  <2>. QED  BY <1>0, <2>1, <2>2, <2>3, FewerGuesses
<1>. QED  BY <1>1, <1>2, <1>3, <1>4, PassKeepsGuesses DEF LoginNext, Continue

LEMMA NothingGuessedYet == LoginInit => GuessesFit
<1>1. SUFFICES ASSUME LoginInit, NEW t \in Instants
               PROVE  Cardinality(Guessed(t)) <= Threshold - 1 + Cardinality(Handlers)
  BY DEF GuessesFit
<1>2. Guessed(t) = {}
  BY <1>1 DEF LoginInit, Guessed, InWindow, Verifying
<1>. QED  BY <1>2, FS_EmptySet, HandlersAreCounted

-----------------------------------------------------------------------------
(***************************************************************************)
(* The inductive invariant: the handlers in flight have instants of their  *)
(* own, none but a stale one runs past a lock it does not know, and a row  *)
(* of guesses has its places for those being verified.                     *)
(***************************************************************************)
THEOREM LoginInvariant == LoginSpec => []LoginInv
<1>1. LoginInit => LoginInv
  <2>1. LoginInit => LockIsInForce
    BY DEF LoginInit, LockIsInForce, EndsStreak
  <2>. QED  BY <2>1, LoginStarts, NothingGuessedYet DEF LoginInv
<1>2. LoginInv /\ [LoginNext]_loginVars => LoginInv'
  BY LoginTypesKept, LoginsKept, LocksKept, GuessesKept, LocksInForceKept DEF LoginInv
<1>. QED  BY <1>1, <1>2, PTL DEF LoginSpec

(***************************************************************************)
(* For any policy, number of concurrent logins and order of recording: an  *)
(* email has one account, what a login computes follows the lockout rule,  *)
(* and the lock the rule asks for is the stored one or about to be, but    *)
(* for a failed query and a login that was overtaken.                      *)
(***************************************************************************)
THEOREM LockIsAlwaysSound == LoginSpec => []LockIsSound
<1>1. LoginInv => LockIsSound
  BY LockMatches DEF LoginInv, LoginTypeOK, LockIsSound, AttemptsFit
<1>. QED  BY <1>1, LoginInvariant, PTL

(***************************************************************************)
(* For any policy and number of concurrent logins: an email gets at most   *)
(* Threshold - 1 failures in a row within a window, and one per login in   *)
(* flight.                                                                 *)
(***************************************************************************)
THEOREM GuessesAreAlwaysBounded == LoginSpec => []GuessesAreBounded
<1>1. ASSUME LoginInv
      PROVE  GuessesAreBounded
  <2>1. SUFFICES ASSUME Threshold > 1, NEW t \in Instants
                 PROVE  Cardinality(Failed(t)) <= Threshold - 1 + Cardinality(Handlers)
    <3>1. \A t \in Instants :
            Failed(t) = {u \in Instants :
                            /\ t - Window <= u /\ u <= t
                            /\ attempts[u] = "bad"
                            /\ \A v \in u..t : attempts[v] # "ok"}
      BY DEF Failed, InWindow
    <3>. QED  BY <3>1 DEF GuessesAreBounded
  <2>2. Failed(t) \subseteq Guessed(t)
    BY DEF Failed, Guessed
  <2>3. IsFiniteSet(Guessed(t)) /\ Cardinality(Guessed(t)) \in Nat
    BY InstantsAreFinite DEF Guessed, InWindow
  <2>4. Cardinality(Failed(t)) <= Cardinality(Guessed(t)) /\ Cardinality(Failed(t)) \in Nat
    BY <2>2, <2>3, FS_Subset, FS_CardinalityType
  <2>5. Cardinality(Guessed(t)) <= Threshold - 1 + Cardinality(Handlers)
    BY <1>1, <2>1 DEF LoginInv, GuessesFit
  <2>. QED  BY <2>3, <2>4, <2>5, HandlersAreCounted
<1>. QED  BY <1>1, LoginInvariant, PTL

(***************************************************************************)
(* A lock in force is shortened only by the UPDATE of a login that was in  *)
(* flight when it was stored, and no login makes a suspended account       *)
(* usable.                                                                 *)
(***************************************************************************)
THEOREM LocksOutliveLaterLogins == LoginSpec => OnlyStaleLoginsShorten
<1>1. ASSUME LoginInv, [LoginNext]_loginVars, Shortens
      PROVE  \E h \in stale : at[h] \in {"lock", "clear"} /\ at'[h] # at[h]
  <2>1. now \in Nat /\ lockedUntil \in Nat
    BY <1>1 DEF LoginInv, LoginTypeOK
  <2>2. lockedUntil' # lockedUntil
    BY <1>1, <2>1 DEF Shortens
  <2>3. PICK h \in Handlers : Lock(h) \/ Clear(h)
    BY <1>1, <2>2 DEF LoginNext, Continue, Activate, UpdateStatusSuspended, Tick, Register, Start,
                      Insert, InsertRefused, Reject, Pass, RecordFailure, RecordSuccess, Count,
                      Issue, Fails, row, loginVars
  <2>4. at[h] \in {"lock", "clear"} /\ at'[h] \in {"done", "issue"}
    BY <1>1, <2>3 DEF Lock, Clear, Goes, LoginInv, LoginTypeOK
  <2>5. ASSUME h \notin stale
        PROVE  FALSE
    <3>1. lockedUntil <= started[h]
      BY <1>1, <2>4, <2>5 DEF LoginInv, LocksFit
    <3>2. started[h] <= now /\ started[h] \in Nat
      BY <1>1, <2>4 DEF LoginInv, LoginsFit, InFlight, Instants
    <3>. QED  BY <1>1, <2>1, <3>1, <3>2 DEF Shortens
  <2>. QED  BY <2>4, <2>5
<1>2. ASSUME LoginInv, [LoginNext]_loginVars, status = "SUSPENDED"
      PROVE  status' = "SUSPENDED"
  BY <1>2 DEF LoginNext, Continue, Activate, UpdateStatusSuspended, Tick, Register, Start,
              Insert, InsertRefused, Reject, Pass, RecordFailure, RecordSuccess, Count,
              Lock, Clear, SetLockedUntil, Issue, Fails, row, loginVars
<1>. QED  BY <1>1, <1>2, LoginInvariant, PTL DEF LoginSpec, OnlyStaleLoginsShorten
=============================================================================
