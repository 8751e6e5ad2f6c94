------------------------------ MODULE Gateway ------------------------------
(***************************************************************************)
(* The gateway: the two rate limiters, the decision of Routes, and the     *)
(* proxy, which forwards a request once and gives it up after a while,     *)
(* whatever the service behind it still does.  (services/bff/src)          *)
(*                                                                         *)
(* The gateway is several processes (deploy/k8s/11-bff.yaml), each with    *)
(* counters of its own in memory, and a request may reach any of them.  A  *)
(* process that was restarted has lost them: it counts as another one.     *)
(* A request waits for its body, then for the service.  Requests that are  *)
(* over are forgotten, so that their ids can be used again; the limiters   *)
(* and the history of what passed them remain.  Time is in ticks.          *)
(***************************************************************************)
EXTENDS Routes, FiniteSets

CONSTANTS
    Ids,            \* requests at one time
    Inputs,         \* the requests clients make
    Processes,      \* processes of the gateway, restarted ones included
    Addresses,      \* client addresses, as the gateway sees them
    RateWindow,     \* rateLimitWindowMs
    AuthRateWindow, \* authRateLimitWindowMs
    Max,            \* rateLimitMax
    AuthMax,        \* authRateLimitMax
    LastTime        \* bound: instants

ASSUME LimitsAssumption ==
    {RateWindow, AuthRateWindow, Max, AuthMax, LastTime} \subseteq Nat \ {0}
ASSUME InputsAssumption == Inputs # {} /\ Inputs \subseteq GatewayRequests
ASSUME ProcessesAssumption == IsFiniteSet(Processes)

VARIABLES
    clock,          \* the clock
    hits,           \* hits[l][c]: requests limiter l counted in the window of c
    reset,          \* reset[l][c]: when that window ends
    stage,          \* stage[i]: where request i is
    req,            \* req[i]: the request
    answer,         \* answer[i]: the answer, 0 before there is one
    seen,           \* seen[i]: the caller as the service was told
    runs,           \* external: times the service executed request i
    passed          \* history: passed[l][c][t] requests of c let through by l at t

limits == <<hits, reset>>
gatewayVars == <<clock, limits, stage, req, answer, seen, runs, passed>>

Limiters == {"general", "auth"}
Limit == [general |-> Max, auth |-> AuthMax]
WindowOf == [general |-> RateWindow, auth |-> AuthRateWindow]
Clients == Processes \X Addresses       \* an address as a process knows it
Times == 1..LastTime
Stages == {"none", "reading", "forwarded", "answered"}
Codes == {0, 200, 400, 401, 403, 404, 413, 429, 502, 504}

GatewayInit ==
    /\ clock = 1
    /\ hits = [l \in Limiters |-> [c \in Clients |-> 0]]
    /\ reset = [l \in Limiters |-> [c \in Clients |-> 0]]
    /\ stage = [i \in Ids |-> "none"]
    /\ req = [i \in Ids |-> CHOOSE x \in Inputs : TRUE]
    /\ answer = [i \in Ids |-> 0]
    /\ seen = [i \in Ids |-> "none"]
    /\ runs = [i \in Ids |-> 0]
    /\ passed = [l \in Limiters |-> [c \in Clients |-> [t \in Times |-> 0]]]

(***************************************************************************)
(* The limiters a request runs into, the general one first.  A limiter     *)
(* opens a window at the first request of an address that its process      *)
(* gets, counts every request and lets the first so many through.          *)
(***************************************************************************)
Limited(x) ==
    IF \E p \in {<<"auth", "login">>, <<"auth", "register">>, <<"auth", "refresh">>} :
           Len(x.path) >= 2 /\ SubSeq(x.path, 1, 2) = p
    THEN Limiters ELSE {"general"}

\* Past its limit a count makes no difference any more, and stops.
More(l, n) == IF n > Limit[l] THEN n ELSE n + 1

CountOf(l, c) == IF reset[l][c] <= clock THEN 1 ELSE More(l, hits[l][c])

\* Broken variant of Passes: one request too many.
PassesOneMore(l, c) == CountOf(l, c) <= Limit[l] + 1

Passes(l, c) == CountOf(l, c) <= Limit[l]

\* The limiters that count x: the second one does if the first lets it through.
Counting(x, c) == IF Passes("general", c) THEN Limited(x) ELSE {"general"}

Tally(x, c) ==
    LET C == Counting(x, c) IN
    /\ hits' = [l \in Limiters |-> [hits[l] EXCEPT ![c] = IF l \in C THEN CountOf(l, c) ELSE @]]
    /\ reset' = [l \in Limiters |-> [reset[l] EXCEPT ![c] =
                    IF l \in C /\ reset[l][c] <= clock THEN clock + WindowOf[l] ELSE @]]
    /\ passed' = [l \in Limiters |-> [passed[l] EXCEPT ![c][clock] =
                    IF l \in C /\ Passes(l, c) THEN @ + 1 ELSE @]]

Moves(i, s, code) ==
    /\ stage' = [stage EXCEPT ![i] = s]
    /\ answer' = [answer EXCEPT ![i] = code]

(***************************************************************************)
(* A request comes in at a process: 429, or its body is read.              *)
(***************************************************************************)
Arrive(i, x, c) ==
    /\ stage[i] = "none"
    /\ req' = [req EXCEPT ![i] = x]
    /\ Tally(x, c)
    /\ IF \A l \in Limited(x) : Passes(l, c)
       THEN Moves(i, "reading", 0)
       ELSE Moves(i, "answered", 429)
    /\ UNCHANGED <<clock, seen, runs>>

\* Broken variant of Refuse: no return behind next(error).
RefuseAndForward(i) ==
    /\ stage[i] = "reading"
    /\ Decision(req[i]) # 0
    /\ Moves(i, "forwarded", Decision(req[i]))
    /\ UNCHANGED <<clock, limits, req, seen, runs, passed>>

(***************************************************************************)
(* The body is there: the request is refused, or fetch is called.          *)
(***************************************************************************)
Refuse(i) ==
    /\ stage[i] = "reading"
    /\ Decision(req[i]) # 0
    /\ Moves(i, "answered", Decision(req[i]))
    /\ UNCHANGED <<clock, limits, req, seen, runs, passed>>

\* Broken variant of Forward: the headers of the client go on as they are.
ForwardHeaders(i) ==
    /\ stage[i] = "reading"
    /\ Decision(req[i]) = 0
    /\ Moves(i, "forwarded", 0)
    /\ seen' = [seen EXCEPT ![i] =
                   IF Identity(req[i]) # "none" THEN Identity(req[i]) ELSE req[i].claims]
    /\ UNCHANGED <<clock, limits, req, runs, passed>>

Forward(i) ==
    /\ stage[i] = "reading"
    /\ Decision(req[i]) = 0
    /\ Moves(i, "forwarded", 0)
    /\ seen' = [seen EXCEPT ![i] = Identity(req[i])]
    /\ UNCHANGED <<clock, limits, req, runs, passed>>

(***************************************************************************)
(* External: the service executes the request, before or after the gateway *)
(* has given it up.                                                        *)
(***************************************************************************)
Execute(i) ==
    /\ \/ stage[i] = "forwarded"
       \/ stage[i] = "answered" /\ answer[i] \in {502, 504}
    /\ runs[i] = 0
    /\ runs' = [runs EXCEPT ![i] = 1]
    /\ UNCHANGED <<clock, limits, stage, req, answer, seen, passed>>

(***************************************************************************)
(* The proxy hands the response on, or catches the failure of fetch: the   *)
(* timer fired, or the connection broke, and nobody knows what was done.   *)
(***************************************************************************)
Relay(i) ==
    /\ stage[i] = "forwarded"
    /\ runs[i] > 0
    /\ Moves(i, "answered", 200)
    /\ UNCHANGED <<clock, limits, req, seen, runs, passed>>

\* Broken variant of GiveUp: a broken connection is tried again.
GiveUpOrRetry(i) ==
    /\ stage[i] = "forwarded"
    /\ \/ Moves(i, "answered", 504) /\ UNCHANGED runs
       \/ Moves(i, "forwarded", 0) /\ runs' = [runs EXCEPT ![i] = IF @ < 2 THEN @ + 1 ELSE @]
    /\ UNCHANGED <<clock, limits, req, seen, passed>>

\* Broken variant of GiveUp: the timer guards only the body of the response.
GiveUpOnBody(i) ==
    /\ stage[i] = "forwarded"
    /\ runs[i] > 0
    /\ \E code \in {502, 504} : Moves(i, "answered", code)
    /\ UNCHANGED <<clock, limits, req, seen, runs, passed>>

GiveUp(i) ==
    /\ stage[i] = "forwarded"
    /\ \E code \in {502, 504} : Moves(i, "answered", code)
    /\ UNCHANGED <<clock, limits, req, seen, runs, passed>>

(***************************************************************************)
(* The model's own: a request that is over makes room for another one.     *)
(***************************************************************************)
Forget(i) ==
    /\ stage[i] = "answered"
    /\ Moves(i, "none", 0)
    /\ req' = [req EXCEPT ![i] = CHOOSE x \in Inputs : TRUE]
    /\ seen' = [seen EXCEPT ![i] = "none"]
    /\ runs' = [runs EXCEPT ![i] = 0]
    /\ UNCHANGED <<clock, limits, passed>>

ClockTicks ==
    /\ clock < LastTime
    /\ clock' = clock + 1
    /\ UNCHANGED <<limits, stage, req, answer, seen, runs, passed>>

GatewayNext ==
    \/ ClockTicks
    \/ \E i \in Ids :
        \/ \E x \in Inputs, c \in Clients : Arrive(i, x, c)
        \/ Refuse(i) \/ Forward(i) \/ Execute(i) \/ Relay(i) \/ GiveUp(i) \/ Forget(i)

(***************************************************************************)
(* Bodies arrive, and every proxied request has a timer.  The service need *)
(* not do anything.                                                        *)
(***************************************************************************)
GatewayFairness ==
    \A i \in Ids :
        /\ WF_gatewayVars(Refuse(i) \/ Forward(i))
        /\ WF_gatewayVars(GiveUp(i))

GatewaySpec == GatewayInit /\ [][GatewayNext]_gatewayVars /\ GatewayFairness

-----------------------------------------------------------------------------

GatewayTypeOK ==
    /\ clock \in Times
    /\ hits \in [Limiters -> [Clients -> Nat]]
    /\ reset \in [Limiters -> [Clients -> Nat]]
    /\ stage \in [Ids -> Stages]
    /\ req \in [Ids -> Inputs]
    /\ answer \in [Ids -> Codes]
    /\ seen \in [Ids -> Roles \cup {"none"}]
    /\ runs \in [Ids -> 0..1]
    /\ \A i \in Ids : Cardinality(Matches(req[i].method, req[i].path)) <= 1

(***************************************************************************)
(* A client that was refused may correct its request and send it again:    *)
(* nothing was done.  What is done was asked for by somebody who may, the  *)
(* service knows by whom, and it is done once.  After a 502 or a 504 the   *)
(* client knows nothing.                                                   *)
(***************************************************************************)
MayCall(x) ==
    \E r \in ROUTE_TABLE :
        /\ r.method = x.method
        /\ matchPattern(r.pattern, x.path)
        /\ r.auth = "authenticated" => x.token \in r.allowedRoles

Caller(x) == IF MayCall([x EXCEPT !.token = "none"]) THEN "none" ELSE x.token

RefusedIsHarmless ==
    \A i \in Ids :
        /\ answer[i] \in 400..499 => runs[i] = 0
        /\ runs[i] > 0 => runs[i] = 1 /\ MayCall(req[i]) /\ seen[i] = Caller(req[i])
        /\ answer[i] = 200 => runs[i] = 1

(***************************************************************************)
(* The values are those of the code, a request is of at most one route,    *)
(* and its answer can be relied upon.                                      *)
(***************************************************************************)
AnswersAreSound ==
    /\ GatewayTypeOK
    /\ RefusedIsHarmless

(***************************************************************************)
(* However requests are spread over time and over the processes, within    *)
(* any length of a limiter's window an address gets less than twice the    *)
(* limit through each process: a window opens with its first request, so   *)
(* that of two bursts around the end of one window the earlier one is      *)
(* short of that request.  Each process counts for itself: an address that *)
(* is spread over all of them gets as many times that through.             *)
(***************************************************************************)
PassedIn(l, a, G, T) ==
    Cardinality(UNION {{p} \X (1..passed[l][<<p[1], a>>][p[2]]) : p \in G \X T})

RatesAreBounded ==
    \A l \in Limiters, a \in Addresses, G \in SUBSET Processes, t \in Times :
        PassedIn(l, a, G, {u \in Times : t <= u /\ u < t + WindowOf[l]})
            <= Cardinality(G) * (2 * Limit[l] - 1)

(***************************************************************************)
(* Every request is answered, also when the service behind it never does.  *)
(***************************************************************************)
RequestsEnd == \A i \in Ids : stage[i] # "none" ~> stage[i] \in {"answered", "none"}

(***************************************************************************)
(* "interactive mutations (cart qty/remove, reservation renew, fulfilment  *)
(* actions, payment initiate, etc.) are routed through this handler"       *)
(* (frontend, api/bff/[...path]/route.ts): none that a page offers to a    *)
(* user of its role is turned down by the gateway.                         *)
(***************************************************************************)
MutationsPass == \A i \in Ids : answer[i] \notin {400, 401, 403, 404, 413}
=============================================================================
