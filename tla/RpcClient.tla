----------------------------- MODULE RpcClient -----------------------------
(***************************************************************************)
(* Calls over several RPC servers: the retries and the failover of           *)
(* rpc/client.js, and the races of rpc/connection-manager.js that choose the *)
(* active server by latency.                                                *)
(*                                                                         *)
(* A race probes every server; one race runs at a time, and whoever asks for *)
(* one meanwhile goes on with the active server.  Only the call that started *)
(* a race waits for it.  A latency is a member of a small set.               *)
(***************************************************************************)
EXTENDS Integers, Sequences

CONSTANTS
    Urls,           \* options.urls, a sequence of different servers
    Alive, Dying,   \* servers that always answer, and that stop answering one day
    RpcCalls,       \* the calls that can be under way at once (a bound)
    Retries,        \* options.retries
    Latencies,      \* what a response can take
    Degradation,    \* options.degradationFactor
    RacesBy,        \* who races beside the calls: "interval" (options.raceInterval)
                    \* and "user" (race())
    Infinity, Unknown, Nobody

Servers == {Urls[i] : i \in 1 .. Len(Urls)}
IsMultiServer == Len(Urls) > 1
Attempts == Retries + 1

ASSUME RpcAssumption ==
    /\ Urls \in Seq(Servers) /\ Len(Urls) > 0
    /\ \A i, j \in 1 .. Len(Urls) : Urls[i] = Urls[j] => i = j
    /\ Alive \subseteq Servers /\ Dying \subseteq Servers \ Alive
    /\ RacesBy \subseteq {"interval", "user"}
    /\ Retries \in Nat /\ Latencies \subseteq Nat /\ Degradation \in Nat
    /\ Infinity \in Nat /\ \A l \in Latencies : l < Infinity
    /\ Unknown \in Int /\ Unknown < 0
    /\ RpcCalls \intersect {Nobody, "background", "user"} = {}

VARIABLES
    active,         \* activeUrl of the manager
    clientUrl,      \* this.url of the client
    baseline,       \* baselineLatency; 0 and null are the same to the code
    latencies, ranked, initialized,
    racer,          \* who started the race under way, or Nobody
    result,         \* what the probes of that race returned
    raceTimer,
    rcall,          \* the calls
    down            \* the dying servers have stopped

managerVars == <<active, baseline, latencies, ranked, initialized, raceTimer>>
rpcVars == <<managerVars, clientUrl, racer, result, rcall, down>>

NoCall == [pc |-> "idle", kind |-> "get", attempt |-> 0, server |-> Urls[1],
           outcome |-> "none"]

RpcInit ==
    /\ active = Urls[1] /\ clientUrl = Urls[1]
    /\ baseline = 0 /\ ranked = Urls /\ initialized = FALSE
    /\ latencies = [s \in Servers |-> Unknown]
    /\ racer = Nobody /\ raceTimer = FALSE
    /\ result = [s \in Servers |-> Unknown]
    /\ rcall = [c \in RpcCalls |-> NoCall]
    /\ down = FALSE

-----------------------------------------------------------------------------
(***************************************************************************)
(* What the answers mean to each kind of request: return with a success or a *)
(* failure, try again after a while, or fail over.                          *)
(***************************************************************************)
CallOn == [ok |-> "done", error |-> "refused", busy |-> "again", auth |-> "refused",
           http |-> "failover", none |-> "failover"]
PostOn == [ok |-> "done", busy |-> "again", auth |-> "refused",
           http |-> "failover", none |-> "failover"]
PostBinaryOn == [ok |-> "done", auth |-> "refused", http |-> "failover", none |-> "failover"]
GetOn == [ok |-> "done", auth |-> "refused", http |-> "failover", none |-> "failover"]

On(kind) ==
    CASE kind = "call" -> CallOn [] kind = "post" -> PostOn
      [] kind = "postBinary" -> PostBinaryOn [] kind = "get" -> GetOn

\* What a server may answer to a request.
Answers(s) ==
    IF s \in Alive THEN {"ok", "error"}
    ELSE IF s \in Dying THEN IF down THEN {"none"} ELSE {"ok", "error"}
    ELSE {"ok", "http", "none", "busy"}

-----------------------------------------------------------------------------
(***************************************************************************)
(* race()                                                                  *)
(***************************************************************************)
Racing == racer # Nobody

StartRace(who) ==
    /\ racer' = who
    /\ result' = [s \in Servers |-> Unknown]

ProbeReturns(s) ==
    /\ Racing /\ result[s] = Unknown
    /\ \E l \in Latencies \union {Infinity} :
          /\ l = Infinity => s \notin Alive /\ (s \in Dying => down)
          /\ l # Infinity => ~(s \in Dying /\ down)
          /\ result' = [result EXCEPT ![s] = l]
          /\ latencies' = [latencies EXCEPT ![s] = l]
    /\ UNCHANGED <<active, baseline, ranked, initialized, raceTimer, clientUrl, racer, rcall, down>>

\* The order of the failovers until the next race: by latency, and the sort is
\* stable.
LatencyOf(s) == IF latencies[s] = Unknown THEN Infinity ELSE latencies[s]
UrlAt(s) == CHOOSE i \in 1 .. Len(Urls) : Urls[i] = s
Faster(s, t) ==
    \/ LatencyOf(s) < LatencyOf(t)
    \/ LatencyOf(s) = LatencyOf(t) /\ UrlAt(s) < UrlAt(t)

Ranking ==
    CHOOSE order \in [1 .. Len(Urls) -> Servers] :
        /\ \A s \in Servers : \E i \in 1 .. Len(Urls) : order[i] = s
        /\ \A i, j \in 1 .. Len(Urls) : i < j => Faster(order[i], order[j])

\* The first of the fastest servers, by the results of the race.
Responding == {s \in Servers : result[s] \in Nat /\ result[s] < Infinity}
Best ==
    LET fastest == {s \in Responding : \A t \in Responding : result[s] <= result[t]}
        first == CHOOSE i \in 1 .. Len(Urls) :
                    Urls[i] \in fastest /\ \A j \in 1 .. i - 1 : Urls[j] \notin fastest
    IN Urls[first]

\* Seeded fault: one attempt too many.
Ask_OneMore(c, n, server) ==
    rcall' = [rcall EXCEPT ![c] =
        IF n <= Attempts + 1
        THEN [@ EXCEPT !.pc = "asking", !.attempt = n, !.server = server]
        ELSE [@ EXCEPT !.pc = "idle", !.outcome = "exhausted"]]

\* The request of attempt n of call c, or the end of the call.
Ask(c, n, server) ==
    rcall' = [rcall EXCEPT ![c] =
        IF n <= Attempts
        THEN [@ EXCEPT !.pc = "asking", !.attempt = n, !.server = server]
        ELSE [@ EXCEPT !.pc = "idle", !.outcome = "exhausted"]]

RaceEnds ==
    /\ Racing /\ \A s \in Servers : result[s] # Unknown
    /\ ranked' = Ranking
    /\ IF Responding = {} THEN UNCHANGED <<active, baseline, initialized>>
       ELSE active' = Best /\ baseline' = result[Best] /\ initialized' = TRUE
    /\ raceTimer' = (raceTimer \/ "interval" \in RacesBy)
    /\ racer' = Nobody
    /\ IF racer = "background" THEN UNCHANGED <<clientUrl, rcall>>
       ELSE /\ clientUrl' = active'
            /\ IF racer = "user" THEN UNCHANGED rcall
               ELSE Ask(racer, rcall[racer].attempt + 1, active')
    /\ UNCHANGED <<latencies, result, down>>

\* The interval of races, and race() of the client.
RaceAgain ==
    /\ ~Racing
    /\ \/ raceTimer /\ StartRace("background")
       \/ "user" \in RacesBy /\ IsMultiServer /\ StartRace("user")
    /\ UNCHANGED <<managerVars, clientUrl, rcall, down>>

-----------------------------------------------------------------------------
(***************************************************************************)
(* The requests                                                            *)
(***************************************************************************)
\* A call begins: _resolveUrl() races the servers the first time.
BeginCall(c, kind) ==
    /\ rcall[c].pc = "idle"
    /\ LET begun == [NoCall EXCEPT !.kind = kind] IN
       IF initialized \/ Racing \/ ~IsMultiServer
       THEN /\ clientUrl' = active
            /\ initialized' = (initialized \/ ~IsMultiServer)
            /\ rcall' = [rcall EXCEPT ![c] =
                  [begun EXCEPT !.pc = "asking", !.attempt = 1, !.server = active]]
            /\ UNCHANGED <<racer, result>>
       ELSE /\ rcall' = [rcall EXCEPT ![c] = [begun EXCEPT !.pc = "racing"]]
            /\ StartRace(c)
            /\ UNCHANGED <<clientUrl, initialized>>
    /\ UNCHANGED <<active, baseline, latencies, ranked, raceTimer, down>>

\* recordLatency() after a response: the time counts for the active server,
\* which need not be the one that was asked.
Recorded(l) ==
    IF IsMultiServer /\ baseline # 0 THEN [latencies EXCEPT ![active] = l] ELSE latencies
Degraded(l) == IsMultiServer /\ baseline # 0 /\ l > baseline * Degradation

CallEnds(c, outcome) ==
    rcall' = [rcall EXCEPT ![c] = [@ EXCEPT !.pc = "idle", !.outcome = outcome]]

\* Another round of the loop after the delay, or the end of the call.
Sleep(c, outcome) ==
    rcall' = [rcall EXCEPT ![c] =
        IF @.attempt < Attempts THEN [@ EXCEPT !.pc = "sleeping"]
        ELSE [@ EXCEPT !.pc = "idle", !.outcome = outcome]]

\* The response is in: it is read on the server's time.
Responds(c, answer, l) ==
    /\ rcall[c].pc = "asking"
    /\ answer \in Answers(rcall[c].server) \ {"none", "http"}
    /\ answer \in DOMAIN On(rcall[c].kind)
    /\ LET then == On(rcall[c].kind)[answer] IN
       IF then = "again" THEN Sleep(c, "done") ELSE CallEnds(c, then)
    /\ latencies' = Recorded(l)
    /\ IF Degraded(l) /\ ~Racing THEN StartRace("background")
       ELSE UNCHANGED <<racer, result>>
    /\ clientUrl' = active
    /\ UNCHANGED <<active, baseline, ranked, initialized, raceTimer, down>>

\* Seeded fault: the failed server stays in the ranking.
NextServers_KeepsFailed(known) == {i \in 1 .. Len(ranked) : ranked[i] # active}

\* The places in the ranking of the servers not known to have failed.
NextServers(known) ==
    {i \in 1 .. Len(ranked) : ranked[i] # active /\ known[ranked[i]] < Infinity}

\* Seeded fault: the active server is kept until the next race.
HandleFailure_Stays(c, recorded, background) ==
    /\ Ask(c, rcall[c].attempt + 1, active)
    /\ UNCHANGED <<managerVars, clientUrl, racer, result, down>>

\* handleFailure(): the active server is the one that failed; the next in the
\* ranking takes over, and when all have failed they race again.
HandleFailure(c, recorded, background) ==
    LET known == [recorded EXCEPT ![active] = Infinity]
        left == NextServers(known)
        url == ranked[CHOOSE i \in left : \A j \in left : i <= j]
    IN
    /\ latencies' = known
    /\ IF left # {} \/ Racing \/ background
       THEN /\ active' = IF left # {} THEN url ELSE active
            /\ clientUrl' = active'
            /\ Ask(c, rcall[c].attempt + 1, active')
            /\ IF background THEN StartRace("background") ELSE UNCHANGED <<racer, result>>
       ELSE /\ rcall' = [rcall EXCEPT ![c] = [@ EXCEPT !.pc = "racing"]]
            /\ StartRace(c)
            /\ UNCHANGED <<active, clientUrl>>
    /\ UNCHANGED <<baseline, ranked, initialized, raceTimer, down>>

\* The request fails, with a response or without one.
Fails(c, answer, l) ==
    /\ rcall[c].pc = "asking"
    /\ answer \in Answers(rcall[c].server) \intersect {"none", "http"}
    /\ IF IsMultiServer
       THEN IF answer = "http"
            THEN HandleFailure(c, Recorded(l), Degraded(l) /\ ~Racing)
            ELSE HandleFailure(c, latencies, FALSE)
       ELSE Sleep(c, "exhausted") /\ UNCHANGED <<managerVars, clientUrl, racer, result, down>>

\* The delay is over; this.url is whatever the calls and races left there.
Wakes(c) ==
    /\ rcall[c].pc = "sleeping"
    /\ Ask(c, rcall[c].attempt + 1, clientUrl)
    /\ UNCHANGED <<managerVars, clientUrl, racer, result, down>>

RpcStep(c) ==
    \/ \E l \in Latencies, answer \in DOMAIN CallOn : Responds(c, answer, l) \/ Fails(c, answer, l)
    \/ Wakes(c)

\* The dying servers stop, each for good.
ServersDie ==
    /\ ~down /\ Dying # {} /\ down' = TRUE
    /\ UNCHANGED <<managerVars, clientUrl, racer, result, rcall>>

RpcNext ==
    \/ ServersDie
    \/ RaceAgain \/ RaceEnds
    \/ \E s \in Servers : ProbeReturns(s)
    \/ \E c \in RpcCalls :
          \/ RpcStep(c)
          \/ \E kind \in {"call", "post", "postBinary", "get"} : BeginCall(c, kind)

RpcSpec == RpcInit /\ [][RpcNext]_rpcVars

\* Requests and probes end, by their timeouts if nothing else.
RpcFairness ==
    /\ WF_rpcVars(RaceEnds)
    /\ \A s \in Servers : WF_rpcVars(ProbeReturns(s))
    /\ \A c \in RpcCalls : WF_rpcVars(RpcStep(c))

-----------------------------------------------------------------------------
\* Types of the client and the manager.
RpcTypeOK ==
    /\ active \in Servers /\ clientUrl \in Servers /\ baseline \in Nat
    /\ latencies \in [Servers -> Latencies \union {Unknown, Infinity}]
    /\ ranked \in Seq(Servers) /\ Len(ranked) = Len(Urls)
    /\ initialized \in BOOLEAN /\ raceTimer \in BOOLEAN
    /\ racer \in RpcCalls \union {"background", "user", Nobody}
    /\ result \in [Servers -> Latencies \union {Unknown, Infinity}]
    /\ \A c \in RpcCalls :
          /\ rcall[c].pc \in {"idle", "racing", "asking", "sleeping"}
          /\ rcall[c].attempt \in 0 .. Attempts

\* With a server that always answers, a call does not use up its attempts.
EnoughRetries ==
    \A c \in RpcCalls :
        rcall[c].kind \in {"get", "postBinary"} => rcall[c].outcome # "exhausted"

\* Servers may die: while one is alive and calls go on, some get an answer, again
\* and again.
HealsItself ==
    []<>(\E c \in RpcCalls : rcall[c].pc # "idle") =>
        []<>(\E c \in RpcCalls : rcall[c].outcome \in {"done", "refused"})
=============================================================================
