------------------------------ MODULE Failover ------------------------------
(***************************************************************************)
(* The connection manager of connection-manager.js: connections in order of  *)
(* priority and response time, the current one, health checks, and the RPC   *)
(* client handed out for it.                                                *)
(*                                                                         *)
(* An RPC call answers with success or failure and never throws             *)
(* (rpc/client.js), so the wrapper of the client's call() always takes the   *)
(* path of a success: _trySwitch(), which counts failures, is not reached.  Response times are fast  *)
(* or slow; their average lies between the old and the new one.             *)
(***************************************************************************)
EXTENDS Naturals, Sequences, FiniteSets

CONSTANTS
    Connections, Priority,
    NoClient,
    MaxChecks       \* bounds the rounds of checkAll() at once

ASSUME FailoverAssumption ==
    /\ Priority \in [Connections -> Nat] /\ NoClient \notin Connections
    /\ MaxChecks \in Nat

VARIABLES
    connections,    \* this.connections, sorted
    currentIndex,   \* this._currentIndex + 1
    info,           \* state and response time of each connection
    rpcClient,      \* the connection this._client was made for
    rounds,         \* the rounds of checks under way: what each still waits for
    checking,       \* this._checkInterval is set
    lastCall        \* history: the result of the last call through the client

managerState == <<connections, currentIndex, info, rpcClient, rounds, checking, lastCall>>

Times == {"fast", "slow", "none"}
NewInfo == [state |-> "disconnected", time |-> "none"]
Rounds == 1 .. MaxChecks

Listed == {connections[i] : i \in 1 .. Len(connections)}
Place(u) == CHOOSE i \in 1 .. Len(connections) : connections[i] = u

\* By priority, then by response time, one that is not known last.
TimeRank(time) == IF time = "fast" THEN 0 ELSE IF time = "slow" THEN 1 ELSE 2
Before(u, v, known) ==
    \/ Priority[u] < Priority[v]
    \/ Priority[u] = Priority[v] /\ TimeRank(known[u].time) < TimeRank(known[v].time)

\* Array.sort is stable: what neither comes before stays in the order of the list.
ComesBefore(list, known, u, v) ==
    LET at(x) == CHOOSE i \in 1 .. Len(list) : list[i] = x
    IN \/ Before(u, v, known)
       \/ ~Before(v, u, known) /\ at(u) < at(v)

Sorted(list, known) ==
    LET members == {list[i] : i \in 1 .. Len(list)}
    IN CHOOSE s \in [1 .. Len(list) -> members] :
          /\ \A u \in members : \E i \in 1 .. Len(list) : s[i] = u
          /\ \A i, j \in 1 .. Len(list) : i < j => ComesBefore(list, known, s[i], s[j])

\* splice(): the list without the connection at a place.
Without(list, place) ==
    [i \in 1 .. Len(list) - 1 |-> IF i < place THEN list[i] ELSE list[i + 1]]

Current == IF currentIndex <= Len(connections) THEN connections[currentIndex] ELSE NoClient

ManagerInit ==
    /\ connections = <<>> /\ currentIndex = 1
    /\ info = [u \in Connections |-> NewInfo]
    /\ rpcClient = NoClient
    /\ rounds = [r \in Rounds |-> {}]
    /\ checking = FALSE /\ lastCall = "none"

-----------------------------------------------------------------------------
(***************************************************************************)
(* What is known of a connection                                           *)
(***************************************************************************)
MarkFailed(u) == [info EXCEPT ![u].state = "failed"]

\* The average of the response times is between the two.
MarkSuccess(u, time) ==
    [info EXCEPT ![u] = [state |-> "connected", time |-> time]]
Averages(u) == IF info[u].time = "none" THEN {"fast", "slow"} ELSE {"fast", "slow", info[u].time}

-----------------------------------------------------------------------------
(***************************************************************************)
(* The list                                                                *)
(***************************************************************************)
\* addConnection: sorting may put another connection at the current index.
AddConnection(u) ==
    /\ u \notin Listed
    /\ info' = [info EXCEPT ![u] = NewInfo]
    /\ connections' = Sorted(Append(connections, u), info')
    /\ UNCHANGED <<currentIndex, rpcClient, rounds, checking, lastCall>>

\* Seeded fault: the index is only adjusted for connections before it.
RemoveConnection_Below(u) ==
    /\ u \in Listed
    /\ connections' = Without(connections, Place(u))
    /\ currentIndex' = IF currentIndex > Place(u) THEN currentIndex - 1 ELSE currentIndex
    /\ UNCHANGED <<info, rpcClient, rounds, checking, lastCall>>

RemoveConnection(u) ==
    /\ u \in Listed
    /\ connections' = Without(connections, Place(u))
    /\ currentIndex' = IF currentIndex >= Place(u) /\ currentIndex > 1
                       THEN currentIndex - 1 ELSE currentIndex
    /\ UNCHANGED <<info, rpcClient, rounds, checking, lastCall>>

SwitchTo(u) ==
    /\ u \in Listed
    /\ currentIndex' = Place(u)
    /\ rpcClient' = u
    /\ UNCHANGED <<connections, info, rounds, checking, lastCall>>

-----------------------------------------------------------------------------
(***************************************************************************)
(* The client                                                              *)
(***************************************************************************)
\* getClient() makes a client for the current connection when there is none.
GetClient ==
    /\ rpcClient = NoClient
    /\ rpcClient' = Current
    /\ UNCHANGED <<connections, currentIndex, info, rounds, checking, lastCall>>

\* A call through the client returns, with success or after all its retries
\* without: the current connection, which need not be the client's, is marked.
CallReturns(ok) ==
    /\ rpcClient # NoClient
    /\ lastCall' = IF ok THEN "ok" ELSE "failed"
    /\ IF Current = NoClient THEN UNCHANGED info
       ELSE \E t \in Averages(Current) : info' = MarkSuccess(Current, t)
    /\ UNCHANGED <<connections, currentIndex, rpcClient, rounds, checking>>

-----------------------------------------------------------------------------
(***************************************************************************)
(* Health checks                                                           *)
(***************************************************************************)
\* checkAll() asks every connection; the interval starts one round after
\* another, whether or not the last one is over.
CheckAll(r) ==
    /\ rounds[r] = {} /\ Listed # {}
    /\ rounds' = [rounds EXCEPT ![r] = Listed]
    /\ info' = [u \in Connections |->
                  IF u \in Listed THEN [info[u] EXCEPT !.state = "connecting"] ELSE info[u]]

StartChecking ==
    /\ ~checking
    /\ checking' = TRUE
    /\ \E r \in Rounds : CheckAll(r)
    /\ UNCHANGED <<connections, currentIndex, rpcClient, lastCall>>

CheckAgain ==
    /\ \E r \in Rounds : CheckAll(r)
    /\ UNCHANGED <<connections, currentIndex, rpcClient, checking, lastCall>>

StopChecking ==
    /\ checking /\ checking' = FALSE
    /\ UNCHANGED <<connections, currentIndex, info, rpcClient, rounds, lastCall>>

\* One check of round r ends.  The last one sorts the list.
CheckReturns(r, u) ==
    /\ u \in rounds[r]
    /\ info' \in {MarkFailed(u)} \union {MarkSuccess(u, t) : t \in Averages(u)}
    /\ IF rounds[r] = {u}
       THEN rounds' = [rounds EXCEPT ![r] = {}] /\ connections' = Sorted(connections, info')
       ELSE rounds' = [rounds EXCEPT ![r] = @ \ {u}] /\ UNCHANGED connections
    /\ UNCHANGED <<currentIndex, rpcClient, checking, lastCall>>

\* resetFailed().
ResetFailed ==
    /\ \E u \in Listed : info[u].state = "failed"
    /\ info' = [u \in Connections |->
                  IF u \in Listed /\ info[u].state = "failed"
                  THEN [info[u] EXCEPT !.state = "disconnected"]
                  ELSE info[u]]
    /\ UNCHANGED <<connections, currentIndex, rpcClient, rounds, checking, lastCall>>

\* disconnect(): checks under way are not called off.
DisconnectManager ==
    /\ checking' = FALSE /\ rpcClient' = NoClient
    /\ info' = [u \in Connections |->
                  IF u \in Listed THEN [info[u] EXCEPT !.state = "disconnected"] ELSE info[u]]
    /\ UNCHANGED <<connections, currentIndex, rounds, lastCall>>

ManagerNext ==
    \/ \E u \in Connections : AddConnection(u) \/ RemoveConnection(u) \/ SwitchTo(u)
    \/ GetClient \/ \E ok \in BOOLEAN : CallReturns(ok)
    \/ StartChecking \/ CheckAgain \/ StopChecking \/ ResetFailed \/ DisconnectManager
    \/ \E r \in Rounds, u \in Connections : CheckReturns(r, u)

ManagerSpec == ManagerInit /\ [][ManagerNext]_managerState

-----------------------------------------------------------------------------
\* Types of the manager.
ManagerTypeOK ==
    /\ connections \in Seq(Connections) /\ Len(connections) = Cardinality(Listed)
    /\ currentIndex \in Nat \ {0}
    /\ info \in [Connections -> [state : {"disconnected", "connecting", "connected", "failed"},
                                 time : Times]]
    /\ rpcClient \in Connections \union {NoClient}
    /\ rounds \in [Rounds -> SUBSET Connections]
    /\ checking \in BOOLEAN /\ lastCall \in {"none", "ok", "failed"}

\* There is a current connection whenever there is a connection, through every
\* addition, removal, switch and sort; and removing a connection does not change
\* which one is current, unless it was the current one.
KeepsCurrent ==
    [][/\ connections' # <<>> => Current' # NoClient
       /\ \A u \in Connections :
             RemoveConnection(u) /\ u # Current => Current' = Current]_managerState

=============================================================================
