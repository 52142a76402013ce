--------------------------- MODULE StratumClient ---------------------------
(***************************************************************************)
(* The pool connection of stratum/client.js: sockets, login, requests with  *)
(* their timeouts, and reconnection.                                       *)
(*                                                                         *)
(* Every connect() makes a socket of its own and a promise that waits for   *)
(* the login; the handlers of an older socket stay installed when           *)
(* this.socket moves on.  A socket is a member of Sockets and is used again *)
(* once it is closed and nothing waits for it.  Each action is one event of *)
(* the event loop with the microtasks it resolves.  The outcome of a        *)
(* keepalive is ignored by the code and is not kept.                       *)
(***************************************************************************)
EXTENDS Naturals

CONSTANTS
    Sockets,    \* the sockets that can exist at once (a bound)
    Shares,     \* the shares that can be in flight at once (a bound)
    PoolJobs,       \* the jobs the pool hands out
    OldSocket,  \* stands for any socket that is gone
    NoSocket, NoPoolJob

ASSUME SocketAssumption ==
    NoSocket \notin Sockets /\ OldSocket \notin Sockets /\ NoSocket # OldSocket
ASSUME JobAssumption == NoPoolJob \notin PoolJobs

VARIABLES
    conn,           \* what each socket is: see SocketStates
    attempt,        \* who awaits the connect() promise of each socket
    login,          \* the socket the login request of an attempt went to
    socket,         \* this.socket
    connected, loggedIn, autoReconnect, keepalive,
    reconnectTimer, \* a reconnect is scheduled
    buffer,         \* the socket whose half line is in this.buffer
    share,          \* the submit requests: the socket each went to
    poolJob,        \* this.currentJob
    late,           \* the sockets whose idle timeout, which comes once, has come
    held            \* history: there has been a connection since disconnect(), and no
                    \* timeout has closed the socket of another's reconnect since

flags == <<autoReconnect, keepalive, reconnectTimer>>
stratumVars == <<conn, attempt, login, socket, connected, loggedIn, flags,
                 buffer, share, poolJob, late, held>>

SocketStates == {"free", "opening", "open", "ended"}
MaybeSocket == Sockets \union {NoSocket}

\* Types of the client's state.
StratumTypeOK ==
    /\ conn \in [Sockets -> SocketStates]
    /\ attempt \in [Sockets -> {"none", "user", "timer"}]
    /\ login \in [Sockets -> MaybeSocket]
    /\ socket \in MaybeSocket
    /\ connected \in BOOLEAN /\ loggedIn \in BOOLEAN
    /\ autoReconnect \in BOOLEAN /\ keepalive \in BOOLEAN
    /\ reconnectTimer \in BOOLEAN
    /\ buffer \in MaybeSocket \union {OldSocket}
    /\ share \in [Shares -> MaybeSocket]
    /\ poolJob \in PoolJobs \union {NoPoolJob}
    /\ late \subseteq Sockets /\ held \in BOOLEAN

StratumInit ==
    /\ conn = [s \in Sockets |-> "free"]
    /\ attempt = [s \in Sockets |-> "none"]
    /\ login = [s \in Sockets |-> NoSocket]
    /\ socket = NoSocket
    /\ connected = FALSE /\ loggedIn = FALSE
    /\ autoReconnect = TRUE /\ keepalive = FALSE /\ reconnectTimer = FALSE
    /\ buffer = NoSocket
    /\ share = [x \in Shares |-> NoSocket]
    /\ poolJob = NoPoolJob /\ late = {} /\ held = FALSE

-----------------------------------------------------------------------------
(***************************************************************************)
(* connect(), its promise and _scheduleReconnect                            *)
(***************************************************************************)
\* A socket nothing refers to any more: the next one to be created.
Unused(s) ==
    /\ conn[s] = "free" /\ attempt[s] = "none" /\ login[s] = NoSocket
    /\ \A t \in Sockets : login[t] # s
    /\ \A x \in Shares : share[x] # s

\* connect(): done at once when connected, otherwise a new socket replaces
\* this.socket, whatever that one is doing.
Connect(caller) ==
    IF connected
    THEN UNCHANGED <<conn, attempt, socket, buffer, late>>
    ELSE \E s \in Sockets :
            /\ Unused(s)
            /\ conn' = [conn EXCEPT ![s] = "opening"]
            /\ attempt' = [attempt EXCEPT ![s] = caller]
            /\ socket' = s
            /\ buffer' = IF buffer = s THEN OldSocket ELSE buffer
            /\ late' = late \ {s}

UserConnects ==
    /\ \A s \in Sockets : attempt[s] # "user"
    /\ Connect("user")
    /\ UNCHANGED <<login, connected, loggedIn, flags, share, poolJob, held>>

\* Seeded fault: a failed reconnection is given up.
Rescheduled_GivesUp(s) == reconnectTimer

\* The promise of s is rejected; a reconnect that awaited it schedules the next
\* one unless there is one already.
Rescheduled(s) == reconnectTimer \/ (attempt[s] = "timer" /\ autoReconnect)
Settled(s) == [attempt EXCEPT ![s] = "none"]

\* The reconnect timer goes off.
ReconnectFires ==
    /\ reconnectTimer
    /\ reconnectTimer' = FALSE
    /\ Connect("timer")
    /\ UNCHANGED <<login, connected, loggedIn, autoReconnect, keepalive,
                   share, poolJob, held>>

-----------------------------------------------------------------------------
(***************************************************************************)
(* Socket events                                                           *)
(***************************************************************************)
\* 'connect': the login goes to this.socket, which need not be s; without one
\* the write throws and the promise is rejected.
SocketConnects(s) ==
    /\ conn[s] = "opening"
    /\ conn' = [conn EXCEPT ![s] = "open"]
    /\ connected' = TRUE /\ keepalive' = TRUE /\ held' = TRUE
    /\ IF socket = NoSocket
       THEN /\ attempt' = Settled(s) /\ reconnectTimer' = Rescheduled(s)
            /\ UNCHANGED login
       ELSE /\ login' = [login EXCEPT ![s] = socket]
            /\ UNCHANGED <<attempt, reconnectTimer>>
    /\ UNCHANGED <<socket, loggedIn, autoReconnect, buffer, share, poolJob, late>>

\* The connection is refused ('error', then 'close'): its promise is rejected
\* only if no other socket is connected.
SocketFails(s) ==
    /\ conn[s] = "opening"
    /\ conn' = [conn EXCEPT ![s] = "free"]
    /\ attempt' = Settled(s)
    /\ IF connected
       THEN /\ reconnectTimer' = (reconnectTimer \/ autoReconnect)
            /\ connected' = FALSE /\ loggedIn' = FALSE /\ keepalive' = FALSE
       ELSE /\ reconnectTimer' = Rescheduled(s)
            /\ UNCHANGED <<connected, loggedIn, keepalive>>
    /\ UNCHANGED <<login, socket, autoReconnect, buffer, share, poolJob, late, held>>

\* Nothing was read or written on s for ten seconds while the client is marked
\* disconnected: this.socket is destroyed, which need not be s, and a promise
\* that waits for it to open is never settled.  Without this.socket the
\* handler throws and the program ends.
SocketIdles(s) ==
    /\ conn[s] # "free" /\ s \notin late /\ ~connected /\ socket # NoSocket
    /\ conn' = [conn EXCEPT ![socket] = "free"]
    /\ attempt' = [t \in Sockets |->
           IF t = s \/ (t = socket /\ login[t] = NoSocket) THEN "none" ELSE attempt[t]]
    /\ reconnectTimer' = Rescheduled(s)
    /\ late' = late \union {s}
    /\ held' = (held /\ (socket = s \/ attempt[socket] # "timer"))
    /\ UNCHANGED <<login, socket, connected, loggedIn, autoReconnect, keepalive,
                   buffer, share, poolJob>>

\* Seeded fault: only a client that was logged in comes back.
OnDisconnect_LoggedInOnly ==
    /\ connected' = FALSE /\ loggedIn' = FALSE /\ keepalive' = FALSE
    /\ reconnectTimer' = (reconnectTimer \/ (loggedIn /\ autoReconnect))

\* _onDisconnect: whichever socket it was, the client is disconnected.
OnDisconnect ==
    /\ connected' = FALSE /\ loggedIn' = FALSE /\ keepalive' = FALSE
    /\ reconnectTimer' = (reconnectTimer \/ (connected /\ autoReconnect))

\* 'end', and 'close'.
SocketEnds(s) ==
    /\ conn[s] = "open"
    /\ conn' = [conn EXCEPT ![s] = "ended"]
    /\ OnDisconnect
    /\ UNCHANGED <<attempt, login, socket, autoReconnect, buffer, share, poolJob, held, late>>

SocketCloses(s) ==
    /\ conn[s] \in {"open", "ended"}
    /\ conn' = [conn EXCEPT ![s] = "free"]
    /\ OnDisconnect
    /\ UNCHANGED <<attempt, login, socket, autoReconnect, buffer, share, poolJob, held, late>>

\* disconnect(): only this.socket is destroyed, and nothing that waits is
\* answered before its own timeout; a connect() that waits for an opening
\* socket is never answered.
Disconnect ==
    /\ autoReconnect' = FALSE /\ keepalive' = FALSE /\ reconnectTimer' = FALSE
    /\ connected' = FALSE /\ loggedIn' = FALSE
    /\ IF socket = NoSocket THEN UNCHANGED <<conn, attempt>>
       ELSE /\ conn' = [conn EXCEPT ![socket] = "free"]
            /\ attempt' = IF login[socket] = NoSocket THEN Settled(socket)
                          ELSE attempt
    /\ socket' = NoSocket /\ held' = FALSE
    /\ UNCHANGED <<login, buffer, share, poolJob, late>>

-----------------------------------------------------------------------------
(***************************************************************************)
(* Messages                                                                *)
(***************************************************************************)
\* _onData for one line that arrives whole on s.  What an earlier connection
\* left in the buffer makes it unreadable, and is gone with it.
Readable(s) == buffer \in {s, NoSocket}

\* Half a line arrives.
HalfLine(s) ==
    /\ conn[s] = "open" /\ buffer = NoSocket
    /\ buffer' = s
    /\ UNCHANGED <<conn, attempt, login, socket, connected, loggedIn, flags,
                   share, poolJob, held, late>>

\* The rest of the line in the buffer arrives after the start of an earlier
\* connection: neither line is read.
LineLost(s) ==
    /\ conn[s] = "open" /\ ~Readable(s)
    /\ buffer' = NoSocket
    /\ UNCHANGED <<conn, attempt, login, socket, connected, loggedIn, flags,
                   share, poolJob, held, late>>

Received(s) == conn[s] = "open" /\ Readable(s) /\ buffer' = NoSocket

\* The login of attempt a succeeds; most pools send the first job with it.
LoginAccepted(a) ==
    /\ login[a] # NoSocket /\ Received(login[a])
    /\ login' = [login EXCEPT ![a] = NoSocket]
    /\ attempt' = Settled(a)
    /\ loggedIn' = TRUE
    /\ poolJob' \in PoolJobs \union {poolJob}
    /\ UNCHANGED <<conn, socket, connected, flags, share, held, late>>

\* The pool refuses the login, or does not answer within 30 seconds: the
\* connection stays.
LoginFails(a) ==
    /\ login[a] # NoSocket
    /\ \/ Received(login[a])
       \/ UNCHANGED buffer
    /\ login' = [login EXCEPT ![a] = NoSocket]
    /\ attempt' = Settled(a)
    /\ reconnectTimer' = Rescheduled(a)
    /\ UNCHANGED <<conn, socket, connected, loggedIn, autoReconnect, keepalive,
                   share, poolJob, held, late>>

\* A job notification.
PoolSendsJob(s, j) ==
    /\ Received(s)
    /\ poolJob' = j
    /\ UNCHANGED <<conn, attempt, login, socket, connected, loggedIn, flags, share, held, late>>

\* submitShare: the request is written to this.socket.
SubmitShare(x) ==
    /\ loggedIn /\ socket # NoSocket /\ share[x] = NoSocket
    /\ share' = [share EXCEPT ![x] = socket]
    /\ UNCHANGED <<conn, attempt, login, socket, connected, loggedIn, flags,
                   buffer, poolJob, held, late>>

\* The answer of the pool; an error counts like a refusal.
ShareAnswered(x) ==
    /\ share[x] # NoSocket /\ Received(share[x])
    /\ share' = [share EXCEPT ![x] = NoSocket]
    /\ UNCHANGED <<conn, attempt, login, socket, connected, loggedIn, flags, poolJob, held, late>>

\* Seeded fault: losing the connection clears the timers of its requests.
ShareTimesOut_WhileConnected(x) ==
    /\ share[x] # NoSocket /\ connected
    /\ share' = [share EXCEPT ![x] = NoSocket]
    /\ UNCHANGED <<conn, attempt, login, socket, connected, loggedIn, flags,
                   buffer, poolJob, held, late>>

\* No answer within 30 seconds: the share counts as rejected.
ShareTimesOut(x) ==
    /\ share[x] # NoSocket
    /\ share' = [share EXCEPT ![x] = NoSocket]
    /\ UNCHANGED <<conn, attempt, login, socket, connected, loggedIn, flags,
                   buffer, poolJob, held, late>>

StratumNext ==
    \/ UserConnects \/ Disconnect \/ ReconnectFires
    \/ \E s \in Sockets :
          \/ SocketConnects(s) \/ SocketFails(s) \/ SocketIdles(s)
          \/ SocketEnds(s) \/ SocketCloses(s)
          \/ HalfLine(s) \/ LineLost(s)
          \/ LoginAccepted(s) \/ LoginFails(s)
          \/ \E j \in PoolJobs : PoolSendsJob(s, j)
    \/ \E x \in Shares : SubmitShare(x) \/ ShareAnswered(x) \/ ShareTimesOut(x)

StratumSpec == StratumInit /\ [][StratumNext]_stratumVars

\* Timers go off, a socket that was closed by the pool or is left alone closes,
\* a connection attempt ends, and a pool that is tried again and again is
\* reached in the end.
StratumFairness ==
    /\ WF_stratumVars(ReconnectFires)
    /\ \A s \in Sockets :
          /\ WF_stratumVars(SocketConnects(s) \/ SocketFails(s))
          /\ WF_stratumVars((conn[s] = "ended" \/ ~connected) /\ SocketCloses(s))
          /\ WF_stratumVars(LoginFails(s))
    /\ SF_stratumVars(\E s \in Sockets : SocketConnects(s))
    /\ \A x \in Shares : WF_stratumVars(ShareTimesOut(x))

-----------------------------------------------------------------------------
\* The promise of an attempt can still be settled.
Waiting(s) == attempt[s] = "timer" /\ (conn[s] = "opening" \/ login[s] # NoSocket)

\* A client that had a connection and lost it, whatever failed on the way, has
\* a reconnect scheduled or under way, unless it was told to disconnect.
NeverStranded ==
    held /\ autoReconnect /\ ~connected =>
        reconnectTimer \/ \E s \in Sockets : Waiting(s)

\* A lost connection comes back unless disconnect() is called or a timeout closes
\* the socket of the attempt.
ComesBack ==
    held /\ ~connected /\ autoReconnect ~> connected \/ ~autoReconnect \/ ~held

\* Every submitted share is settled: its promise never hangs.
SharesSettle == \A x \in Shares : share[x] # NoSocket ~> share[x] = NoSocket
=============================================================================
