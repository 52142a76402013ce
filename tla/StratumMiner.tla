---------------------------- MODULE StratumMiner ----------------------------
(***************************************************************************)
(* The miner of stratum/miner.js and its worker threads.                    *)
(*                                                                         *)
(* The main thread starts, stops, pauses and hands every job of the pool to *)
(* the workers; in full mode it generates the dataset of the job's seed     *)
(* first, while further jobs come in.  Handlers that wait for the same      *)
(* promise go on in the order they began to wait (ready).  The pool client  *)
(* is what its users see of it: a connection that comes and goes, a job     *)
(* event with each job.  A job is mined from its blob; what of a job        *)
(* matters here is its seed, SeedOf.                                        *)
(***************************************************************************)
EXTENDS Naturals, Sequences

CONSTANTS
    Workers,    \* the worker threads, options.threads of them
    MinerJobs, SeedOf,
    NoMinerJob, NoSeed,
    MaxQueue,   \* messages that can wait for a worker (a bound)
    MaxWaiting  \* handlers that can wait for a dataset (a bound)

Seeds == {SeedOf[j] : j \in MinerJobs}

ASSUME MinerAssumption ==
    /\ NoMinerJob \notin MinerJobs /\ NoSeed \notin Seeds
    /\ MaxQueue \in Nat \ {0} /\ MaxWaiting \in Nat \ {0}

VARIABLES
    mode,           \* options.mode
    starting,       \* the await start() is parked at
    stopping,       \* stop() waits for the workers
    mining, paused,
    currentJob,     \* this.currentJob of the miner
    firstJob,       \* what firstJobPromise was resolved with
    dataset,        \* the seed of this.dataset
    generating,     \* the seed of the dataset being generated
    waiters,        \* who waits for datasetPromise, in order
    ready,          \* continuations the event loop runs next
    clientJob,      \* currentJob of the client
    online,         \* the client is logged in
    up,             \* this.workers is not empty
    queue,          \* messages posted to each worker
    worker,         \* the state of each worker
    found,          \* the job of the share each worker has posted, not handled yet
    due,            \* history: the pool's last job, from when it came while mining or was resumed
    blind           \* history: resume() or start() sent a job with another dataset, or
                    \* a handler waits for the dataset of another seed than its own

datasetVars == <<dataset, generating, waiters, ready>>
clientVars == <<clientJob, online>>
workerVars == <<up, queue, worker, found>>
callVars == <<mode, starting, stopping, mining, paused, firstJob>>
minerVars == <<callVars, currentJob, datasetVars, clientVars, workerVars, due, blind>>

Stop == [type |-> "stop", job |-> NoMinerJob, data |-> NoSeed]
WorkerMessage == {Stop} \union [type : {"job"}, job : MinerJobs, data : Seeds \union {NoSeed}]
\* seedHash, the seed the VM or dataset memory was filled from, the job.
IdleWorker == [label |-> NoSeed, data |-> NoSeed, job |-> NoMinerJob,
               hashing |-> FALSE, loaded |-> FALSE, loading |-> {}]
MaybeJob == MinerJobs \union {NoMinerJob}
\* A handler that waits: the job it is for, and where it goes on.
Handler == [job : MaybeJob,
            at : {"wait", "gen", "inner", "generated",          \* _handleNewJob
                  "connected", "startGen", "startInner", "start"}]  \* start()
MaybeSeed == Seeds \union {NoSeed}

MinerInit ==
    /\ mode \in {"light", "full"}
    /\ starting = "no" /\ stopping = FALSE /\ mining = FALSE /\ paused = FALSE
    /\ currentJob = NoMinerJob /\ firstJob = NoMinerJob
    /\ dataset = NoSeed /\ generating = NoSeed /\ waiters = <<>> /\ ready = <<>>
    /\ clientJob = NoMinerJob /\ online = FALSE
    /\ up = FALSE
    /\ queue = [w \in Workers |-> <<>>]
    /\ worker = [w \in Workers |-> IdleWorker]
    /\ found = [w \in Workers |-> NoMinerJob]
    /\ due = NoMinerJob /\ blind = FALSE

\* No microtask is pending: the event loop takes the next event.
Turn == ready = <<>>
Full == mode = "full"

-----------------------------------------------------------------------------
(***************************************************************************)
(* Posting to the workers                                                  *)
(***************************************************************************)
HasRoom == \A w \in Workers : Len(queue[w]) < MaxQueue

Posted(msg) == [w \in Workers |-> IF up THEN Append(queue[w], msg) ELSE queue[w]]

\* _startJob: full mode sends the dataset there is.
JobMessage(j) == [type |-> "job", job |-> j, data |-> IF Full THEN dataset ELSE NoSeed]
StartJob(j) == queue' = Posted(JobMessage(j)) /\ UNCHANGED <<up, worker, found>>
PauseWorkers == queue' = Posted(Stop) /\ UNCHANGED <<up, worker, found>>

-----------------------------------------------------------------------------
(***************************************************************************)
(* Datasets                                                                *)
(***************************************************************************)
\* _generateDataset: a generation that is under way is waited for, whatever
\* its seed.  Afterwards the caller goes on at "generated" or "start".
Generate(j, then) ==
    IF generating # NoSeed
    THEN /\ waiters' = Append(waiters, [job |-> j, at |-> then.inner])
         /\ UNCHANGED generating
    ELSE /\ generating' = SeedOf[j]
         /\ waiters' = Append(waiters, [job |-> j, at |-> then.own])

\* _handleNewJob once no generation is awaited: the dataset of another seed is
\* generated first.
GoOn(j) ==
    IF SeedOf[j] # dataset
    THEN /\ Generate(j, [own |-> "gen", inner |-> "inner"])
         /\ UNCHANGED workerVars
    ELSE /\ IF generating # NoSeed THEN UNCHANGED workerVars ELSE StartJob(j)
         /\ UNCHANGED <<generating, waiters>>

-----------------------------------------------------------------------------
(***************************************************************************)
(* Jobs from the pool                                                      *)
(***************************************************************************)
\* The first continuation that can run: the queue of microtasks.
Next1 == Head(ready)

\* Seeded fault: a job that comes while paused is forgotten.
HandleNewJob_DropsWhilePaused(j) ==
    /\ currentJob' = IF paused THEN currentJob ELSE j
    /\ IF ~mining \/ paused THEN UNCHANGED <<generating, waiters, workerVars>>
       ELSE IF ~Full THEN StartJob(j) /\ UNCHANGED <<generating, waiters>>
       ELSE IF generating # NoSeed
       THEN /\ waiters' = Append(waiters, [job |-> j, at |-> "wait"])
            /\ UNCHANGED <<generating, workerVars>>
       ELSE GoOn(j)

\* _handleNewJob up to its first await.
HandleNewJob(j) ==
    /\ currentJob' = j
    /\ IF ~mining \/ paused THEN UNCHANGED <<generating, waiters, workerVars>>
       ELSE IF ~Full THEN StartJob(j) /\ UNCHANGED <<generating, waiters>>
       ELSE IF generating # NoSeed
       THEN /\ waiters' = Append(waiters, [job |-> j, at |-> "wait"])
            /\ UNCHANGED <<generating, workerVars>>
       ELSE GoOn(j)

\* The job event: ignored in full mode until there is a dataset, except by the
\* firstJob handler of start().
JobEvent(j) ==
    /\ HasRoom /\ Len(waiters) < MaxWaiting
    /\ clientJob' = j
    /\ IF Full /\ dataset = NoSeed
       THEN UNCHANGED <<currentJob, generating, waiters, workerVars>>
       ELSE HandleNewJob(j)
    /\ firstJob' = IF Full /\ firstJob = NoMinerJob /\ starting \in {"connect", "firstJob"}
                   THEN j ELSE firstJob
    /\ due' = IF mining /\ ~paused THEN j ELSE NoMinerJob

MinerGetsJob(j) ==
    /\ Turn /\ online
    /\ JobEvent(j)
    /\ ready' = IF starting = "firstJob" THEN <<[job |-> NoMinerJob, at |-> "connected"]>>
                ELSE ready
    /\ UNCHANGED <<mode, starting, stopping, mining, paused, dataset, online, blind>>

\* The login of connect(), or of a reconnection, with or without a job.
MayLogIn ==
    /\ ~online
    /\ mining \/ starting \in {"connect", "firstJob", "dataset"}
       \/ (Full /\ starting = "spawn")

LogsIn(j) ==
    /\ Turn /\ MayLogIn
    /\ online' = TRUE
    /\ IF j = NoMinerJob
       THEN UNCHANGED <<clientJob, firstJob, currentJob, generating, waiters, workerVars, due>>
       ELSE JobEvent(j)
    /\ ready' = IF starting \in {"connect", "firstJob"}
                THEN <<[job |-> NoMinerJob, at |-> "connected"]>> ELSE ready
    /\ UNCHANGED <<mode, starting, stopping, mining, paused, dataset, blind>>

Disconnected ==
    /\ Turn /\ online /\ HasRoom
    /\ online' = FALSE
    /\ PauseWorkers
    /\ due' = NoMinerJob
    /\ UNCHANGED <<callVars, currentJob, datasetVars, clientJob, blind>>

-----------------------------------------------------------------------------
(***************************************************************************)
(* start(): light mode spawns the workers and connects; full mode connects, *)
(* waits for a job, generates its dataset and spawns the workers.  A user   *)
(* waits for each start() and stop() before the next.                       *)
(***************************************************************************)
NewWorkers ==
    /\ up' = TRUE
    /\ queue' = [w \in Workers |-> <<>>]
    /\ worker' = [w \in Workers |-> IdleWorker]
    /\ found' = [w \in Workers |-> NoMinerJob]

Start ==
    /\ Turn /\ ~mining /\ starting = "no" /\ ~stopping
    /\ firstJob' = NoMinerJob
    /\ IF Full THEN starting' = "connect" /\ UNCHANGED workerVars
       ELSE starting' = "spawn" /\ NewWorkers
    /\ UNCHANGED <<mode, stopping, mining, paused, currentJob, datasetVars,
                   clientVars, due, blind>>

ConnectFails ==
    /\ Turn /\ starting = "connect"
    /\ starting' = "no"
    /\ UNCHANGED <<mode, stopping, mining, paused, firstJob, currentJob, datasetVars,
                   clientVars, workerVars, due, blind>>

\* The last worker is ready.  In full mode the first job becomes the current
\* one, whatever came since, and is started.
Spawned ==
    /\ Turn /\ starting = "spawn" /\ HasRoom
    /\ IF Full
       THEN /\ starting' = "no" /\ mining' = TRUE
            /\ currentJob' = firstJob /\ firstJob' = NoMinerJob
            /\ StartJob(firstJob)
            /\ blind' = (blind \/ SeedOf[firstJob] # dataset)
       ELSE /\ starting' = "connect"
            /\ UNCHANGED <<mining, firstJob, currentJob, workerVars, blind>>
    /\ UNCHANGED <<mode, stopping, paused, datasetVars, clientVars, due>>

\* start() goes on after connect() or with its first job.
PoolConnected ==
    /\ ready # <<>> /\ Next1.at = "connected"
    /\ ready' = Tail(ready)
    /\ IF ~Full
       THEN /\ starting' = "no" /\ mining' = TRUE
            /\ UNCHANGED <<generating, waiters, workerVars>>
       ELSE /\ UNCHANGED mining
            /\ IF firstJob = NoMinerJob
               THEN starting' = "firstJob" /\ UNCHANGED <<generating, waiters, workerVars>>
               ELSE IF SeedOf[firstJob] = dataset
               THEN starting' = "spawn" /\ NewWorkers /\ UNCHANGED <<generating, waiters>>
               ELSE /\ starting' = "dataset"
                    /\ Generate(firstJob, [own |-> "startGen", inner |-> "startInner"])
                    /\ UNCHANGED workerVars
    /\ UNCHANGED <<mode, stopping, paused, firstJob, currentJob, dataset, clientVars,
                   due, blind>>

-----------------------------------------------------------------------------
(***************************************************************************)
(* The end of a generation and what waits for it                           *)
(***************************************************************************)
Generated ==
    /\ Turn /\ generating # NoSeed /\ HasRoom
    /\ dataset' = generating
    /\ ready' = waiters
    /\ waiters' = <<>>
    /\ UNCHANGED <<callVars, currentJob, generating, clientVars, workerVars, due, blind>>

\* The finally block of the generation, and the return of a caller that waited
\* for the generation of another: their own callers go on one round later.
Returns ==
    /\ ready # <<>> /\ Next1.at \in {"gen", "inner", "startGen", "startInner"}
    /\ ready' = Append(Tail(ready),
                  [job |-> Next1.job,
                   at |-> IF Next1.at \in {"gen", "inner"} THEN "generated" ELSE "start"])
    /\ generating' = IF Next1.at \in {"gen", "startGen"} THEN NoSeed ELSE generating
    /\ UNCHANGED <<callVars, currentJob, dataset, waiters, clientVars, workerVars, due, blind>>

\* _handleNewJob goes on after a generation it waited for.
WaitedForDataset ==
    /\ ready # <<>> /\ Next1.at = "wait"
    /\ ready' = Tail(ready)
    /\ GoOn(Next1.job)
    /\ blind' = (blind \/ (generating # NoSeed /\ SeedOf[Next1.job] \notin {dataset, generating}))
    /\ UNCHANGED <<callVars, currentJob, dataset, clientVars, due>>

\* _handleNewJob goes on after _generateDataset; neither the job nor mining
\* nor paused is looked at again.
DatasetReturned ==
    /\ ready # <<>> /\ Next1.at = "generated"
    /\ ready' = Tail(ready)
    /\ IF generating # NoSeed THEN UNCHANGED workerVars ELSE StartJob(Next1.job)
    /\ UNCHANGED <<callVars, currentJob, dataset, generating, waiters, clientVars, due, blind>>

StartHasDataset ==
    /\ ready # <<>> /\ Next1.at = "start"
    /\ ready' = Tail(ready)
    /\ starting' = "spawn"
    /\ NewWorkers
    /\ UNCHANGED <<mode, stopping, mining, paused, firstJob, currentJob, dataset,
                   generating, waiters, clientVars, due, blind>>

-----------------------------------------------------------------------------
(***************************************************************************)
(* stop(), pause() and resume()                                            *)
(***************************************************************************)
StopCall ==
    /\ Turn /\ mining /\ starting = "no" /\ HasRoom
    /\ mining' = FALSE /\ stopping' = TRUE
    /\ PauseWorkers
    /\ due' = NoMinerJob
    /\ UNCHANGED <<mode, starting, paused, firstJob, currentJob, datasetVars,
                   clientVars, blind>>

\* The workers answered or two seconds passed: they are terminated.
Stopped ==
    /\ Turn /\ stopping
    /\ stopping' = FALSE
    /\ online' = FALSE
    /\ up' = FALSE
    /\ queue' = [w \in Workers |-> <<>>]
    /\ worker' = [w \in Workers |-> IdleWorker]
    /\ found' = [w \in Workers |-> NoMinerJob]
    /\ UNCHANGED <<mode, starting, mining, paused, firstJob, currentJob, datasetVars,
                   clientJob, due, blind>>

Pause ==
    /\ Turn /\ ~paused /\ HasRoom
    /\ paused' = TRUE
    /\ PauseWorkers
    /\ due' = NoMinerJob
    /\ UNCHANGED <<mode, starting, stopping, mining, firstJob, currentJob, datasetVars,
                   clientVars, blind>>

Resume ==
    /\ Turn /\ paused /\ HasRoom
    /\ paused' = FALSE
    /\ IF currentJob = NoMinerJob THEN UNCHANGED workerVars ELSE StartJob(currentJob)
    /\ blind' = (blind \/ (Full /\ currentJob # NoMinerJob /\ SeedOf[currentJob] # dataset))
    /\ due' = IF mining THEN clientJob ELSE NoMinerJob
    /\ UNCHANGED <<mode, starting, stopping, mining, firstJob, currentJob, datasetVars,
                   clientVars>>

-----------------------------------------------------------------------------
(***************************************************************************)
(* Worker threads: mining-worker-light.js and mining-worker-asm.js          *)
(***************************************************************************)
\* startMining, with the dataset or cache the worker has.
Hashes(me, j) == [me EXCEPT !.job = j, !.hashing = TRUE]
Filled(me, seed, data) == [me EXCEPT !.label = seed, !.data = data, !.loaded = TRUE]

\* Seeded fault: a worker that is hashing keeps its cache.
TakesJob_KeepsCache(me, msg) ==
    LET seed == SeedOf[msg.job] IN
    IF Full THEN IF me.loaded THEN Hashes(me, msg.job)
                 ELSE [me EXCEPT !.loading = @ \union {msg}]
    ELSE Hashes(IF me.label = NoSeed THEN Filled(me, seed, seed) ELSE me, msg.job)

\* The job message.  A light worker fills its cache from the seed.  A full one
\* copies the dataset it is sent when the seed differs from its own; before the
\* VM is loaded that takes an await, and nothing keeps later messages waiting.
TakesJob(me, msg) ==
    LET seed == SeedOf[msg.job] IN
    CASE ~Full /\ me.label = seed -> Hashes(me, msg.job)
      [] ~Full /\ me.label # seed -> Hashes(Filled(me, seed, seed), msg.job)
      [] Full /\ msg.data # NoSeed /\ me.label # seed ->
            IF me.loaded THEN Hashes(Filled(me, seed, msg.data), msg.job)
            ELSE [me EXCEPT !.loading = @ \union {msg}]
      [] Full /\ (msg.data = NoSeed \/ me.label = seed) ->
            IF me.loaded THEN Hashes(me, msg.job) ELSE me

WorkerReceives(w) ==
    /\ queue[w] # <<>>
    /\ LET msg == Head(queue[w]) IN
       worker' = [worker EXCEPT ![w] =
           IF msg = Stop THEN [@ EXCEPT !.hashing = FALSE, !.job = NoMinerJob] ELSE TakesJob(@, msg)]
    /\ queue' = [queue EXCEPT ![w] = Tail(@)]
    /\ UNCHANGED <<callVars, currentJob, datasetVars, clientVars, up, found, due, blind>>

\* The await of a full worker is over: the dataset is copied, in one step although
\* the memory of the module is shared by the loads under way.
Loads(me, msg) ==
    [Hashes(Filled(me, SeedOf[msg.job], msg.data), msg.job)
        EXCEPT !.loading = me.loading \ {msg}]

WorkerLoaded(w) ==
    /\ \E msg \in worker[w].loading :
          worker' = [worker EXCEPT ![w] = Loads(worker[w], msg)]
    /\ UNCHANGED <<callVars, currentJob, datasetVars, clientVars, up, queue, found,
                   due, blind>>

WorkerFinds(w) ==
    /\ worker[w].hashing /\ found[w] = NoMinerJob
    /\ found' = [found EXCEPT ![w] = worker[w].job]
    /\ UNCHANGED <<callVars, currentJob, datasetVars, clientVars, up, queue, worker,
                   due, blind>>

\* submitShare names the client's current job; it throws when not logged in.
ShareArrives(w) ==
    /\ Turn /\ found[w] # NoMinerJob
    /\ found' = [found EXCEPT ![w] = NoMinerJob]
    /\ UNCHANGED <<callVars, currentJob, datasetVars, clientVars, up, queue, worker, due, blind>>

MinerNext ==
    \/ \E j \in MinerJobs : MinerGetsJob(j)
    \/ \E j \in MaybeJob : LogsIn(j)
    \/ Disconnected
    \/ Start \/ ConnectFails \/ Spawned \/ PoolConnected
    \/ Generated \/ Returns \/ WaitedForDataset \/ DatasetReturned \/ StartHasDataset
    \/ StopCall \/ Stopped \/ Pause \/ Resume
    \/ \E w \in Workers :
          \/ WorkerReceives(w) \/ WorkerLoaded(w) \/ WorkerFinds(w) \/ ShareArrives(w)

MinerSpec == MinerInit /\ [][MinerNext]_minerVars

-----------------------------------------------------------------------------
\* Types of the miner's state.
MinerTypeOK ==
    /\ mode \in {"light", "full"}
    /\ starting \in {"no", "connect", "firstJob", "dataset", "spawn"}
    /\ stopping \in BOOLEAN /\ mining \in BOOLEAN /\ paused \in BOOLEAN
    /\ currentJob \in MaybeJob /\ firstJob \in MaybeJob
    /\ dataset \in MaybeSeed /\ generating \in MaybeSeed
    /\ waiters \in Seq(Handler) /\ ready \in Seq(Handler)
    /\ clientJob \in MaybeJob /\ online \in BOOLEAN /\ up \in BOOLEAN
    /\ queue \in [Workers -> Seq(WorkerMessage)]
    /\ found \in [Workers -> MaybeJob]
    /\ due \in MaybeJob /\ blind \in BOOLEAN
    /\ \A w \in Workers :
          /\ worker[w].label \in MaybeSeed /\ worker[w].data \in MaybeSeed
          /\ worker[w].job \in MaybeJob /\ worker[w].hashing \in BOOLEAN
          /\ worker[w].loading \subseteq WorkerMessage

\* Nothing is on its way to the workers, and no call or handler waits.
AtRest ==
    /\ Turn /\ waiters = <<>> /\ generating = NoSeed
    /\ starting = "no" /\ ~stopping
    /\ \A w \in Workers : queue[w] = <<>> /\ worker[w].loading = {}

\* A light worker hashes, once its messages are handled, the job that came last
\* while mining; while paused it hashes nothing.
MinesWhatIsDue ==
    ~Full /\ AtRest => \A w \in Workers :
        /\ due # NoMinerJob => worker[w].job = due
        /\ paused => ~worker[w].hashing

\* A job is hashed with the cache or the dataset of its seed, unless resume()
\* came before the dataset was there, start() found that the handler of an
\* earlier session had replaced it, or two jobs waited for the same generation
\* and neither was of its seed: the second waits for the dataset of the first
\* and is mined with it.
RightDataset ==
    ~blind => \A w \in Workers : worker[w].hashing => worker[w].data = SeedOf[worker[w].job]
=============================================================================
