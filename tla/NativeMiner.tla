----------------------------- MODULE NativeMiner -----------------------------
(***************************************************************************)
(* The native miner of crates/salvium-miner: the engine with its worker      *)
(* threads (miner.rs) and the loop in front of it, which either mines alone  *)
(* against a daemon (main.rs) or takes its jobs from a parent process        *)
(* (ipc.rs).                                                               *)
(*                                                                         *)
(* A template is known by the tip of the chain it builds on.  A hash either  *)
(* meets the difficulty or does not; the nonces of a job, 2^32 in the code,  *)
(* are NonceSpace.  The threads of a replaced engine end without anybody     *)
(* reading their results and are left out.  Statistics, the console and the  *)
(* exit after a benchmark are left out.                                    *)
(***************************************************************************)
EXTENDS Naturals, Sequences

CONSTANTS
    Threads,        \* the worker threads
    NonceSpace,     \* nonces of a job
    LastTip,        \* bound: the tip the chain ends at
    SeedTip,        \* the templates from this tip on have another seed hash
    MaxJobs,        \* bound: jobs of a miner that mines alone
    MaxCommands,    \* bound: lines on stdin
    MaxFound,       \* bound: blocks waiting in the channel
    MaxHashErrors   \* bound: hashes that fail

ASSUME NativeAssumption ==
    /\ NonceSpace \in Nat \ {0} /\ LastTip \in Nat /\ SeedTip \in Nat
    /\ MaxJobs \in Nat /\ MaxCommands \in Nat /\ MaxFound \in Nat /\ MaxHashErrors \in Nat

NoEngine == "none"

VARIABLES
    front,       \* "solo" or "ipc", from the command line
    memory,      \* "full" or "light", from the command line
    engine,      \* "none", "running" or "stopped" (the flag running)
    thread,      \* the worker threads: where they are, their job, nonce and inbox
    hits,       \* the channel result_tx, result_rx
    mainAt,      \* where the loop in front is
    jobId,       \* job_id of main.rs, current_job_id of ipc.rs
    template,    \* solo: the tip of the current template
    tip,         \* environment: the tip of the chain
    block,       \* solo: the block being submitted, as a set
    submitted,   \* history: the block submitted last, with the template of then
    commands,    \* ipc: lines read so far
    hashErrors   \* failed hashes so far

nativeVars == <<front, memory, engine, thread, hits, mainAt, jobId, template, tip,
                block, submitted, commands, hashErrors>>
frontVars == <<mainAt, jobId, template, tip, block, submitted, commands>>

SeedAt(t) == t >= SeedTip
Fresh == [at |-> "waiting", job |-> 0, tip |-> 0, nonce |-> 0, inbox |-> <<>>]
Failed == [Fresh EXCEPT !.at = "over"]

\* new_full, new_light: a thread whose cache or machine cannot be made ends,
\* and the engine says ready all the same.
NewThreads(failed) == [w \in Threads |-> IF w \in failed THEN Failed ELSE Fresh]

\* send_job: one channel per thread; the channel of a thread that ended is closed.
SendJob(id, t) ==
    [w \in Threads |->
        IF thread[w].at = "over" THEN thread[w]
        ELSE [thread[w] EXCEPT !.inbox = Append(@, [job |-> id, tip |-> t])]]

NativeInit ==
    /\ front \in {"solo", "ipc"} /\ memory \in {"full", "light"}
    /\ tip = 0 /\ template = 0 /\ jobId = 0
    /\ hits = <<>> /\ block = {} /\ submitted = {} /\ commands = 0 /\ hashErrors = 0
    /\ mainAt = "look"
    /\ \/ front = "ipc" /\ engine = NoEngine /\ thread = NewThreads(Threads)
       \/ /\ front = "solo" /\ engine = "running"
          /\ \E failed \in SUBSET Threads :
                thread = [w \in Threads |->
                            IF w \in failed THEN Failed
                            ELSE [Fresh EXCEPT !.inbox = <<[job |-> 0, tip |-> 0]>>]]

-----------------------------------------------------------------------------
(* A worker thread. *)

Starts(w) == [thread[w] EXCEPT !.at = "mining", !.nonce = 0, !.inbox = Tail(@),
                               !.job = Head(thread[w].inbox).job,
                               !.tip = Head(thread[w].inbox).tip]

\* recv_timeout with a job.
GetsJob(w) ==
    /\ engine = "running" /\ thread[w].at = "waiting" /\ thread[w].inbox # <<>>
    /\ thread' = [thread EXCEPT ![w] = Starts(w)]
    /\ UNCHANGED <<front, memory, engine, hits, frontVars, hashErrors>>

\* try_recv in the loop over the nonces, which only full mode has.
SwitchesJob(w) ==
    /\ engine = "running" /\ memory = "full"
    /\ thread[w].at = "mining" /\ thread[w].inbox # <<>>
    /\ thread' = [thread EXCEPT ![w] = Starts(w)]
    /\ UNCHANGED <<front, memory, engine, hits, frontVars, hashErrors>>

BeginsHash(w) ==
    /\ engine = "running" /\ thread[w].at = "mining"
    /\ memory = "full" => thread[w].inbox = <<>>
    /\ thread' = [thread EXCEPT ![w].at = "hashing"]
    /\ UNCHANGED <<front, memory, engine, hits, frontVars, hashErrors>>

\* Seeded fault: after the last nonce the thread begins again with the first.
AfterHash_ForEver(w) ==
    LET next == (thread[w].nonce + 1) % NonceSpace IN
    [thread EXCEPT ![w].nonce = next, ![w].at = "mining"]

\* The next nonce, or the next job after the last one.
AfterHash(w) ==
    LET next == (thread[w].nonce + 1) % NonceSpace IN
    [thread EXCEPT ![w].nonce = next,
                   ![w].at = IF next = 0 THEN "waiting" ELSE "mining"]

\* The hash is done; a block that was found goes to the channel.
EndsHash(w) ==
    /\ thread[w].at = "hashing"
    /\ thread' = AfterHash(w)
    /\ \/ UNCHANGED hits
       \/ /\ Len(hits) < MaxFound
          /\ hits' = Append(hits, [job |-> thread[w].job, tip |-> thread[w].tip])
    /\ UNCHANGED <<front, memory, engine, frontVars, hashErrors>>

\* Light mode: calculate_hash fails and the loop goes on with the next nonce,
\* past the test for the last one.
HashFails(w) ==
    /\ memory = "light" /\ thread[w].at = "hashing" /\ hashErrors < MaxHashErrors
    /\ hashErrors' = hashErrors + 1
    /\ thread' = [thread EXCEPT ![w].nonce = (@ + 1) % NonceSpace, ![w].at = "mining"]
    /\ UNCHANGED <<front, memory, engine, hits, frontVars>>

\* running is false.
ThreadEnds(w) ==
    /\ engine = "stopped" /\ thread[w].at \in {"waiting", "mining"}
    /\ thread' = [thread EXCEPT ![w] = Failed]
    /\ UNCHANGED <<front, memory, engine, hits, frontVars, hashErrors>>

-----------------------------------------------------------------------------
(* main.rs: mining alone. *)

IsStale(b) == b.job # jobId

\* A block of an older job is skipped.
SkipsStale ==
    /\ front = "solo" /\ mainAt = "look" /\ engine = "running" /\ hits # <<>>
    /\ IsStale(Head(hits))
    /\ hits' = Tail(hits)
    /\ UNCHANGED <<front, memory, engine, thread, frontVars, hashErrors>>

\* A block of the current job is to be submitted; the others are drained.
TakesBlock ==
    /\ front = "solo" /\ mainAt = "look" /\ engine = "running" /\ hits # <<>>
    /\ ~IsStale(Head(hits)) /\ jobId < MaxJobs
    /\ block' = {Head(hits)} /\ hits' = <<>> /\ mainAt' = "submit"
    /\ submitted' = {[tip |-> Head(hits).tip, template |-> template]}
    /\ UNCHANGED <<front, memory, engine, thread, jobId, template, tip, commands, hashErrors>>

\* submit_block: the daemon takes a block on its tip and rejects any other; the
\* answer may be lost.  What was found meanwhile is drained.
SubmitBlock ==
    /\ front = "solo" /\ mainAt = "submit"
    /\ \/ \E b \in block : b.tip = tip /\ tip < LastTip /\ tip' = tip + 1
       \/ UNCHANGED tip
    /\ hits' = <<>> /\ block' = {} /\ mainAt' = "fetch"
    /\ UNCHANGED <<front, memory, engine, thread, jobId, template, submitted, commands, hashErrors>>

StopEngine == engine' = "stopped" /\ mainAt' = "over"

\* Seeded fault: the new job goes out under the id of the last one.
NewJob_SameId(t) ==
    /\ template' = t /\ jobId' = jobId /\ thread' = SendJob(jobId, t)

\* A new template of a new tip becomes the current job; its blob can be read.
NewJob(t) ==
    /\ template' = t /\ jobId' = jobId + 1 /\ thread' = SendJob(jobId + 1, t)

\* get_block_template: none, one with another seed hash, or the next job.
FetchTemplate ==
    /\ front = "solo" /\ mainAt = "fetch"
    /\ \/ mainAt' = "look" /\ UNCHANGED <<engine, thread, hits, jobId, template>>
       \/ SeedAt(tip) /\ StopEngine /\ UNCHANGED <<thread, hits, jobId, template>>
       \/ ~SeedAt(tip) /\ NewJob(tip) /\ hits' = <<>> /\ mainAt' = "look" /\ UNCHANGED engine
    /\ UNCHANGED <<front, memory, tip, block, submitted, commands, hashErrors>>

\* The template every five seconds, which is a job only if something changed.
RefreshTemplate ==
    /\ front = "solo" /\ mainAt = "look" /\ engine = "running" /\ hits = <<>>
    /\ tip # template
    /\ \/ SeedAt(tip) /\ StopEngine /\ UNCHANGED <<thread, jobId, template>>
       \/ ~SeedAt(tip) /\ NewJob(tip) /\ UNCHANGED <<engine, mainAt>>
    /\ UNCHANGED <<front, memory, hits, tip, block, submitted, commands, hashErrors>>

\* handle_sigint clears the flag; the loop ends when it looks at it.
Interrupt ==
    /\ front = "solo" /\ engine = "running"
    /\ engine' = "stopped"
    /\ UNCHANGED <<front, memory, thread, hits, frontVars, hashErrors>>

LoopEnds ==
    /\ front = "solo" /\ mainAt = "look" /\ engine = "stopped"
    /\ mainAt' = "over"
    /\ UNCHANGED <<front, memory, engine, thread, hits, jobId, template, tip, block,
                   submitted, commands, hashErrors>>

\* Somebody else finds a block.
TipMoves ==
    /\ front = "solo" /\ tip < LastTip
    /\ tip' = tip + 1
    /\ UNCHANGED <<front, memory, engine, thread, hits, mainAt, jobId, template, block,
                   submitted, commands, hashErrors>>

-----------------------------------------------------------------------------
(* ipc.rs: jobs from a parent process. *)

Command ==
    /\ front = "ipc" /\ mainAt = "look" /\ commands < MaxCommands
    /\ commands' = commands + 1

\* The blocks found are told, under the id of the last job.  The loop looks for
\* them before it waits for a line: more may come while it waits.
TellsBlock ==
    /\ front = "ipc" /\ mainAt = "look" /\ hits # <<>>
    /\ hits' = Tail(hits)
    /\ UNCHANGED <<front, memory, engine, thread, frontVars, hashErrors>>

Halted == IF engine = NoEngine THEN NoEngine ELSE "stopped"

\* "init": the engine in place is stopped first; the new one has threads and
\* channels of its own.  If it fails, the stopped one stays and takes jobs.
InitCommand ==
    /\ Command
    /\ \/ /\ engine' = "running" /\ hits' = <<>>
          /\ \E failed \in SUBSET Threads : thread' = NewThreads(failed)
       \/ engine' = Halted /\ UNCHANGED <<thread, hits>>
    /\ UNCHANGED <<front, memory, mainAt, jobId, template, tip, block, submitted, hashErrors>>

\* "job": an error without an engine or with a blob that cannot be read.  The
\* engine knows every job of the parent as job 0; here it keeps its own id.
JobCommand ==
    /\ Command /\ engine # NoEngine
    /\ jobId' = jobId + 1
    /\ thread' = SendJob(0, jobId + 1)
    /\ UNCHANGED <<front, memory, engine, hits, mainAt, template, tip, block, submitted, hashErrors>>

\* "stop" answers stopped and leaves the engine as it is; a line that is no
\* command is answered with an error.
OtherCommand ==
    /\ Command
    /\ UNCHANGED <<front, memory, engine, thread, hits, mainAt, jobId, template, tip, block,
                   submitted, hashErrors>>

\* "shutdown", or the end of stdin.
Shutdown ==
    /\ front = "ipc" /\ mainAt = "look"
    /\ engine' = Halted /\ mainAt' = "over"
    /\ UNCHANGED <<front, memory, thread, hits, jobId, template, tip, block, submitted,
                   commands, hashErrors>>

-----------------------------------------------------------------------------
ThreadStep(w) ==
    GetsJob(w) \/ SwitchesJob(w) \/ BeginsHash(w) \/ EndsHash(w) \/ HashFails(w) \/ ThreadEnds(w)

SoloStep ==
    SkipsStale \/ TakesBlock \/ SubmitBlock \/ FetchTemplate \/ RefreshTemplate \/ LoopEnds

IpcStep == TellsBlock \/ InitCommand \/ JobCommand \/ OtherCommand \/ Shutdown

NativeNext == (\E w \in Threads : ThreadStep(w)) \/ SoloStep \/ IpcStep \/ Interrupt \/ TipMoves

\* The operating system runs every thread; the loops in front need no fairness
\* of their own for what is asked of the threads.
NativeFairness == \A w \in Threads : WF_nativeVars(ThreadStep(w))

-----------------------------------------------------------------------------
NativeTypeOK ==
    /\ front \in {"solo", "ipc"} /\ memory \in {"full", "light"}
    /\ engine \in {NoEngine, "running", "stopped"}
    /\ \A w \in Threads :
        /\ thread[w].at \in {"waiting", "mining", "hashing", "over"}
        /\ thread[w].nonce \in 0..NonceSpace - 1
    /\ Len(hits) <= MaxFound
    /\ mainAt \in {"look", "submit", "fetch", "over"}
    /\ tip \in 0..LastTip /\ template \in 0..LastTip

\* A block that is submitted was found on the template that is current then,
\* whatever was in the channel or on its way when the template changed.
SubmitsCurrent == front = "solo" => \A s \in submitted : s.tip = s.template

\* A job that was sent to a thread is taken by it, or the engine is stopped or
\* replaced: no thread stays with an old job for ever.
JobsAreTaken ==
    \A w \in Threads : thread[w].inbox # <<>> ~> (thread[w].inbox = <<>> \/ engine = "stopped")
=============================================================================
