----------------------------- MODULE MinerProofs -----------------------------
(***************************************************************************)
(* Mining: the native miner on its own, and the pool connection and its      *)
(* miner, for any number of threads, jobs, sockets and workers.             *)
(***************************************************************************)
EXTENDS NativeMiner, StratumClient, StratumMiner, SequenceTheorems, TLAPS

-----------------------------------------------------------------------------
(***************************************************************************)
(* The native miner: what it submits                                       *)
(***************************************************************************)
Job == [job : Nat, tip : Nat]
Thread == [at : {"waiting", "mining", "hashing", "over"}, job : Nat, tip : Nat,
           nonce : Nat, inbox : Seq(Job)]

\* A job is one the loop has handed out; the one with the current id was made
\* from the current template.
Current(j) == j.job <= jobId /\ (j.job = jobId => j.tip = template)

\* Wherever a job is: in a thread, on its way to one, or with a block that was
\* found for it.
SoloInv ==
    /\ jobId \in Nat /\ template \in Nat /\ tip \in Nat
    /\ thread \in [Threads -> Thread]
    /\ hits \in Seq(Job)
    /\ \A w \in Threads :
          /\ Current(thread[w])
          /\ \A n \in 1 .. Len(thread[w].inbox) : Current(thread[w].inbox[n])
    /\ \A n \in 1 .. Len(hits) : Current(hits[n])
    /\ jobId = 0 => template = 0
    /\ \A s \in submitted : s.tip = s.template

NativeInv == front = "solo" => SoloInv

\* The first job carries the first template, whichever threads failed to start.
LEMMA NativeInitInv == ASSUME NativeAssumption, NativeInit PROVE NativeInv
  <1> SUFFICES ASSUME front = "solo" PROVE SoloInv
    BY DEF NativeInv
  <1>1. PICK failed \in SUBSET Threads :
            thread = [w \in Threads |->
                        IF w \in failed THEN Failed
                        ELSE [Fresh EXCEPT !.inbox = <<[job |-> 0, tip |-> 0]>>]]
    BY DEF NativeInit
  <1>2. ASSUME NEW w \in Threads
        PROVE  /\ thread[w] \in Thread
               /\ thread[w].job = 0 /\ thread[w].tip = 0
               /\ \A n \in 1 .. Len(thread[w].inbox) :
                      thread[w].inbox[n] = [job |-> 0, tip |-> 0]
    <2>1. CASE w \in failed
      <3>1. thread[w] = [at |-> "over", job |-> 0, tip |-> 0, nonce |-> 0, inbox |-> <<>>]
        BY <1>1, <2>1 DEF Failed, Fresh
      <3>2. <<>> \in Seq(Job) /\ Len(<<>>) = 0
        OBVIOUS
      <3> QED
        BY <3>1, <3>2 DEF Thread
    <2>2. CASE w \notin failed
      <3>1. thread[w] = [at |-> "waiting", job |-> 0, tip |-> 0, nonce |-> 0,
                         inbox |-> <<[job |-> 0, tip |-> 0]>>]
        BY <1>1, <2>2 DEF Fresh
      <3>2. [job |-> 0, tip |-> 0] \in Job
        BY DEF Job
      <3> QED
        BY <3>1, <3>2 DEF Thread
    <2> QED
      BY <2>1, <2>2
  <1>3. jobId = 0 /\ template = 0 /\ tip = 0 /\ hits = <<>> /\ submitted = {}
    BY DEF NativeInit
  <1>4. thread \in [Threads -> Thread]
    BY <1>1, <1>2
  <1> QED
    BY <1>2, <1>3, <1>4 DEF SoloInv, Current

\* What a thread does with its own job: the job it mines afterwards is the one
\* it had, the head of its inbox or none.
LEMMA ThreadJobs ==
    ASSUME SoloInv, NEW w \in Threads, NEW t \in Thread,
           thread' = [thread EXCEPT ![w] = t], UNCHANGED <<jobId, template, tip, submitted>>,
           Current(t), \A n \in 1 .. Len(t.inbox) : Current(t.inbox[n]),
           hits' \in Seq(Job), \A n \in 1 .. Len(hits') : Current(hits'[n])
    PROVE  SoloInv'
  <1>1. thread' \in [Threads -> Thread]
    BY DEF SoloInv
  <1>2. \A v \in Threads : thread'[v] = IF v = w THEN t ELSE thread[v]
    BY DEF SoloInv
  <1>3. ASSUME NEW v \in Threads
        PROVE  /\ Current(thread[v])'
               /\ (\A n \in 1 .. Len(thread[v].inbox) : Current(thread[v].inbox[n]))'
    BY <1>2 DEF SoloInv, Current
  <1> QED
    BY <1>1, <1>3 DEF SoloInv, Current

\* A step of a thread keeps its job or takes the next one from its inbox; what
\* it finds carries the job it was found for.
LEMMA ThreadStepInv ==
    ASSUME NativeAssumption, SoloInv, NEW w \in Threads, ThreadStep(w)
    PROVE  SoloInv'
  <1> DEFINE me == thread[w]
  <1>1. /\ me \in Thread /\ Current(me)
        /\ \A n \in 1 .. Len(me.inbox) : Current(me.inbox[n])
        /\ hits \in Seq(Job) /\ \A n \in 1 .. Len(hits) : Current(hits[n])
        /\ jobId \in Nat /\ (jobId = 0 => template = 0)
    BY DEF SoloInv
  <1>2. UNCHANGED <<jobId, template, tip, submitted>>
    BY DEF ThreadStep, GetsJob, SwitchesJob, BeginsHash, EndsHash, HashFails, ThreadEnds,
           frontVars
  <1>3. (me.nonce + 1) % NonceSpace \in Nat
    BY <1>1 DEF Thread, NativeAssumption
  <1>4. CASE GetsJob(w) \/ SwitchesJob(w)
    <2> DEFINE t == Starts(w)
    <2>1. /\ me.inbox # <<>> /\ thread' = [thread EXCEPT ![w] = t] /\ hits' = hits
      BY <1>4 DEF GetsJob, SwitchesJob
    <2>2. me.inbox \in Seq(Job)
      BY <1>1 DEF Thread
    <2>3. /\ Head(me.inbox) \in Job /\ Head(me.inbox) = me.inbox[1]
          /\ Tail(me.inbox) \in Seq(Job) /\ Len(Tail(me.inbox)) = Len(me.inbox) - 1
          /\ \A n \in 1 .. Len(Tail(me.inbox)) : Tail(me.inbox)[n] = me.inbox[n + 1]
      BY <2>1, <2>2, HeadTailProperties
    <2>4. /\ t.job = Head(me.inbox).job /\ t.tip = Head(me.inbox).tip
          /\ t.inbox = Tail(me.inbox)
      BY <1>1 DEF Starts, Thread
    <2>5. 1 \in 1 .. Len(me.inbox)
      BY <2>1, <2>2, EmptySeq
    <2>6. t \in Thread
      <3>1. Head(me.inbox).job \in Nat /\ Head(me.inbox).tip \in Nat
        BY <2>3 DEF Job
      <3> QED
        BY <1>1, <2>3, <3>1 DEF Starts, Thread
    <2>7. Current(t)
      BY <1>1, <2>3, <2>4, <2>5 DEF Current
    <2>8. ASSUME NEW n \in 1 .. Len(t.inbox) PROVE Current(t.inbox[n])
      <3>1. t.inbox = Tail(me.inbox)
        BY <2>4
      <3>2. n + 1 \in 1 .. Len(me.inbox)
        BY <2>2, <2>3, <3>1
      <3> QED
        BY <1>1, <2>3, <3>1, <3>2
    <2> HIDE DEF t, me
    <2> QED
      BY <1>1, <1>2, <2>1, <2>6, <2>7, <2>8, ThreadJobs
  <1>5. CASE BeginsHash(w)
    <2> DEFINE t == [me EXCEPT !.at = "hashing"]
    <2>1. thread' = [thread EXCEPT ![w] = t] /\ hits' = hits
      BY <1>5 DEF BeginsHash
    <2>2. t \in Thread /\ Current(t) /\ t.inbox = me.inbox
      BY <1>1 DEF Thread, Current
    <2> HIDE DEF t, me
    <2> QED
      BY <1>1, <1>2, <2>1, <2>2, ThreadJobs
  <1>6. CASE EndsHash(w)
    <2>1. PICK a \in {"waiting", "mining"} :
              thread' = [thread EXCEPT ![w].nonce = (me.nonce + 1) % NonceSpace, ![w].at = a]
      BY <1>6 DEF EndsHash, AfterHash
    <2> DEFINE t == [me EXCEPT !.nonce = (me.nonce + 1) % NonceSpace, !.at = a]
    <2>2. thread' = [thread EXCEPT ![w] = t]
      BY <2>1 DEF SoloInv
    <2>3. t \in Thread /\ Current(t) /\ t.inbox = me.inbox
      BY <1>1, <1>3 DEF Thread, Current
    <2>4. hits' \in Seq(Job) /\ \A n \in 1 .. Len(hits') : Current(hits'[n])
      <3> DEFINE b == [job |-> me.job, tip |-> me.tip]
      <3>1. hits' = hits \/ hits' = Append(hits, b)
        BY <1>6 DEF EndsHash
      <3>2. b \in Job /\ Current(b)
        BY <1>1 DEF Thread, Job, Current
      <3> HIDE DEF b
      <3>3. CASE hits' = hits
        BY <1>1, <3>3
      <3>4. CASE hits' = Append(hits, b)
        <4>1. /\ hits' \in Seq(Job) /\ Len(hits') = Len(hits) + 1
              /\ \A n \in 1 .. Len(hits) : hits'[n] = hits[n]
              /\ hits'[Len(hits) + 1] = b
          BY <1>1, <3>2, <3>4, AppendProperties
        <4>2. \A n \in 1 .. Len(hits') : n \in 1 .. Len(hits) \/ n = Len(hits) + 1
          BY <1>1, <4>1
        <4> QED
          BY <1>1, <3>2, <4>1, <4>2
      <3> QED
        BY <3>1, <3>3, <3>4
    <2> HIDE DEF t, me
    <2> QED
      BY <1>1, <1>2, <2>2, <2>3, <2>4, ThreadJobs
  <1>7. CASE HashFails(w)
    <2> DEFINE t == [me EXCEPT !.nonce = (me.nonce + 1) % NonceSpace, !.at = "mining"]
    <2>1. thread' = [thread EXCEPT ![w] = t] /\ hits' = hits
      BY <1>7 DEF HashFails, SoloInv
    <2>2. t \in Thread /\ Current(t) /\ t.inbox = me.inbox
      BY <1>1, <1>3 DEF Thread, Current
    <2> HIDE DEF t, me
    <2> QED
      BY <1>1, <1>2, <2>1, <2>2, ThreadJobs
  <1>8. CASE ThreadEnds(w)
    <2>1. thread' = [thread EXCEPT ![w] = Failed] /\ hits' = hits
      BY <1>8 DEF ThreadEnds
    <2>2. Failed = [at |-> "over", job |-> 0, tip |-> 0, nonce |-> 0, inbox |-> <<>>]
      BY DEF Failed, Fresh
    <2>3. <<>> \in Seq(Job) /\ Len(<<>>) = 0
      OBVIOUS
    <2>4. Failed \in Thread
      BY <2>2, <2>3 DEF Thread
    <2>5. Current(Failed) /\ Failed.inbox = <<>>
      BY <1>1, <2>2 DEF Current
    <2>6. \A n \in 1 .. Len(Failed.inbox) : Current(Failed.inbox[n])
      BY <2>3, <2>5
    <2> HIDE DEF me
    <2> QED
      BY <1>1, <1>2, <2>1, <2>4, <2>5, <2>6, ThreadJobs
  <1> QED
    BY <1>4, <1>5, <1>6, <1>7, <1>8 DEF ThreadStep

\* A new template makes every job there is an old one and is sent to every
\* thread that is still there under the next id.
LEMMA NewJobInv ==
    ASSUME SoloInv, NewJob(tip), UNCHANGED <<tip, submitted>>,
           hits' = hits \/ hits' = <<>>
    PROVE  SoloInv'
  <1> DEFINE new == [job |-> jobId + 1, tip |-> tip]
  <1>1. /\ template' = tip /\ jobId' = jobId + 1
        /\ thread' = [w \in Threads |->
              IF thread[w].at = "over" THEN thread[w]
              ELSE [thread[w] EXCEPT !.inbox = Append(@, new)]]
    BY DEF NewJob, SendJob
  <1>2. jobId \in Nat /\ tip \in Nat /\ new \in Job
    BY DEF SoloInv, Job
  <1>3. \A j : j.job \in Nat /\ Current(j) => j.job <= jobId' /\ j.job # jobId'
    BY <1>1, <1>2 DEF Current
  <1>4. new.job <= jobId' /\ (new.job = jobId' => new.tip = template')
    BY <1>1, <1>2
  <1>5. ASSUME NEW w \in Threads
        PROVE  /\ thread'[w] \in Thread
               /\ Current(thread[w])'
               /\ (\A n \in 1 .. Len(thread[w].inbox) : Current(thread[w].inbox[n]))'
    <2> DEFINE me == thread[w]
    <2>1. /\ me \in Thread /\ Current(me)
          /\ \A n \in 1 .. Len(me.inbox) : Current(me.inbox[n])
      BY DEF SoloInv
    <2>2. me.inbox \in Seq(Job) /\ me.job \in Nat
      BY <2>1 DEF Thread
    <2>3. ASSUME NEW n \in 1 .. Len(me.inbox) PROVE me.inbox[n].job \in Nat
      <3>1. me.inbox[n] \in Job
        BY <2>2, ElementOfSeq
      <3> QED
        BY <3>1 DEF Job
    <2>4. CASE me.at = "over"
      <3>1. thread'[w] = me
        BY <1>1, <2>4
      <3> QED
        BY <1>3, <2>1, <2>2, <2>3, <3>1 DEF Current
    <2>5. CASE me.at # "over"
      <3> DEFINE box == Append(me.inbox, new)
      <3>1. thread'[w] = [me EXCEPT !.inbox = box]
        BY <1>1, <2>5
      <3>2. /\ box \in Seq(Job) /\ Len(box) = Len(me.inbox) + 1
            /\ \A n \in 1 .. Len(me.inbox) : box[n] = me.inbox[n]
            /\ box[Len(me.inbox) + 1] = new
        BY <1>2, <2>2, AppendProperties
      <3> HIDE DEF box, new
      <3>3. thread'[w] \in Thread /\ thread'[w].job = me.job /\ thread'[w].inbox = box
            /\ thread'[w].tip = me.tip
        BY <2>1, <3>1, <3>2 DEF Thread
      <3>4. Current(thread[w])'
        BY <1>3, <2>1, <2>2, <3>3 DEF Current
      <3>5. ASSUME NEW n \in 1 .. Len(box)
            PROVE  box[n].job <= jobId' /\ (box[n].job = jobId' => box[n].tip = template')
        <4>1. CASE n \in 1 .. Len(me.inbox)
          BY <1>3, <2>1, <2>3, <3>2, <4>1
        <4>2. CASE n = Len(me.inbox) + 1
          BY <1>4, <3>2, <4>2
        <4>3. Len(me.inbox) \in Nat
          BY <2>2
        <4> QED
          BY <3>2, <4>1, <4>2, <4>3
      <3> QED
        BY <3>3, <3>4, <3>5 DEF Current
    <2> QED
      BY <2>4, <2>5
  <1>6. thread' \in [Threads -> Thread]
    <2> DEFINE t(w) == IF thread[w].at = "over" THEN thread[w]
                       ELSE [thread[w] EXCEPT !.inbox = Append(@, new)]
    <2>1. thread' = [w \in Threads |-> t(w)]
      BY <1>1
    <2> HIDE DEF t
    <2> QED
      BY <1>5, <2>1
  <1>7. hits' \in Seq(Job) /\ (\A n \in 1 .. Len(hits) : Current(hits[n]))'
    <2>1. CASE hits' = hits
      <3>1. \A n \in 1 .. Len(hits) : hits[n].job \in Nat /\ Current(hits[n])
        <4>1. ASSUME NEW n \in 1 .. Len(hits) PROVE hits[n] \in Job
          BY ElementOfSeq DEF SoloInv
        <4> QED
          BY <4>1 DEF SoloInv, Job
      <3> QED
        BY <1>3, <2>1, <3>1 DEF SoloInv, Current
    <2>2. CASE hits' = <<>>
      BY <2>2
    <2> QED
      BY <2>1, <2>2
  <1>8. jobId' \in Nat /\ jobId' # 0 /\ template' \in Nat /\ tip' \in Nat
    BY <1>1, <1>2
  <1> QED
    BY <1>5, <1>6, <1>7, <1>8 DEF SoloInv

\* The loop of main.rs: what it takes from the channel is of the current job,
\* so its template is the one that is submitted.
LEMMA SoloStepInv == ASSUME SoloInv, SoloStep PROVE SoloInv'
  <1>1. /\ jobId \in Nat /\ template \in Nat /\ tip \in Nat /\ hits \in Seq(Job)
        /\ \A n \in 1 .. Len(hits) : Current(hits[n])
    BY DEF SoloInv
  <1>2. ASSUME UNCHANGED <<thread, jobId, template>>, tip' \in Nat,
               hits' \in Seq(Job), \A n \in 1 .. Len(hits') : Current(hits'[n]),
               \A s \in submitted' : s.tip = s.template
        PROVE  SoloInv'
    BY <1>2 DEF SoloInv, Current
  <1>3. CASE SkipsStale
    <2>1. hits # <<>> /\ hits' = Tail(hits)
      BY <1>3 DEF SkipsStale
    <2>2. /\ hits' \in Seq(Job) /\ Len(hits') = Len(hits) - 1
          /\ \A n \in 1 .. Len(hits') : hits'[n] = hits[n + 1]
      BY <1>1, <2>1, HeadTailProperties
    <2>3. \A n \in 1 .. Len(hits') : n + 1 \in 1 .. Len(hits)
      BY <1>1, <2>2
    <2> QED
      BY <1>1, <1>2, <1>3, <2>2, <2>3 DEF SkipsStale, SoloInv, frontVars
  <1>4. CASE TakesBlock
    <2>1. /\ hits # <<>> /\ Head(hits).job = jobId
          /\ submitted' = {[tip |-> Head(hits).tip, template |-> template]}
          /\ hits' = <<>>
      BY <1>4 DEF TakesBlock, IsStale
    <2>2. Current(Head(hits))
      <3>1. 1 \in 1 .. Len(hits) /\ Head(hits) = hits[1]
        BY <1>1, <2>1, EmptySeq, HeadTailProperties
      <3> QED
        BY <1>1, <3>1
    <2>3. \A s \in submitted' : s.tip = s.template
      BY <2>1, <2>2 DEF Current
    <2> QED
      BY <1>1, <1>2, <1>4, <2>1, <2>3 DEF TakesBlock
  <1>5. CASE SubmitBlock
    BY <1>1, <1>2, <1>5 DEF SubmitBlock, SoloInv
  <1>6. CASE LoopEnds
    BY <1>1, <1>2, <1>6 DEF LoopEnds, SoloInv
  <1>7. ASSUME \/ UNCHANGED <<thread, hits, jobId, template>>
               \/ NewJob(tip) /\ (hits' = hits \/ hits' = <<>>),
               UNCHANGED <<tip, submitted>>
        PROVE  SoloInv'
    <2>1. CASE UNCHANGED <<thread, hits, jobId, template>>
      BY <1>1, <1>2, <1>7, <2>1 DEF SoloInv
    <2>2. CASE NewJob(tip) /\ (hits' = hits \/ hits' = <<>>)
      BY <1>7, <2>2, NewJobInv
    <2> QED
      BY <1>7, <2>1, <2>2
  <1>8. CASE FetchTemplate
    BY <1>7, <1>8 DEF FetchTemplate
  <1>9. CASE RefreshTemplate
    BY <1>7, <1>9 DEF RefreshTemplate
  <1> QED
    BY <1>3, <1>4, <1>5, <1>6, <1>8, <1>9 DEF SoloStep

\* Every step of either front.
LEMMA NativeStep ==
    ASSUME NativeAssumption, NativeInv, [NativeNext]_nativeVars
    PROVE  NativeInv'
  <1>1. front' = front
    BY DEF NativeNext, ThreadStep, GetsJob, SwitchesJob, BeginsHash, EndsHash, HashFails,
           ThreadEnds, SoloStep, SkipsStale, TakesBlock, SubmitBlock, FetchTemplate,
           RefreshTemplate, LoopEnds, IpcStep, TellsBlock, InitCommand, JobCommand,
           OtherCommand, Shutdown, Interrupt, TipMoves, nativeVars
  <1> SUFFICES ASSUME front = "solo" PROVE SoloInv'
    BY <1>1 DEF NativeInv
  <1>2. SoloInv
    BY DEF NativeInv
  <1>3. ASSUME UNCHANGED <<thread, hits, jobId, template, submitted>>, tip' \in Nat
        PROVE  SoloInv'
    BY <1>2, <1>3 DEF SoloInv, Current
  <1>4. ~IpcStep
    BY DEF IpcStep, TellsBlock, InitCommand, JobCommand, OtherCommand, Command, Shutdown
  <1>5. CASE UNCHANGED nativeVars
    BY <1>2, <1>3, <1>5 DEF nativeVars, SoloInv
  <1>6. CASE Interrupt
    BY <1>2, <1>3, <1>6 DEF Interrupt, frontVars, SoloInv
  <1>7. CASE TipMoves
    BY <1>2, <1>3, <1>7 DEF TipMoves, SoloInv
  <1> QED
    BY <1>2, <1>4, <1>5, <1>6, <1>7, ThreadStepInv, SoloStepInv DEF NativeNext

\* However many threads hash, fail or end and however often the template
\* changes: a block the miner submits was found on the template that is then
\* current (main.rs tells old jobs by their id only).
THEOREM BlocksAreCurrent ==
    NativeInit /\ [][NativeNext]_nativeVars => []SubmitsCurrent
  <1>1. NativeInit => NativeInv
    BY NativeAssumption, NativeInitInv
  <1>2. NativeInv /\ [NativeNext]_nativeVars => NativeInv'
    BY NativeAssumption, NativeStep
  <1>3. NativeInv => SubmitsCurrent
    BY DEF NativeInv, SoloInv, SubmitsCurrent
  <1> QED
    BY <1>1, <1>2, <1>3, PTL

-----------------------------------------------------------------------------
(***************************************************************************)
(* The pool connection: it comes back                                      *)
(***************************************************************************)
\* The reconnect that a lost connection leaves behind: scheduled, or a socket
\* of its own that is opening.
Reconnecting ==
    reconnectTimer \/ \E s \in Sockets : attempt[s] = "timer" /\ conn[s] = "opening"

\* A socket that is opening has asked for no login: what an answer to a login
\* settles is never the reconnect that is under way.
PoolInv ==
    /\ StratumTypeOK
    /\ \A s \in Sockets : conn[s] = "opening" => login[s] = NoSocket
    /\ held /\ autoReconnect /\ ~connected => Reconnecting

\* The types of a client that makes any step.
LEMMA StratumTypeStep ==
    ASSUME StratumTypeOK, StratumNext
    PROVE  StratumTypeOK'
  <1> USE DEF StratumTypeOK, MaybeSocket, SocketStates
  <1>1. CASE UserConnects
    BY <1>1 DEF UserConnects, Connect, flags
  <1>2. CASE Disconnect
    BY <1>2 DEF Disconnect, Settled
  <1>3. CASE ReconnectFires
    BY <1>3 DEF ReconnectFires, Connect
  <1>4. ASSUME NEW s \in Sockets, SocketConnects(s) PROVE StratumTypeOK'
    <2>1. reconnectTimer' \in BOOLEAN
      BY <1>4, Zenon DEF SocketConnects, Rescheduled
    <2> QED
      BY <1>4, <2>1 DEF SocketConnects, Settled
  <1>5. ASSUME NEW s \in Sockets, SocketFails(s) PROVE StratumTypeOK'
    <2>1. reconnectTimer' \in BOOLEAN
      BY <1>5 DEF SocketFails, Rescheduled
    <2> QED
      BY <1>5, <2>1 DEF SocketFails, Settled
  <1>6. ASSUME NEW s \in Sockets, SocketIdles(s) PROVE StratumTypeOK'
    <2>1. reconnectTimer' \in BOOLEAN /\ held' \in BOOLEAN
      BY <1>6 DEF SocketIdles, Rescheduled
    <2>2. attempt' \in [Sockets -> {"none", "user", "timer"}]
      BY <1>6 DEF SocketIdles
    <2> QED
      BY <1>6, <2>1, <2>2 DEF SocketIdles
  <1>7. ASSUME NEW s \in Sockets, SocketEnds(s) \/ SocketCloses(s) PROVE StratumTypeOK'
    <2>1. reconnectTimer' \in BOOLEAN
      BY <1>7 DEF SocketEnds, SocketCloses, OnDisconnect
    <2> QED
      BY <1>7, <2>1 DEF SocketEnds, SocketCloses, OnDisconnect
  <1>8. ASSUME NEW s \in Sockets, HalfLine(s) \/ LineLost(s) PROVE StratumTypeOK'
    BY <1>8 DEF HalfLine, LineLost, flags
  <1>9. ASSUME NEW s \in Sockets, LoginAccepted(s) PROVE StratumTypeOK'
    BY <1>9 DEF LoginAccepted, Received, Settled, flags
  <1>10. ASSUME NEW s \in Sockets, LoginFails(s) PROVE StratumTypeOK'
    <2>1. reconnectTimer' \in BOOLEAN
      BY <1>10 DEF LoginFails, Rescheduled
    <2> QED
      BY <1>10, <2>1 DEF LoginFails, Received, Settled
  <1>11. ASSUME NEW s \in Sockets, NEW j \in PoolJobs, PoolSendsJob(s, j) PROVE StratumTypeOK'
    BY <1>11 DEF PoolSendsJob, Received, flags
  <1>12. ASSUME NEW x \in Shares, SubmitShare(x) \/ ShareAnswered(x) \/ ShareTimesOut(x)
         PROVE  StratumTypeOK'
    BY <1>12 DEF SubmitShare, ShareAnswered, ShareTimesOut, Received, flags
  <1> QED
    BY <1>1, <1>2, <1>3, <1>4, <1>5, <1>6, <1>7, <1>8, <1>9, <1>10, <1>11, <1>12
    DEF StratumNext

\* A step that leaves the reconnect alone: it neither loses a connection nor
\* ends an attempt that is opening.
LEMMA StillReconnecting ==
    ASSUME PoolInv, StratumTypeOK', UNCHANGED autoReconnect,
           held' => held, connected => connected',
           reconnectTimer => reconnectTimer',
           \A s \in Sockets : attempt[s] = "timer" /\ conn[s] = "opening" =>
               (attempt'[s] = "timer" /\ conn'[s] = "opening") \/ reconnectTimer' \/ ~held'
                   \/ ~autoReconnect
    PROVE  held' /\ autoReconnect' /\ ~connected' => Reconnecting'
  <1> SUFFICES ASSUME held', autoReconnect', ~connected' PROVE Reconnecting'
    OBVIOUS
  <1>1. Reconnecting /\ autoReconnect
    BY DEF PoolInv
  <1>2. CASE reconnectTimer
    BY <1>2 DEF Reconnecting
  <1>3. CASE ~reconnectTimer
    <2>1. PICK s \in Sockets : attempt[s] = "timer" /\ conn[s] = "opening"
      BY <1>1, <1>3 DEF Reconnecting
    <2> QED
      BY <1>1, <2>1 DEF Reconnecting
  <1> QED
    BY <1>2, <1>3

\* Every event of the client.
LEMMA PoolStep ==
    ASSUME SocketAssumption, PoolInv, StratumNext
    PROVE  PoolInv'
  <1>1. StratumTypeOK /\ StratumTypeOK'
    BY StratumTypeStep DEF PoolInv
  <1>2. \A s \in Sockets : conn[s] = "opening" => login[s] = NoSocket
    BY DEF PoolInv
  <1>3. SUFFICES /\ \A s \in Sockets : conn'[s] = "opening" => login'[s] = NoSocket
                 /\ held' /\ autoReconnect' /\ ~connected' => Reconnecting'
    BY <1>1 DEF PoolInv
  <1> USE DEF StratumTypeOK, flags
  <1> DEFINE Fresh1 == \A s \in Sockets : conn'[s] = "opening" => login'[s] = NoSocket
             Back1 == held' /\ autoReconnect' /\ ~connected' => Reconnecting'
  <1>4. ASSUME UserConnects PROVE Fresh1 /\ Back1
    <2>1. Fresh1
      BY <1>1, <1>2, <1>4 DEF UserConnects, Connect, Unused
    <2>2. Back1
      BY <1>1, <1>4, StillReconnecting DEF UserConnects, Connect, Unused
    <2> QED
      BY <2>1, <2>2
  <1>5. ASSUME Disconnect PROVE Fresh1 /\ Back1
    <2>1. Fresh1
      BY <1>1, <1>2, <1>5 DEF Disconnect
    <2> QED
      BY <1>5, <2>1 DEF Disconnect
  <1>6. ASSUME ReconnectFires PROVE Fresh1 /\ Back1
    <2>1. Fresh1
      BY <1>1, <1>2, <1>6 DEF ReconnectFires, Connect, Unused
    <2>2. CASE connected
      BY <1>6, <2>1, <2>2 DEF ReconnectFires
    <2>3. CASE ~connected
      <3>1. \E s \in Sockets : attempt'[s] = "timer" /\ conn'[s] = "opening"
        BY <1>1, <1>6, <2>3 DEF ReconnectFires, Connect
      <3> QED
        BY <2>1, <3>1 DEF Reconnecting
    <2> QED
      BY <2>2, <2>3
  <1>7. ASSUME NEW s \in Sockets, SocketConnects(s) PROVE Fresh1 /\ Back1
    <2>1. Fresh1
      BY <1>1, <1>2, <1>7 DEF SocketConnects
    <2> QED
      BY <1>7, <2>1 DEF SocketConnects
  <1>8. ASSUME NEW s \in Sockets, SocketFails(s) PROVE Fresh1 /\ Back1
    <2>1. Fresh1
      BY <1>1, <1>2, <1>8 DEF SocketFails
    <2>2. CASE connected
      BY <1>8, <2>1, <2>2 DEF SocketFails, Reconnecting
    <2>3. CASE ~connected
      <3>1. /\ reconnectTimer' = Rescheduled(s) /\ UNCHANGED <<connected, held, autoReconnect>>
            /\ attempt' = [attempt EXCEPT ![s] = "none"] /\ conn' = [conn EXCEPT ![s] = "free"]
        BY <1>8, <2>3 DEF SocketFails, Settled
      <3>2. reconnectTimer => reconnectTimer'
        BY <3>1 DEF Rescheduled
      <3>3. ASSUME NEW t \in Sockets, attempt[t] = "timer", conn[t] = "opening"
            PROVE  (attempt'[t] = "timer" /\ conn'[t] = "opening") \/ reconnectTimer'
                       \/ ~autoReconnect
        <4>1. CASE t = s
          BY <3>1, <3>3, <4>1 DEF Rescheduled
        <4>2. CASE t # s
          BY <1>1, <3>1, <3>3, <4>2
        <4> QED
          BY <4>1, <4>2
      <3>4. Back1
        BY <1>1, <3>1, <3>2, <3>3, StillReconnecting
      <3> QED
        BY <2>1, <3>4
    <2> QED
      BY <2>2, <2>3
  <1>9. ASSUME NEW s \in Sockets, SocketIdles(s) PROVE Fresh1 /\ Back1
    <2>1. /\ socket \in Sockets
          /\ conn' = [conn EXCEPT ![socket] = "free"]
          /\ attempt' = [t \in Sockets |->
                IF t = s \/ (t = socket /\ login[t] = NoSocket) THEN "none" ELSE attempt[t]]
          /\ reconnectTimer' = Rescheduled(s)
          /\ held' => held /\ (socket = s \/ attempt[socket] # "timer")
          /\ UNCHANGED <<login, connected, autoReconnect>>
      BY <1>1, <1>9 DEF SocketIdles, MaybeSocket
    <2>2. Fresh1
      BY <1>1, <1>2, <2>1
    <2>3. reconnectTimer => reconnectTimer'
      BY <2>1 DEF Rescheduled
    <2>4. ASSUME NEW t \in Sockets, attempt[t] = "timer", conn[t] = "opening"
          PROVE  (attempt'[t] = "timer" /\ conn'[t] = "opening") \/ reconnectTimer'
                     \/ ~held' \/ ~autoReconnect
      <3>1. CASE t = s
        BY <2>1, <2>4, <3>1 DEF Rescheduled
      <3>2. CASE t # s /\ t = socket
        BY <2>1, <2>4, <3>2
      <3>3. CASE t # s /\ t # socket
        BY <1>1, <2>1, <2>4, <3>3
      <3> QED
        BY <3>1, <3>2, <3>3
    <2>5. Back1
      BY <1>1, <2>1, <2>3, <2>4, StillReconnecting
    <2> QED
      BY <2>2, <2>5
  <1>10. ASSUME NEW s \in Sockets, SocketEnds(s) \/ SocketCloses(s) PROVE Fresh1 /\ Back1
    <2>1. /\ conn[s] # "opening"
          /\ \E c \in {"ended", "free"} : conn' = [conn EXCEPT ![s] = c]
          /\ UNCHANGED <<attempt, login, autoReconnect, held>>
          /\ reconnectTimer' = (reconnectTimer \/ (connected /\ autoReconnect))
      BY <1>10 DEF SocketEnds, SocketCloses, OnDisconnect
    <2>2. Fresh1
      BY <1>1, <1>2, <2>1
    <2>3. CASE connected
      BY <2>1, <2>2, <2>3 DEF Reconnecting
    <2>4. CASE ~connected
      <3>1. \A t \in Sockets : conn[t] = "opening" => conn'[t] = "opening"
        BY <1>1, <2>1
      <3>2. Back1
        BY <1>1, <2>1, <2>4, <3>1, StillReconnecting
      <3> QED
        BY <2>2, <3>2
    <2> QED
      BY <2>3, <2>4
  <1>11. ASSUME NEW s \in Sockets, LoginAccepted(s) \/ LoginFails(s) PROVE Fresh1 /\ Back1
    <2>1. /\ login[s] # NoSocket
          /\ attempt' = [attempt EXCEPT ![s] = "none"] /\ login' = [login EXCEPT ![s] = NoSocket]
          /\ UNCHANGED <<conn, connected, autoReconnect, held>>
          /\ reconnectTimer' = reconnectTimer \/ reconnectTimer' = Rescheduled(s)
      BY <1>11 DEF LoginAccepted, LoginFails, Settled
    <2>2. Fresh1
      BY <1>1, <1>2, <2>1
    <2>3. reconnectTimer => reconnectTimer'
      BY <2>1 DEF Rescheduled
    <2>4. \A t \in Sockets : conn[t] = "opening" => t # s
      BY <1>2, <2>1
    <2>5. Back1
      BY <1>1, <2>1, <2>3, <2>4, StillReconnecting
    <2> QED
      BY <2>2, <2>5
  <1>12. ASSUME UNCHANGED <<conn, attempt, login, connected, flags, held>>
         PROVE  Fresh1 /\ Back1
    <2>1. Fresh1
      BY <1>2, <1>12
    <2>2. Back1
      BY <1>1, <1>12, StillReconnecting
    <2> QED
      BY <2>1, <2>2
  <1>13. ASSUME NEW s \in Sockets,
                HalfLine(s) \/ LineLost(s) \/ \E j \in PoolJobs : PoolSendsJob(s, j)
         PROVE  Fresh1 /\ Back1
    BY <1>12, <1>13 DEF HalfLine, LineLost, PoolSendsJob
  <1>14. ASSUME NEW x \in Shares, SubmitShare(x) \/ ShareAnswered(x) \/ ShareTimesOut(x)
         PROVE  Fresh1 /\ Back1
    BY <1>12, <1>14 DEF SubmitShare, ShareAnswered, ShareTimesOut
  <1> HIDE DEF Fresh1, Back1
  <1>15. Fresh1 /\ Back1
    BY <1>4, <1>5, <1>6, <1>7, <1>8, <1>9, <1>10, <1>11, <1>13, <1>14 DEF StratumNext
  <1> QED
    BY <1>15 DEF Fresh1, Back1

\* A client before its first connect().
LEMMA PoolInitInv == ASSUME SocketAssumption, StratumInit PROVE PoolInv
  BY DEF StratumInit, PoolInv, StratumTypeOK, MaybeSocket, SocketStates

\* Types of the client, for any number of sockets and shares.
THEOREM StratumTypeCorrect == StratumSpec => []StratumTypeOK
  <1>1. StratumInit => StratumTypeOK
    BY DEF StratumInit, StratumTypeOK, MaybeSocket, SocketStates
  <1>2. StratumTypeOK /\ [StratumNext]_stratumVars => StratumTypeOK'
    BY StratumTypeStep DEF stratumVars, flags, StratumTypeOK, MaybeSocket, SocketStates
  <1> QED
    BY <1>1, <1>2, PTL DEF StratumSpec

\* However many sockets are open, opening or half closed, and in whatever order
\* their events, answers and timeouts come: a client that lost its connection
\* has a reconnect scheduled or under way until it is told to disconnect
\* (_onDisconnect, _scheduleReconnect and the catch of connect()).
THEOREM ClientIsNeverStranded == StratumSpec => []NeverStranded
  <1>1. StratumInit => PoolInv
    BY SocketAssumption, PoolInitInv
  <1>2. PoolInv /\ [StratumNext]_stratumVars => PoolInv'
    <2>1. CASE StratumNext
      BY <2>1, SocketAssumption, PoolStep
    <2>2. CASE UNCHANGED stratumVars
      BY <2>2 DEF stratumVars, flags, PoolInv, StratumTypeOK, MaybeSocket, SocketStates,
                  Reconnecting
    <2> QED
      BY <2>1, <2>2
  <1>3. PoolInv => NeverStranded
    BY DEF PoolInv, NeverStranded, Reconnecting, Waiting
  <1> QED
    BY <1>1, <1>2, <1>3, PTL DEF StratumSpec

-----------------------------------------------------------------------------
(***************************************************************************)
(* The pool's miner: which job is mined, and with which dataset            *)
(***************************************************************************)
\* The shapes of the miner's state.  A seed is taken of whatever is mined as a
\* job, so that the types do not depend on what start() waited for.
AnySeed == MaybeSeed \union {SeedOf[j] : j \in MaybeJob}
Message == [type : {"stop", "job"}, job : MaybeJob, data : AnySeed]
WorkerState == [label : AnySeed, data : AnySeed, job : MaybeJob, hashing : BOOLEAN,
                loaded : BOOLEAN, loading : SUBSET Message]

MinerShape ==
    /\ currentJob \in MaybeJob /\ firstJob \in MaybeJob /\ clientJob \in MaybeJob
    /\ dataset \in AnySeed /\ generating \in AnySeed
    /\ waiters \in Seq(Handler) /\ ready \in Seq(Handler)
    /\ queue \in [Workers -> Seq(Message)]
    /\ worker \in [Workers -> WorkerState]

\* The job a worker mines once it has handled its messages, and whether it
\* hashes then.
WillMine(w) == IF queue[w] = <<>> THEN worker[w].job ELSE queue[w][Len(queue[w])].job
WillRest(w) == IF queue[w] = <<>> THEN ~worker[w].hashing ELSE queue[w][Len(queue[w])] = Stop

ConnectedOnly == <<[job |-> NoMinerJob, at |-> "connected"]>>

\* Light mode: a miner that mines has its workers, the miner and its client
\* agree on the last job, and the last message is what is due.
LightInv ==
    /\ generating = NoSeed /\ waiters = <<>>
    /\ ready = <<>> \/ (ready = ConnectedOnly /\ starting = "connect")
    /\ starting \in {"no", "spawn", "connect"}
    /\ stopping => ~mining /\ starting = "no"
    /\ mining \/ starting # "no" => up
    /\ currentJob = clientJob
    /\ due # NoMinerJob => mining /\ ~paused /\ \A w \in Workers : WillMine(w) = due
    /\ paused \/ ~up => \A w \in Workers : WillRest(w)
    /\ \A w \in Workers : worker[w].loading = {}

\* Handlers that began a generation, and handlers whose job is mined next.
Begins == {"gen", "startGen"}
Mines == {"gen", "inner", "generated"}

\* Who began a generation waits first and goes on before any other that waited
\* for it; no dataset is replaced while somebody goes on.
HandlerInv ==
    /\ generating = NoSeed => waiters = <<>>
    /\ \A n \in 2 .. Len(waiters) : waiters[n].at \notin Begins
    /\ \A n \in 2 .. Len(ready) : ready[n].at \notin Begins
    /\ ready # <<>> /\ ready[1].at \in Begins => waiters = <<>> /\ generating = dataset
    /\ \A n \in 1 .. Len(waiters) :
          /\ waiters[n].at # "connected"
          /\ waiters[n].at = "wait" => waiters[n].job \in MinerJobs
    /\ \A n \in 1 .. Len(ready) :
          /\ ready[n].at = "connected" => Len(ready) = 1
          /\ ready[n].at # "connected" => dataset # NoSeed
          /\ ready[n].at = "wait" => ready[n].job \in MinerJobs
    /\ starting = "spawn" => dataset # NoSeed

\* A message to a full worker brings the dataset of its job.
RightMessage(m) == m = Stop \/ (Full => m.data = SeedOf[m.job] /\ m.data # NoSeed)

RightWorker(r) ==
    /\ r.data = r.label
    /\ r.hashing => r.label = SeedOf[r.job]
    /\ \A m \in r.loading : m.data = SeedOf[m.job]

WorkersRight ==
    \A w \in Workers :
        /\ RightWorker(worker[w])
        /\ \A n \in 1 .. Len(queue[w]) : RightMessage(queue[w][n])

\* What waits for a generation is for its seed, and what goes on after it finds
\* the dataset of its seed.
HandlersRight ==
    /\ \A n \in 1 .. Len(waiters) :
          waiters[n].at \in Mines => SeedOf[waiters[n].job] = generating
    /\ \A n \in 1 .. Len(ready) :
          ready[n].at \in Mines => SeedOf[ready[n].job] = dataset

PoolMinerInv ==
    /\ MinerShape
    /\ ~Full => LightInv
    /\ Full => HandlerInv
    /\ ~blind => WorkersRight /\ HandlersRight

-----------------------------------------------------------------------------
\* Messages and workers as they are made.
LEMMA MadeShape ==
    ASSUME MinerShape
    PROVE  /\ Stop \in Message /\ IdleWorker \in WorkerState
           /\ \A j \in MaybeJob : SeedOf[j] \in AnySeed /\ JobMessage(j) \in Message
  <1>1. NoSeed \in AnySeed /\ NoMinerJob \in MaybeJob
    BY DEF AnySeed, MaybeSeed, MaybeJob
  <1>2. \A j \in MaybeJob : SeedOf[j] \in AnySeed
    BY DEF AnySeed
  <1>3. Stop \in Message /\ IdleWorker \in WorkerState
    BY <1>1 DEF Stop, Message, IdleWorker, WorkerState
  <1>4. \A j \in MaybeJob : JobMessage(j) \in Message
    BY <1>1 DEF JobMessage, Message, MinerShape
  <1> QED
    BY <1>2, <1>3, <1>4

\* A worker that takes a job is a worker.
LEMMA TakesJobShape ==
    ASSUME NEW me \in WorkerState, NEW msg \in Message
    PROVE  TakesJob(me, msg) \in WorkerState
  <1>1. SeedOf[msg.job] \in AnySeed
    BY DEF Message, AnySeed
  <1>2. me.loading \union {msg} \in SUBSET Message
    BY DEF WorkerState
  <1>3. msg.job \in MaybeJob /\ msg.data \in AnySeed
    BY DEF Message
  <1> QED
    BY <1>1, <1>2, <1>3 DEF TakesJob, Hashes, Filled, WorkerState

\* What any step does to the queues and the workers.
QueueStep ==
    \/ UNCHANGED <<queue, worker>>
    \/ \E m \in Message : queue' = Posted(m) /\ UNCHANGED worker
    \/ /\ queue' = [w \in Workers |-> <<>>]
       /\ worker' = [w \in Workers |-> IdleWorker]
    \/ \E w \in Workers : WorkerReceives(w) \/ WorkerLoaded(w)

\* Messages stay messages and workers workers.
LEMMA QueueShape ==
    ASSUME MinerShape, QueueStep
    PROVE  queue' \in [Workers -> Seq(Message)] /\ worker' \in [Workers -> WorkerState]
  <1>1. queue \in [Workers -> Seq(Message)] /\ worker \in [Workers -> WorkerState]
    BY DEF MinerShape
  <1>2. CASE UNCHANGED <<queue, worker>>
    BY <1>1, <1>2
  <1>3. ASSUME NEW m \in Message, queue' = Posted(m), UNCHANGED worker
        PROVE  queue' \in [Workers -> Seq(Message)]
    <2>1. \A w \in Workers : Append(queue[w], m) \in Seq(Message)
      BY <1>1, AppendProperties
    <2> QED
      BY <1>1, <1>3, <2>1 DEF Posted
  <1>4. CASE /\ queue' = [w \in Workers |-> <<>>]
             /\ worker' = [w \in Workers |-> IdleWorker]
    BY <1>4, MadeShape
  <1>5. ASSUME NEW w \in Workers, WorkerReceives(w)
        PROVE  queue' \in [Workers -> Seq(Message)] /\ worker' \in [Workers -> WorkerState]
    <2> DEFINE msg == Head(queue[w])
               new == IF msg = Stop THEN [worker[w] EXCEPT !.hashing = FALSE, !.job = NoMinerJob]
                      ELSE TakesJob(worker[w], msg)
    <2>1. queue[w] # <<>> /\ queue' = [queue EXCEPT ![w] = Tail(queue[w])]
          /\ worker' = [worker EXCEPT ![w] = new]
      BY <1>5 DEF WorkerReceives
    <2>2. msg \in Message /\ Tail(queue[w]) \in Seq(Message)
      BY <1>1, <2>1, HeadTailProperties
    <2>3. new \in WorkerState
      <3>1. [worker[w] EXCEPT !.hashing = FALSE, !.job = NoMinerJob] \in WorkerState
        BY <1>1 DEF WorkerState, MaybeJob
      <3>2. TakesJob(worker[w], msg) \in WorkerState
        BY <1>1, <2>2, TakesJobShape
      <3> QED
        BY <3>1, <3>2
    <2> HIDE DEF msg, new
    <2> QED
      BY <1>1, <2>1, <2>2, <2>3
  <1>6. ASSUME NEW w \in Workers, WorkerLoaded(w)
        PROVE  queue' \in [Workers -> Seq(Message)] /\ worker' \in [Workers -> WorkerState]
    <2>1. PICK msg \in worker[w].loading :
              worker' = [worker EXCEPT ![w] = Loads(worker[w], msg)]
      BY <1>6 DEF WorkerLoaded
    <2>2. msg \in Message
      BY <1>1, <2>1 DEF WorkerState
    <2>3. SeedOf[msg.job] \in AnySeed /\ msg.job \in MaybeJob /\ msg.data \in AnySeed
      BY <2>2 DEF Message, AnySeed
    <2>4. worker[w].loading \ {msg} \in SUBSET Message
      BY <1>1 DEF WorkerState
    <2>5. Loads(worker[w], msg) \in WorkerState
      BY <1>1, <2>3, <2>4 DEF Loads, Hashes, Filled, WorkerState
    <2>6. queue' = queue
      BY <1>6 DEF WorkerLoaded, workerVars
    <2> QED
      BY <1>1, <2>1, <2>5, <2>6
  <1> QED
    BY <1>1, <1>2, <1>3, <1>4, <1>5, <1>6 DEF QueueStep

-----------------------------------------------------------------------------
\* _handleNewJob after its first await: it has nothing to do, starts the job,
\* waits for the generation of another or begins its own.
LEMMA GoOnCases ==
    ASSUME NEW j, GoOn(j)
    PROVE  \/ generating # NoSeed /\ UNCHANGED <<generating, waiters, workerVars>>
           \/ /\ SeedOf[j] = dataset /\ StartJob(j)
              /\ UNCHANGED <<generating, waiters>>
           \/ /\ SeedOf[j] # dataset /\ generating # NoSeed
              /\ waiters' = Append(waiters, [job |-> j, at |-> "inner"])
              /\ UNCHANGED <<generating, workerVars>>
           \/ /\ generating = NoSeed /\ generating' = SeedOf[j]
              /\ waiters' = Append(waiters, [job |-> j, at |-> "gen"])
              /\ UNCHANGED workerVars
  BY DEF GoOn, Generate

\* What a job of the pool does at once.
LEMMA JobEventCases ==
    ASSUME NEW j, JobEvent(j)
    PROVE  /\ clientJob' = j /\ firstJob' \in {firstJob, j} /\ currentJob' \in {currentJob, j}
           /\ due' = IF mining /\ ~paused THEN j ELSE NoMinerJob
           /\ ~Full => currentJob' = j
           /\ \/ /\ UNCHANGED <<generating, waiters, workerVars>>
                 /\ Full \/ ~mining \/ paused
              \/ /\ StartJob(j) /\ UNCHANGED <<generating, waiters>>
                 /\ mining /\ ~paused
                 /\ Full => SeedOf[j] = dataset /\ dataset # NoSeed
              \/ /\ Full /\ generating # NoSeed
                 /\ waiters' = Append(waiters, [job |-> j, at |-> "wait"])
                 /\ UNCHANGED <<generating, workerVars>>
              \/ /\ Full /\ generating = NoSeed /\ generating' = SeedOf[j]
                 /\ waiters' = Append(waiters, [job |-> j, at |-> "gen"])
                 /\ UNCHANGED workerVars
  <1>1. CASE Full /\ dataset = NoSeed
    BY <1>1 DEF JobEvent
  <1>2. CASE ~(Full /\ dataset = NoSeed)
    <2>1. HandleNewJob(j)
      BY <1>2 DEF JobEvent
    <2>2. CASE ~mining \/ paused
      BY <1>2, <2>1, <2>2 DEF JobEvent, HandleNewJob
    <2>3. CASE ~(~mining \/ paused) /\ ~Full
      BY <1>2, <2>1, <2>3 DEF JobEvent, HandleNewJob
    <2>4. CASE ~(~mining \/ paused) /\ Full /\ generating # NoSeed
      BY <1>2, <2>1, <2>4 DEF JobEvent, HandleNewJob
    <2>5. CASE ~(~mining \/ paused) /\ Full /\ generating = NoSeed
      <3>1. GoOn(j) /\ currentJob' = j
        BY <2>1, <2>5 DEF HandleNewJob
      <3>2. SeedOf[j] # dataset \/ StartJob(j)
        BY <2>5, <3>1 DEF GoOn
      <3> QED
        BY <1>2, <2>5, <3>1, GoOnCases DEF JobEvent
    <2> QED
      BY <2>2, <2>3, <2>4, <2>5
  <1> QED
    BY <1>1, <1>2

\* A job or a login, with what it leaves alone.
LEMMA JobStepFrame ==
    ASSUME NEW j \in MaybeJob, (j \in MinerJobs /\ MinerGetsJob(j)) \/ LogsIn(j)
    PROVE  /\ \/ j \in MinerJobs /\ JobEvent(j)
              \/ UNCHANGED <<clientJob, firstJob, currentJob, generating, waiters, workerVars, due>>
           /\ Turn /\ ready' \in {ready, ConnectedOnly}
           /\ ready' # ready => starting \in {"connect", "firstJob"}
           /\ UNCHANGED <<mode, starting, stopping, mining, paused, dataset, blind>>
  BY DEF MinerGetsJob, LogsIn, MaybeJob, ConnectedOnly

\* A start or a stop of a job reaches all the workers there are.
LEMMA PostsMessage ==
    ASSUME MinerShape, NEW j \in MaybeJob, StartJob(j) \/ PauseWorkers
    PROVE  /\ \E m \in Message : queue' = Posted(m) /\ UNCHANGED worker
           /\ UNCHANGED <<up, worker, found>>
  BY MadeShape DEF StartJob, PauseWorkers

\* The shapes of the miner after any step.
LEMMA MinerShapeStep ==
    ASSUME MinerShape, MinerNext
    PROVE  MinerShape' /\ QueueStep
  <1> USE DEF MinerShape
  <1>0. NoMinerJob \in MaybeJob /\ NoSeed \in AnySeed /\ MinerJobs \subseteq MaybeJob
    BY DEF MaybeJob, AnySeed, MaybeSeed
  <1>1. \A j \in MaybeJob : SeedOf[j] \in AnySeed
    BY DEF AnySeed
  <1>2. \A q \in Seq(Handler), h \in Handler : Append(q, h) \in Seq(Handler)
    BY AppendProperties
  <1>3. ConnectedOnly \in Seq(Handler) /\ <<>> \in Seq(Handler)
    <2>1. [job |-> NoMinerJob, at |-> "connected"] \in Handler
      BY <1>0 DEF Handler
    <2> QED
      BY <2>1 DEF ConnectedOnly
  <1>4. ready # <<>> => /\ Next1 \in Handler /\ Tail(ready) \in Seq(Handler)
                        /\ Next1.job \in MaybeJob
    <2>1. ready # <<>> => Next1 \in Handler /\ Tail(ready) \in Seq(Handler)
      BY HeadTailProperties DEF Next1
    <2> QED
      BY <2>1 DEF Handler
  <1>5. ASSUME QueueStep,
               currentJob' \in MaybeJob, firstJob' \in MaybeJob, clientJob' \in MaybeJob,
               dataset' \in AnySeed, generating' \in AnySeed,
               waiters' \in Seq(Handler), ready' \in Seq(Handler)
        PROVE  MinerShape' /\ QueueStep
    BY <1>5, QueueShape
  <1>6. UNCHANGED workerVars => QueueStep
    BY DEF QueueStep, workerVars
  <1>7. \A j \in MaybeJob : StartJob(j) \/ PauseWorkers => QueueStep
    BY PostsMessage DEF QueueStep
  <1>8. NewWorkers => QueueStep
    BY DEF NewWorkers, QueueStep
  <1>9. ASSUME NEW j \in MaybeJob, (j \in MinerJobs /\ MinerGetsJob(j)) \/ LogsIn(j)
        PROVE  MinerShape' /\ QueueStep
    <2>1. [job |-> j, at |-> "wait"] \in Handler /\ [job |-> j, at |-> "gen"] \in Handler
      BY DEF Handler
    <2>2. CASE j \in MinerJobs /\ JobEvent(j)
      BY <1>1, <1>2, <1>3, <1>5, <1>6, <1>7, <1>9, <2>1, <2>2, JobEventCases, JobStepFrame
    <2>3. CASE UNCHANGED <<clientJob, firstJob, currentJob, generating, waiters, workerVars, due>>
      BY <1>3, <1>5, <1>6, <1>9, <2>3, JobStepFrame
    <2> QED
      BY <1>9, <2>2, <2>3, JobStepFrame
  <1>10. CASE Disconnected
    BY <1>0, <1>5, <1>7, <1>10 DEF Disconnected, callVars, datasetVars
  <1>11. CASE Start
    BY <1>0, <1>5, <1>6, <1>8, <1>11 DEF Start, datasetVars, clientVars
  <1>12. CASE ConnectFails
    BY <1>5, <1>6, <1>12 DEF ConnectFails, datasetVars, clientVars
  <1>13. CASE Spawned
    BY <1>0, <1>5, <1>6, <1>7, <1>13 DEF Spawned, datasetVars, clientVars
  <1>14. CASE PoolConnected
    <2>1. generating' \in AnySeed /\ waiters' \in Seq(Handler)
      <3>1. \A a \in {"startGen", "startInner"} : [job |-> firstJob, at |-> a] \in Handler
        BY DEF Handler
      <3> QED
        BY <1>1, <1>2, <1>14, <3>1 DEF PoolConnected, Generate
    <2>2. QueueStep
      BY <1>6, <1>8, <1>14 DEF PoolConnected
    <2> QED
      BY <1>4, <1>5, <1>14, <2>1, <2>2 DEF PoolConnected, clientVars
  <1>15. CASE Generated
    BY <1>3, <1>5, <1>6, <1>15 DEF Generated, callVars, clientVars
  <1>16. CASE Returns
    <2>1. ready' \in Seq(Handler)
      <3>1. \A a \in {"generated", "start"} : [job |-> Next1.job, at |-> a] \in Handler
        BY <1>4, <1>16 DEF Returns, Handler
      <3> QED
        BY <1>2, <1>4, <1>16, <3>1 DEF Returns
    <2>2. generating' \in AnySeed
      BY <1>0, <1>16 DEF Returns
    <2> QED
      BY <1>5, <1>6, <1>16, <2>1, <2>2 DEF Returns, callVars, clientVars
  <1>17. CASE WaitedForDataset
    <2>1. \A a \in {"gen", "inner"} : [job |-> Next1.job, at |-> a] \in Handler
      BY <1>4, <1>17 DEF WaitedForDataset, Handler
    <2>2. Next1.job \in MaybeJob /\ GoOn(Next1.job)
      BY <1>4, <1>17 DEF WaitedForDataset
    <2>3. generating' \in AnySeed /\ waiters' \in Seq(Handler) /\ QueueStep
      BY <1>1, <1>2, <1>6, <1>7, <2>1, <2>2, GoOnCases
    <2> QED
      BY <1>4, <1>5, <1>17, <2>3 DEF WaitedForDataset, callVars, clientVars
  <1>18. CASE DatasetReturned
    BY <1>4, <1>5, <1>6, <1>7, <1>18 DEF DatasetReturned, callVars, clientVars
  <1>19. CASE StartHasDataset
    BY <1>4, <1>5, <1>8, <1>19 DEF StartHasDataset, clientVars
  <1>20. CASE StopCall
    BY <1>0, <1>5, <1>7, <1>20 DEF StopCall, datasetVars, clientVars
  <1>21. CASE Stopped
    <2>1. QueueStep
      BY <1>21 DEF Stopped, QueueStep
    <2> QED
      BY <1>5, <1>21, <2>1 DEF Stopped, datasetVars
  <1>22. CASE Pause
    BY <1>0, <1>5, <1>7, <1>22 DEF Pause, datasetVars, clientVars
  <1>23. CASE Resume
    BY <1>5, <1>6, <1>7, <1>23 DEF Resume, datasetVars, clientVars
  <1>24. ASSUME NEW w \in Workers,
                WorkerReceives(w) \/ WorkerLoaded(w) \/ WorkerFinds(w) \/ ShareArrives(w)
         PROVE  MinerShape' /\ QueueStep
    <2>1. QueueStep
      BY <1>24 DEF QueueStep, WorkerFinds, ShareArrives
    <2>2. UNCHANGED <<callVars, currentJob, datasetVars, clientVars>>
      BY <1>24 DEF WorkerReceives, WorkerLoaded, WorkerFinds, ShareArrives
    <2> QED
      BY <1>5, <2>1, <2>2 DEF callVars, datasetVars, clientVars
  <1> QED
    BY <1>0, <1>9, <1>10, <1>11, <1>12, <1>13, <1>14, <1>15, <1>16, <1>17, <1>18, <1>19,
       <1>20, <1>21, <1>22, <1>23, <1>24 DEF MinerNext

-----------------------------------------------------------------------------
\* A message that is posted is what a worker does last.
LEMMA PostedLast ==
    ASSUME MinerShape, NEW m \in Message, queue' = Posted(m), UNCHANGED worker,
           NEW w \in Workers
    PROVE  /\ up => WillMine(w)' = m.job /\ (WillRest(w)' <=> m = Stop)
           /\ ~up => WillMine(w)' = WillMine(w) /\ WillRest(w)' = WillRest(w)
  <1>1. queue[w] \in Seq(Message) /\ queue'[w] = IF up THEN Append(queue[w], m) ELSE queue[w]
    BY DEF MinerShape, Posted
  <1>2. /\ Append(queue[w], m) # <<>>
        /\ Append(queue[w], m)[Len(Append(queue[w], m))] = m
    <2>1. /\ Len(Append(queue[w], m)) = Len(queue[w]) + 1 /\ Len(queue[w]) \in Nat
          /\ Append(queue[w], m)[Len(queue[w]) + 1] = m
      BY <1>1, AppendProperties
    <2> QED
      BY <2>1
  <1>3. CASE up
    BY <1>1, <1>2, <1>3 DEF WillMine, WillRest
  <1>4. CASE ~up
    BY <1>1, <1>4 DEF WillMine, WillRest
  <1> QED
    BY <1>3, <1>4

\* New workers rest.
LEMMA IdleRests ==
    ASSUME queue' = [w \in Workers |-> <<>>], worker' = [w \in Workers |-> IdleWorker]
    PROVE  \A w \in Workers : WillRest(w)' /\ worker'[w].loading = {}
  BY DEF WillRest, IdleWorker

\* Light mode: handling a message changes nothing of what a worker does last.
LEMMA LightReceives ==
    ASSUME MinerShape, ~Full, NEW w \in Workers, WorkerReceives(w), NEW v \in Workers
    PROVE  /\ WillMine(v)' = WillMine(v) /\ (WillRest(v) => WillRest(v)')
           /\ worker'[v].loading = worker[v].loading
  <1> DEFINE q == queue[w]
             me == worker[w]
             msg == Head(q)
             new == IF msg = Stop THEN [me EXCEPT !.hashing = FALSE, !.job = NoMinerJob]
                    ELSE TakesJob(me, msg)
  <1>1. /\ q \in Seq(Message) /\ me \in WorkerState
        /\ q # <<>> /\ queue' = [queue EXCEPT ![w] = Tail(q)]
        /\ worker' = [worker EXCEPT ![w] = new]
    BY DEF WorkerReceives, MinerShape
  <1>2. queue'[w] = Tail(q) /\ worker'[w] = new
    BY <1>1 DEF MinerShape
  <1>3. /\ new.loading = me.loading
        /\ new.job = msg.job
        /\ msg = Stop => ~new.hashing
    <2>1. CASE msg = Stop
      BY <1>1, <2>1 DEF Stop, WorkerState
    <2>2. CASE msg # Stop
      BY <1>1, <2>2 DEF TakesJob, Hashes, Filled, WorkerState
    <2> QED
      BY <2>1, <2>2
  <1>4. CASE v # w
    <2>1. queue'[v] = queue[v] /\ worker'[v] = worker[v]
      BY <1>1, <1>4
    <2> QED
      BY <2>1 DEF WillMine, WillRest
  <1>5. CASE v = w /\ Len(q) = 1
    <2>1. Tail(q) = <<>> /\ q[Len(q)] = msg
      <3>1. Len(Tail(q)) = 0 /\ Tail(q) \in Seq(Message) /\ msg = q[1]
        BY <1>1, <1>5, HeadTailProperties
      <3> QED
        BY <1>5, <3>1, EmptySeq
    <2> HIDE DEF new, msg, me
    <2> QED
      BY <1>1, <1>2, <1>3, <1>5, <2>1 DEF WillMine, WillRest, me
  <1>6. CASE v = w /\ Len(q) # 1
    <2>0. Len(q) \in Nat /\ Len(q) # 0
      BY <1>1, EmptySeq
    <2>1. Len(Tail(q)) = Len(q) - 1 /\ \A n \in 1 .. Len(Tail(q)) : Tail(q)[n] = q[n + 1]
      BY <1>1, HeadTailProperties
    <2>2. Tail(q) # <<>> /\ Tail(q)[Len(Tail(q))] = q[Len(q)]
      <3> DEFINE k == Len(q) - 1
      <3> HIDE DEF q
      <3>1. k \in Nat /\ k >= 1 /\ k + 1 = Len(q) /\ Len(Tail(q)) = k
        BY <1>6, <2>0, <2>1
      <3>2. Tail(q)[k] = q[k + 1]
        <4>1. k \in 1 .. Len(Tail(q))
          BY <3>1
        <4> QED
          BY <2>1, <4>1
      <3>3. Tail(q) # <<>>
        <4>1. Len(<<>>) = 0 /\ Len(Tail(q)) # 0
          BY <3>1
        <4> QED
          BY <4>1, Zenon
      <3> QED
        BY <3>1, <3>2, <3>3
    <2> HIDE DEF new, msg, me
    <2> QED
      BY <1>1, <1>2, <1>3, <1>6, <2>2 DEF WillMine, WillRest, me
  <1> QED
    BY <1>4, <1>5, <1>6

\* Light mode: every step of the miner.
LEMMA LightStep ==
    ASSUME MinerAssumption, PoolMinerInv, ~Full, MinerNext
    PROVE  LightInv'
  <1>1. MinerShape /\ LightInv
    BY DEF PoolMinerInv
  <1>2. NoMinerJob \in MaybeJob /\ MinerJobs \subseteq MaybeJob /\ Stop \in Message
        /\ Stop.job = NoMinerJob
    BY <1>1, MadeShape DEF MaybeJob, Stop
  <1>3. \A j \in MaybeJob : JobMessage(j) \in Message /\ JobMessage(j).job = j
    BY <1>1, MadeShape DEF JobMessage
  <1> DEFINE Quiet ==
        /\ generating' = NoSeed /\ waiters' = <<>>
        /\ ready' = <<>> \/ (ready' = ConnectedOnly /\ starting' = "connect")
        /\ starting' \in {"no", "spawn", "connect"}
        /\ stopping' => ~mining' /\ starting' = "no"
        /\ mining' \/ starting' # "no" => up'
        /\ currentJob' = clientJob'
      Mined ==
        /\ due' # NoMinerJob => mining' /\ ~paused' /\ \A w \in Workers : WillMine(w)' = due'
        /\ paused' \/ ~up' => \A w \in Workers : WillRest(w)'
        /\ \A w \in Workers : worker'[w].loading = {}
  <1>4. ASSUME Quiet, Mined PROVE LightInv'
    BY <1>4 DEF LightInv, ConnectedOnly
  <1>5. ASSUME UNCHANGED <<up, queue, worker>>, mining => mining',
               due' = NoMinerJob \/ (due' = due /\ paused' = paused), paused' => paused
        PROVE  Mined
    BY <1>1, <1>5 DEF LightInv, WillMine, WillRest
  <1>6. ASSUME PauseWorkers, due' = NoMinerJob
        PROVE  Mined
    <2>1. queue' = Posted(Stop) /\ UNCHANGED <<up, worker>>
      BY <1>6 DEF PauseWorkers
    <2>2. \A w \in Workers : WillRest(w)'
      BY <1>1, <1>2, <2>1, PostedLast DEF LightInv
    <2> QED
      BY <1>1, <1>6, <2>1, <2>2 DEF LightInv
  <1>7. ASSUME NEW j \in MaybeJob, StartJob(j), UNCHANGED mining, ~paused',
               due' = IF mining THEN j ELSE NoMinerJob
        PROVE  Mined
    <2>1. queue' = Posted(JobMessage(j)) /\ UNCHANGED <<up, worker>>
      BY <1>7 DEF StartJob
    <2>2. mining => up
      BY <1>1 DEF LightInv
    <2>3. ASSUME NEW w \in Workers
          PROVE  /\ up => WillMine(w)' = j
                 /\ ~up => WillRest(w)'
      BY <1>1, <1>3, <2>1, PostedLast DEF LightInv
    <2>4. \A w \in Workers : worker'[w].loading = {}
      BY <1>1, <2>1 DEF LightInv
    <2> QED
      BY <1>7, <2>1, <2>2, <2>3, <2>4
  <1>8. ASSUME NewWorkers, due' = NoMinerJob
        PROVE  Mined
    BY <1>8, IdleRests DEF NewWorkers
  <1>9. ready # <<>> => /\ starting = "connect" /\ Next1.at = "connected"
                        /\ Tail(ready) = <<>>
    <2>1. \A h : Head(<<h>>) = h /\ Tail(<<h>>) = <<>>
      OBVIOUS
    <2>2. Head(ConnectedOnly).at = "connected" /\ Tail(ConnectedOnly) = <<>>
      BY <2>1 DEF ConnectedOnly
    <2> QED
      BY <1>1, <2>2 DEF LightInv, Next1
  <1>10. ASSUME NEW j \in MaybeJob, (j \in MinerJobs /\ MinerGetsJob(j)) \/ LogsIn(j)
         PROVE  LightInv'
    <2>1. /\ Turn /\ ready' \in {ready, ConnectedOnly}
          /\ ready' # ready => starting \in {"connect", "firstJob"}
          /\ UNCHANGED <<mode, starting, stopping, mining, paused, dataset, blind>>
      BY <1>10, JobStepFrame
    <2>2. CASE j \in MinerJobs /\ JobEvent(j)
      <3>1. /\ clientJob' = j /\ currentJob' = j
            /\ due' = IF mining /\ ~paused THEN j ELSE NoMinerJob
            /\ UNCHANGED <<generating, waiters>>
            /\ \/ UNCHANGED workerVars /\ (~mining \/ paused)
               \/ StartJob(j) /\ mining /\ ~paused
        BY <2>2, JobEventCases
      <3>2. UNCHANGED up
        BY <3>1 DEF workerVars, StartJob
      <3>3. Quiet
        BY <1>1, <2>1, <3>1, <3>2 DEF LightInv, Turn
      <3>4. Mined
        BY <1>5, <1>7, <2>1, <3>1 DEF workerVars
      <3> QED
        BY <1>4, <3>3, <3>4
    <2>3. CASE UNCHANGED <<clientJob, firstJob, currentJob, generating, waiters, workerVars, due>>
      <3>1. Quiet
        BY <1>1, <2>1, <2>3 DEF LightInv, Turn, workerVars
      <3>2. Mined
        BY <1>5, <2>1, <2>3 DEF workerVars
      <3> QED
        BY <1>4, <3>1, <3>2
    <2> QED
      BY <1>10, <2>2, <2>3, JobStepFrame
  <1>11. CASE Disconnected
    <2>1. Quiet
      BY <1>1, <1>11 DEF LightInv, Disconnected, PauseWorkers, callVars, datasetVars
    <2> QED
      BY <1>4, <1>6, <1>11, <2>1 DEF Disconnected
  <1>12. CASE Start
    <2>1. Quiet
      BY <1>1, <1>12 DEF LightInv, Start, NewWorkers, Turn, datasetVars, clientVars
    <2>2. Mined
      BY <1>1, <1>8, <1>12 DEF LightInv, Start
    <2> QED
      BY <1>4, <2>1, <2>2
  <1>13. CASE ConnectFails \/ Spawned
    <2>1. Quiet
      BY <1>1, <1>13 DEF LightInv, ConnectFails, Spawned, Turn, workerVars, datasetVars,
                         clientVars
    <2>2. Mined
      BY <1>5, <1>13 DEF ConnectFails, Spawned, workerVars
    <2> QED
      BY <1>4, <2>1, <2>2
  <1>14. CASE PoolConnected
    <2>1. /\ starting' = "no" /\ mining' = TRUE /\ ready' = <<>>
          /\ UNCHANGED <<generating, waiters, workerVars, stopping, paused, currentJob,
                         clientJob, due>>
      BY <1>9, <1>14 DEF PoolConnected, clientVars
    <2>2. Quiet
      BY <1>1, <1>9, <1>14, <2>1 DEF LightInv, PoolConnected, workerVars
    <2>3. Mined
      BY <1>5, <2>1 DEF workerVars
    <2> QED
      BY <1>4, <2>2, <2>3
  <1>15. ~Generated /\ ~Returns /\ ~WaitedForDataset /\ ~DatasetReturned /\ ~StartHasDataset
    BY <1>1, <1>9 DEF LightInv, Generated, Returns, WaitedForDataset, DatasetReturned,
                      StartHasDataset
  <1>16. CASE StopCall
    <2>1. Quiet
      BY <1>1, <1>16 DEF LightInv, StopCall, PauseWorkers, Turn, datasetVars, clientVars
    <2> QED
      BY <1>4, <1>6, <1>16, <2>1 DEF StopCall
  <1>17. CASE Stopped
    <2>1. Quiet
      BY <1>1, <1>17 DEF LightInv, Stopped, Turn, datasetVars
    <2>2. Mined
      BY <1>1, <1>17, IdleRests DEF LightInv, Stopped
    <2> QED
      BY <1>4, <2>1, <2>2
  <1>18. CASE Pause
    <2>1. Quiet
      BY <1>1, <1>18 DEF LightInv, Pause, PauseWorkers, datasetVars, clientVars
    <2> QED
      BY <1>4, <1>6, <1>18, <2>1 DEF Pause
  <1>19. CASE Resume
    <2>1. Quiet
      BY <1>1, <1>19 DEF LightInv, Resume, StartJob, workerVars, datasetVars, clientVars
    <2>2. Mined
      <3>1. currentJob = clientJob /\ currentJob \in MaybeJob
        BY <1>1 DEF LightInv, MinerShape
      <3>2. CASE currentJob = NoMinerJob
        BY <1>5, <1>19, <3>1, <3>2 DEF Resume, workerVars
      <3>3. CASE currentJob # NoMinerJob
        BY <1>7, <1>19, <3>1, <3>3 DEF Resume
      <3> QED
        BY <3>2, <3>3
    <2> QED
      BY <1>4, <2>1, <2>2
  <1>20. ASSUME NEW w \in Workers,
                WorkerReceives(w) \/ WorkerLoaded(w) \/ WorkerFinds(w) \/ ShareArrives(w)
         PROVE  LightInv'
    <2>1. UNCHANGED <<callVars, currentJob, datasetVars, clientVars, up, due>>
      BY <1>20 DEF WorkerReceives, WorkerLoaded, WorkerFinds, ShareArrives
    <2>2. Quiet
      BY <1>1, <2>1 DEF LightInv, callVars, datasetVars, clientVars
    <2>3. CASE UNCHANGED <<queue, worker>>
      BY <1>4, <1>5, <2>1, <2>2, <2>3 DEF callVars
    <2>4. CASE WorkerReceives(w)
      <3>1. \A v \in Workers : /\ WillMine(v)' = WillMine(v) /\ (WillRest(v) => WillRest(v)')
                               /\ worker'[v].loading = worker[v].loading
        BY <1>1, <2>4, LightReceives
      <3>2. Mined
        BY <1>1, <2>1, <3>1 DEF LightInv, callVars
      <3> QED
        BY <1>4, <2>2, <3>2
    <2>5. ~WorkerLoaded(w)
      BY <1>1 DEF LightInv, WorkerLoaded
    <2> QED
      BY <1>20, <2>3, <2>4, <2>5 DEF WorkerFinds, ShareArrives
  <1> QED
    BY <1>2, <1>10, <1>11, <1>12, <1>13, <1>14, <1>15, <1>16, <1>17, <1>18, <1>19, <1>20
    DEF MinerNext

-----------------------------------------------------------------------------
\* A worker that takes a job with the dataset of its seed, or fills its cache,
\* hashes it with that.
LEMMA TakesRight ==
    ASSUME NEW me \in WorkerState, NEW msg \in Message, msg # Stop,
           RightWorker(me), RightMessage(msg)
    PROVE  RightWorker(TakesJob(me, msg))
  <1> DEFINE seed == SeedOf[msg.job]
  <1>1. CASE ~Full
    <2>1. TakesJob(me, msg) \in {Hashes(me, msg.job), Hashes(Filled(me, seed, seed), msg.job)}
          /\ (TakesJob(me, msg) = Hashes(me, msg.job) =>
                 me.label = seed \/ TakesJob(me, msg) = Hashes(Filled(me, seed, seed), msg.job))
      BY <1>1 DEF TakesJob
    <2>2. RightWorker(Hashes(Filled(me, seed, seed), msg.job))
      BY DEF Hashes, Filled, RightWorker, WorkerState
    <2>3. me.label = seed => RightWorker(Hashes(me, msg.job))
      BY DEF Hashes, RightWorker, WorkerState
    <2> QED
      BY <2>1, <2>2, <2>3
  <1>2. CASE Full
    <2>0. msg.data = seed /\ msg.data # NoSeed
      BY <1>2 DEF RightMessage
    <2>1. CASE me.label = seed /\ me.loaded
      <3>1. TakesJob(me, msg) = Hashes(me, msg.job)
        BY <1>2, <2>0, <2>1 DEF TakesJob
      <3> QED
        BY <2>1, <3>1 DEF Hashes, RightWorker, WorkerState
    <2>2. CASE me.label = seed /\ ~me.loaded
      <3>1. TakesJob(me, msg) = me
        BY <1>2, <2>0, <2>2 DEF TakesJob
      <3> QED
        BY <3>1
    <2>3. CASE me.label # seed /\ me.loaded
      <3>1. TakesJob(me, msg) = Hashes(Filled(me, seed, msg.data), msg.job)
        BY <1>2, <2>0, <2>3 DEF TakesJob
      <3> QED
        BY <2>0, <3>1 DEF Hashes, Filled, RightWorker, WorkerState
    <2>4. CASE me.label # seed /\ ~me.loaded
      <3>1. TakesJob(me, msg) = [me EXCEPT !.loading = me.loading \union {msg}]
        BY <1>2, <2>0, <2>4 DEF TakesJob
      <3> DEFINE new == [me EXCEPT !.loading = me.loading \union {msg}]
      <3>2. /\ new.loading = me.loading \union {msg} /\ new.label = me.label
            /\ new.data = me.data /\ new.job = me.job /\ new.hashing = me.hashing
        BY DEF WorkerState
      <3> HIDE DEF new
      <3>3. RightWorker(new)
        BY <2>0, <3>2 DEF RightWorker
      <3> QED
        BY <3>1, <3>3 DEF new
    <2> QED
      BY <2>1, <2>2, <2>3, <2>4
  <1> QED
    BY <1>1, <1>2

\* What a step does to queues and workers when every message it posts is right.
RightQueueStep ==
    \/ UNCHANGED <<queue, worker>>
    \/ \E m \in Message : RightMessage(m) /\ queue' = Posted(m) /\ UNCHANGED worker
    \/ /\ queue' = [w \in Workers |-> <<>>]
       /\ worker' = [w \in Workers |-> IdleWorker]
    \/ \E w \in Workers : WorkerReceives(w) \/ WorkerLoaded(w)

\* Then the workers stay right.
LEMMA WorkersStayRight ==
    ASSUME MinerShape, WorkersRight, RightQueueStep, UNCHANGED mode
    PROVE  WorkersRight'
  <1>0. \A r : RightWorker(r)' <=> RightWorker(r)
    BY DEF RightWorker, RightMessage, Full
  <1>1. \A m : RightMessage(m)' <=> RightMessage(m)
    BY DEF RightMessage, Full
  <1>2. SUFFICES ASSUME NEW w \in Workers
                 PROVE  /\ RightWorker(worker'[w])
                        /\ \A n \in 1 .. Len(queue'[w]) : RightMessage(queue'[w][n])
    BY DEF WorkersRight, RightWorker, RightMessage, Full
  <1>3. /\ queue[w] \in Seq(Message) /\ worker[w] \in WorkerState
        /\ RightWorker(worker[w])
        /\ \A n \in 1 .. Len(queue[w]) : RightMessage(queue[w][n])
    BY DEF MinerShape, WorkersRight
  <1>4. CASE UNCHANGED <<queue, worker>>
    BY <1>3, <1>4
  <1>5. ASSUME NEW m \in Message, RightMessage(m), queue' = Posted(m), UNCHANGED worker
        PROVE  \A n \in 1 .. Len(queue'[w]) : RightMessage(queue'[w][n])
    <2>1. queue'[w] = IF up THEN Append(queue[w], m) ELSE queue[w]
      BY <1>5 DEF Posted
    <2>2. \A n \in 1 .. Len(Append(queue[w], m)) : RightMessage(Append(queue[w], m)[n])
      <3>1. /\ Len(Append(queue[w], m)) = Len(queue[w]) + 1 /\ Len(queue[w]) \in Nat
            /\ \A n \in 1 .. Len(queue[w]) : Append(queue[w], m)[n] = queue[w][n]
            /\ Append(queue[w], m)[Len(queue[w]) + 1] = m
        BY <1>3, AppendProperties
      <3>2. \A n \in 1 .. Len(queue[w]) + 1 : n \in 1 .. Len(queue[w]) \/ n = Len(queue[w]) + 1
        BY <3>1
      <3> QED
        BY <1>3, <1>5, <3>1, <3>2
    <2> QED
      BY <1>3, <2>1, <2>2
  <1>6. CASE /\ queue' = [v \in Workers |-> <<>>]
             /\ worker' = [v \in Workers |-> IdleWorker]
    BY <1>6 DEF RightWorker, IdleWorker
  <1>7. ASSUME NEW v \in Workers, WorkerReceives(v), v # w
        PROVE  queue'[w] = queue[w] /\ worker'[w] = worker[w]
    BY <1>7 DEF WorkerReceives, MinerShape
  <1>8. ASSUME WorkerReceives(w)
        PROVE  /\ RightWorker(worker'[w])
               /\ \A n \in 1 .. Len(queue'[w]) : RightMessage(queue'[w][n])
    <2> DEFINE msg == Head(queue[w])
               rest == [worker[w] EXCEPT !.hashing = FALSE, !.job = NoMinerJob]
    <2>1. /\ queue[w] # <<>> /\ queue'[w] = Tail(queue[w])
          /\ worker'[w] = IF msg = Stop THEN rest ELSE TakesJob(worker[w], msg)
      BY <1>8 DEF WorkerReceives, MinerShape
    <2>2. /\ msg \in Message /\ msg = queue[w][1]
          /\ Len(Tail(queue[w])) = Len(queue[w]) - 1
          /\ \A n \in 1 .. Len(Tail(queue[w])) : Tail(queue[w])[n] = queue[w][n + 1]
      BY <1>3, <2>1, HeadTailProperties
    <2>3. Len(queue[w]) \in Nat /\ 1 \in 1 .. Len(queue[w])
      BY <1>3, <2>1, EmptySeq
    <2>4. RightMessage(msg)
      BY <1>3, <2>2, <2>3
    <2>5. \A n \in 1 .. Len(Tail(queue[w])) : n + 1 \in 1 .. Len(queue[w])
      BY <2>2, <2>3
    <2>6. RightWorker(rest)
      BY <1>3 DEF RightWorker, WorkerState
    <2>7. msg # Stop => RightWorker(TakesJob(worker[w], msg))
      BY <1>3, <2>2, <2>4, TakesRight
    <2> HIDE DEF msg, rest
    <2> QED
      BY <1>3, <2>1, <2>2, <2>5, <2>6, <2>7
  <1>9. ASSUME NEW v \in Workers, WorkerLoaded(v)
        PROVE  queue'[w] = queue[w] /\ RightWorker(worker'[w])
    <2>1. queue' = queue
      BY <1>9 DEF WorkerLoaded
    <2>2. PICK msg \in worker[v].loading : worker' = [worker EXCEPT ![v] = Loads(worker[v], msg)]
      BY <1>9 DEF WorkerLoaded
    <2>3. CASE v # w
      BY <1>3, <2>1, <2>2, <2>3 DEF MinerShape
    <2>4. CASE v = w
      <3>1. worker'[w] = Loads(worker[w], msg) /\ msg \in worker[w].loading
        BY <2>2, <2>4 DEF MinerShape
      <3>2. msg.data = SeedOf[msg.job]
        BY <1>3, <3>1 DEF RightWorker
      <3> DEFINE me == worker[w]
                 new == Loads(me, msg)
      <3>3. /\ new.label = SeedOf[msg.job] /\ new.data = msg.data /\ new.job = msg.job
            /\ new.loading = me.loading \ {msg}
        BY <1>3 DEF Loads, Hashes, Filled, WorkerState
      <3> QED
        BY <1>3, <2>1, <3>1, <3>2, <3>3 DEF RightWorker
    <2> QED
      BY <2>3, <2>4
  <1> QED
    BY <1>3, <1>4, <1>5, <1>6, <1>7, <1>8, <1>9 DEF RightQueueStep

-----------------------------------------------------------------------------
\* The list of those that wait, with one more, and the list of those that go
\* on, without the first.
LEMMA OneMoreHandler ==
    ASSUME NEW q \in Seq(Handler), NEW h
    PROVE  /\ Len(Append(q, h)) = Len(q) + 1 /\ Len(q) \in Nat
           /\ \A n \in 1 .. Len(Append(q, h)) :
                 \/ n \in 1 .. Len(q) /\ Append(q, h)[n] = q[n]
                 \/ n = Len(q) + 1 /\ Append(q, h)[n] = h
  BY AppendProperties

\* A list of handlers without its first one.
LEMMA OneHandlerLess ==
    ASSUME NEW q \in Seq(Handler), q # <<>>
    PROVE  /\ Head(q) = q[1] /\ Tail(q) \in Seq(Handler) /\ 1 \in 1 .. Len(q)
           /\ \A n \in 1 .. Len(Tail(q)) :
                 n + 1 \in 2 .. Len(q) /\ n + 1 \in 1 .. Len(q) /\ Tail(q)[n] = q[n + 1]
  <1>1. /\ Head(q) = q[1] /\ Tail(q) \in Seq(Handler) /\ Len(Tail(q)) = Len(q) - 1
        /\ \A n \in 1 .. Len(Tail(q)) : Tail(q)[n] = q[n + 1]
    BY HeadTailProperties
  <1>2. Len(q) \in Nat /\ Len(q) # 0
    BY EmptySeq
  <1> QED
    BY <1>1, <1>2

\* No step changes the mode or forgets that a job was sent blindly.
LEMMA MinerFrame ==
    ASSUME MinerNext
    PROVE  mode' = mode /\ (blind => blind')
  <1>1. ASSUME NEW j \in MaybeJob, (j \in MinerJobs /\ MinerGetsJob(j)) \/ LogsIn(j)
        PROVE  UNCHANGED <<mode, blind>>
    BY <1>1, JobStepFrame
  <1>2. MinerJobs \subseteq MaybeJob
    BY DEF MaybeJob
  <1>3. CASE Spawned \/ WaitedForDataset \/ Resume
    <2>1. blind => blind'
      BY <1>3, Zenon DEF Spawned, WaitedForDataset, Resume
    <2>2. mode' = mode
      BY <1>3 DEF Spawned, WaitedForDataset, Resume, callVars
    <2> QED
      BY <2>1, <2>2
  <1>4. CASE \/ Disconnected \/ Start \/ ConnectFails \/ PoolConnected \/ Generated
             \/ Returns \/ DatasetReturned \/ StartHasDataset \/ StopCall \/ Stopped
             \/ Pause
    BY <1>4 DEF Disconnected, Start, ConnectFails, PoolConnected, Generated, Returns,
       DatasetReturned, StartHasDataset, StopCall, Stopped, Pause, callVars
  <1>5. ASSUME NEW w \in Workers,
               WorkerReceives(w) \/ WorkerLoaded(w) \/ WorkerFinds(w) \/ ShareArrives(w)
        PROVE  UNCHANGED <<mode, blind>>
    BY <1>5 DEF WorkerReceives, WorkerLoaded, WorkerFinds, ShareArrives, callVars
  <1> QED
    BY <1>1, <1>2, <1>3, <1>4, <1>5 DEF MinerNext

\* A started job is sent with the dataset there is, a pause with none.
LEMMA RightPosts ==
    ASSUME MinerShape
    PROVE  /\ UNCHANGED workerVars => RightQueueStep
           /\ NewWorkers => RightQueueStep
           /\ PauseWorkers => RightQueueStep
           /\ \A j \in MaybeJob :
                 StartJob(j) /\ (Full => SeedOf[j] = dataset /\ dataset # NoSeed)
                     => RightQueueStep
  <1>1. UNCHANGED workerVars => RightQueueStep
    BY DEF workerVars, RightQueueStep
  <1>2. NewWorkers => RightQueueStep
    BY DEF NewWorkers, RightQueueStep
  <1>3. PauseWorkers => RightQueueStep
    BY MadeShape DEF PauseWorkers, RightQueueStep, RightMessage
  <1>4. ASSUME NEW j \in MaybeJob, StartJob(j), Full => SeedOf[j] = dataset /\ dataset # NoSeed
        PROVE  RightQueueStep
    <2>1. JobMessage(j) \in Message
      BY MadeShape
    <2>2. RightMessage(JobMessage(j))
      BY <1>4 DEF RightMessage, JobMessage
    <2> QED
      BY <1>4, <2>1, <2>2 DEF StartJob, RightQueueStep
  <1> QED
    BY <1>1, <1>2, <1>3, <1>4

\* A list of handlers in which only the first may have begun the generation,
\* none waits for the pool and who waits does so with a job of the pool.
LEMMA WaitersGrow ==
    ASSUME MinerShape, HandlerInv, NEW h,
           waiters' = Append(waiters, h), h.at # "connected",
           h.at = "wait" => h.job \in MinerJobs,
           h.at \in Begins => generating = NoSeed
    PROVE  /\ \A n \in 2 .. Len(waiters') : waiters'[n].at \notin Begins
           /\ \A n \in 1 .. Len(waiters') :
                 /\ waiters'[n].at # "connected"
                 /\ waiters'[n].at = "wait" => waiters'[n].job \in MinerJobs
  <1>1. /\ Len(waiters') = Len(waiters) + 1 /\ Len(waiters) \in Nat
        /\ \A n \in 1 .. Len(waiters') :
              \/ n \in 1 .. Len(waiters) /\ waiters'[n] = waiters[n]
              \/ n = Len(waiters) + 1 /\ waiters'[n] = h
    BY OneMoreHandler DEF MinerShape
  <1>2. \A n \in 1 .. Len(waiters') :
                 /\ waiters'[n].at # "connected"
                 /\ waiters'[n].at = "wait" => waiters'[n].job \in MinerJobs
    BY <1>1 DEF HandlerInv
  <1>3. ASSUME NEW n \in 2 .. Len(waiters') PROVE waiters'[n].at \notin Begins
    <2>1. n \in 1 .. Len(waiters')
      BY <1>1
    <2>2. CASE n \in 1 .. Len(waiters) /\ waiters'[n] = waiters[n]
      <3>1. n \in 2 .. Len(waiters)
        BY <1>1, <2>2
      <3> QED
        BY <2>2, <3>1 DEF HandlerInv
    <2>3. CASE n = Len(waiters) + 1 /\ waiters'[n] = h
      <3>1. waiters # <<>>
        BY <1>1, <2>3
      <3> QED
        BY <2>3, <3>1 DEF HandlerInv
    <2> QED
      BY <1>1, <2>1, <2>2, <2>3
  <1> QED
    BY <1>2, <1>3

\* What is left when the first handler goes on.
LEMMA ReadyShrinks ==
    ASSUME MinerShape, HandlerInv, ready # <<>>
    PROVE  /\ ready[1] = Next1 /\ Next1.job \in MaybeJob
           /\ Tail(ready) \in Seq(Handler)
           /\ \A n \in 1 .. Len(Tail(ready)) :
                 /\ Tail(ready)[n].at \notin Begins /\ Tail(ready)[n].at # "connected"
                 /\ Tail(ready)[n].at = "wait" => Tail(ready)[n].job \in MinerJobs
                 /\ HandlersRight /\ Tail(ready)[n].at \in Mines =>
                        SeedOf[Tail(ready)[n].job] = dataset
           /\ Next1.at = "connected" => Tail(ready) = <<>>
           /\ Next1.at # "connected" => dataset # NoSeed
           /\ Next1.at = "wait" => Next1.job \in MinerJobs
           /\ Next1.at \in Begins => waiters = <<>> /\ generating = dataset
           /\ HandlersRight /\ Next1.at \in Mines => SeedOf[Next1.job] = dataset
  <1>1. /\ Head(ready) = ready[1] /\ Tail(ready) \in Seq(Handler) /\ 1 \in 1 .. Len(ready)
        /\ \A n \in 1 .. Len(Tail(ready)) :
              /\ n + 1 \in 2 .. Len(ready) /\ n + 1 \in 1 .. Len(ready)
              /\ Tail(ready)[n] = ready[n + 1]
    BY OneHandlerLess DEF MinerShape
  <1>2. ready[1] = Next1 /\ ready[1] \in Handler
    BY <1>1, ElementOfSeq DEF Next1, MinerShape
  <1>3. ASSUME NEW n \in 1 .. Len(Tail(ready))
        PROVE  /\ Tail(ready)[n].at \notin Begins /\ Tail(ready)[n].at # "connected"
               /\ Tail(ready)[n].at = "wait" => Tail(ready)[n].job \in MinerJobs
               /\ HandlersRight /\ Tail(ready)[n].at \in Mines =>
                      SeedOf[Tail(ready)[n].job] = dataset
    <2>0. Len(ready) \in Nat /\ n + 1 \in 2 .. Len(ready) /\ n + 1 \in 1 .. Len(ready)
          /\ Tail(ready)[n] = ready[n + 1]
      BY <1>1 DEF MinerShape
    <2>1. /\ n + 1 \in 2 .. Len(ready) /\ n + 1 \in 1 .. Len(ready)
          /\ Tail(ready)[n] = ready[n + 1] /\ Len(ready) # 1
      <3>1. \A m, l : m \in 2 .. l => l # 1
        OBVIOUS
      <3> QED
        BY <2>0, <3>1
    <2> QED
      BY <2>1 DEF HandlerInv, HandlersRight
  <1>4. Next1.at = "connected" => Tail(ready) = <<>>
    <2> SUFFICES ASSUME Next1.at = "connected" PROVE Tail(ready) = <<>>
      OBVIOUS
    <2>1. Len(ready) = 1
      BY <1>1, <1>2 DEF HandlerInv
    <2>2. Len(Tail(ready)) = 0
      BY <2>1, HeadTailProperties DEF MinerShape
    <2> QED
      BY <1>1, <2>2, EmptySeq
  <1> QED
    BY <1>1, <1>2, <1>3, <1>4 DEF HandlerInv, HandlersRight, Handler

\* Full mode: a job of the pool, alone or with the login.
LEMMA FullJobStep ==
    ASSUME MinerAssumption, MinerShape, Full, HandlerInv,
           NEW j \in MaybeJob, (j \in MinerJobs /\ MinerGetsJob(j)) \/ LogsIn(j)
    PROVE  HandlerInv' /\ (HandlersRight => RightQueueStep /\ HandlersRight')
  <1>1. /\ Turn /\ ready' \in {ready, ConnectedOnly}
        /\ UNCHANGED <<mode, starting, stopping, mining, paused, dataset, blind>>
    BY JobStepFrame
  <1>2. ready' = <<>> \/ ready' = ConnectedOnly
    BY <1>1 DEF Turn
  <1>3. /\ \A n \in 1 .. Len(ready') : ready'[n].at = "connected" /\ Len(ready') = 1
        /\ ready' # <<>> => ready'[1].at = "connected"
    <2>1. /\ Len(ConnectedOnly) = 1 /\ ConnectedOnly[1].at = "connected"
          /\ \A n \in 1 .. 1 : n = 1
      BY DEF ConnectedOnly
    <2> QED
      BY <1>2, <2>1
  <1>4. ASSUME UNCHANGED <<generating, waiters>> PROVE HandlerInv' /\ (HandlersRight => HandlersRight')
    BY <1>1, <1>3, <1>4 DEF HandlerInv, HandlersRight, Begins, Mines
  <1>5. ASSUME j \in MinerJobs, NEW a \in {"wait", "gen"},
               waiters' = Append(waiters, [job |-> j, at |-> a]),
               \/ a = "wait" /\ generating # NoSeed /\ UNCHANGED generating
               \/ a = "gen" /\ generating = NoSeed /\ generating' = SeedOf[j]
        PROVE  HandlerInv' /\ (HandlersRight => HandlersRight')
    <2> DEFINE h == [job |-> j, at |-> a]
    <2>1. SeedOf[j] # NoSeed
      BY <1>5 DEF MinerAssumption, Seeds
    <2>2. /\ \A n \in 2 .. Len(waiters') : waiters'[n].at \notin Begins
          /\ \A n \in 1 .. Len(waiters') :
                /\ waiters'[n].at # "connected"
                /\ waiters'[n].at = "wait" => waiters'[n].job \in MinerJobs
      BY <1>5, WaitersGrow DEF Begins
    <2>3. HandlerInv'
      BY <1>1, <1>3, <1>5, <2>1, <2>2 DEF HandlerInv, Begins
    <2>4. ASSUME HandlersRight, NEW n \in 1 .. Len(waiters'), waiters'[n].at \in Mines
          PROVE  SeedOf[waiters'[n].job] = generating'
      <3>1. \/ n \in 1 .. Len(waiters) /\ waiters'[n] = waiters[n]
            \/ n = Len(waiters) + 1 /\ waiters'[n] = h
        BY <1>5, OneMoreHandler DEF MinerShape
      <3>2. CASE n \in 1 .. Len(waiters) /\ waiters'[n] = waiters[n]
        BY <1>5, <2>4, <3>2 DEF HandlersRight, HandlerInv
      <3>3. CASE n = Len(waiters) + 1 /\ waiters'[n] = h
        BY <1>5, <2>4, <3>3 DEF Mines
      <3> QED
        BY <3>1, <3>2, <3>3
    <2>5. HandlersRight => HandlersRight'
      BY <1>3, <2>4 DEF HandlersRight, Mines
    <2> QED
      BY <2>3, <2>5
  <1>6. CASE j \in MinerJobs /\ JobEvent(j)
    <2>1. RightQueueStep
      BY <1>6, JobEventCases, RightPosts
    <2> QED
      BY <1>4, <1>5, <1>6, <2>1, JobEventCases
  <1>7. CASE UNCHANGED <<clientJob, firstJob, currentJob, generating, waiters, workerVars, due>>
    <2>1. RightQueueStep
      BY <1>7, RightPosts
    <2> QED
      BY <1>4, <1>7, <2>1
  <1> QED
    BY <1>6, <1>7, JobStepFrame

\* Full mode: start() goes on after its connection.
LEMMA FullPoolConnected ==
    ASSUME MinerAssumption, MinerShape, Full, HandlerInv, PoolConnected
    PROVE  HandlerInv' /\ (HandlersRight => RightQueueStep /\ HandlersRight')
  <1>1. ready # <<>> /\ Next1.at = "connected" /\ ready' = Tail(ready)
    BY DEF PoolConnected
  <1>2. ready' = <<>>
    BY <1>1, ReadyShrinks
  <1>3. dataset' = dataset
    BY DEF PoolConnected
  <1>4. firstJob # NoMinerJob => firstJob \in MinerJobs /\ SeedOf[firstJob] # NoSeed
    BY DEF MinerShape, MaybeJob, MinerAssumption, Seeds
  <1>5. CASE UNCHANGED <<generating, waiters>>
    <2>1. starting' = "spawn" => dataset # NoSeed
      BY <1>4 , <1>5 DEF PoolConnected, HandlerInv, Generate
    <2>2. RightQueueStep
      BY RightPosts DEF PoolConnected
    <2> QED
      BY <1>2, <1>3, <1>5, <2>1, <2>2 DEF HandlerInv, HandlersRight
  <1>6. CASE ~UNCHANGED <<generating, waiters>>
    <2>1. /\ firstJob # NoMinerJob /\ starting' = "dataset" /\ UNCHANGED workerVars
          /\ Generate(firstJob, [own |-> "startGen", inner |-> "startInner"])
      BY <1>6 DEF PoolConnected
    <2>2. PICK a \in {"startGen", "startInner"} :
              /\ waiters' = Append(waiters, [job |-> firstJob, at |-> a])
              /\ \/ a = "startInner" /\ generating # NoSeed /\ UNCHANGED generating
                 \/ a = "startGen" /\ generating = NoSeed /\ generating' = SeedOf[firstJob]
      BY <2>1 DEF Generate
    <2>3. /\ \A n \in 2 .. Len(waiters') : waiters'[n].at \notin Begins
          /\ \A n \in 1 .. Len(waiters') :
                /\ waiters'[n].at # "connected"
                /\ waiters'[n].at = "wait" => waiters'[n].job \in MinerJobs
      BY <2>2, WaitersGrow DEF Begins
    <2>4. HandlerInv'
      BY <1>2, <1>3, <1>4, <2>1, <2>2, <2>3 DEF HandlerInv
    <2>5. ASSUME HandlersRight, NEW n \in 1 .. Len(waiters'), waiters'[n].at \in Mines
          PROVE  SeedOf[waiters'[n].job] = generating'
      <3>1. \/ n \in 1 .. Len(waiters) /\ waiters'[n] = waiters[n]
            \/ n = Len(waiters) + 1 /\ waiters'[n] = [job |-> firstJob, at |-> a]
        BY <2>2, OneMoreHandler DEF MinerShape
      <3>2. waiters'[n].at # a
        BY <2>2, <2>5 DEF Mines
      <3>3. n \in 1 .. Len(waiters) /\ waiters'[n] = waiters[n]
        BY <3>1, <3>2
      <3> QED
        BY <2>2, <2>5, <3>3 DEF HandlersRight, HandlerInv
    <2>6. HandlersRight => HandlersRight'
      BY <1>2, <2>5 DEF HandlersRight
    <2>7. RightQueueStep
      BY <2>1, RightPosts
    <2> QED
      BY <2>4, <2>6, <2>7
  <1> QED
    BY <1>5, <1>6

\* Full mode: a generation ends, and those that waited for it go on.
LEMMA FullGenerated ==
    ASSUME MinerShape, Full, HandlerInv, Generated
    PROVE  HandlerInv' /\ (HandlersRight => RightQueueStep /\ HandlersRight')
  <1>1. /\ generating # NoSeed /\ dataset' = generating /\ generating' = generating
        /\ ready' = waiters /\ waiters' = <<>> /\ UNCHANGED workerVars
        /\ UNCHANGED starting
    BY DEF Generated, callVars
  <1>2. HandlerInv'
    BY <1>1 DEF HandlerInv
  <1>3. HandlersRight => HandlersRight'
    BY <1>1 DEF HandlersRight
  <1> QED
    BY <1>1, <1>2, <1>3, RightPosts

\* Full mode: _generateDataset() returns.
LEMMA FullReturns ==
    ASSUME MinerShape, Full, HandlerInv, Returns
    PROVE  HandlerInv' /\ (HandlersRight => RightQueueStep /\ HandlersRight')
  <1> DEFINE h == [job |-> Next1.job,
                   at |-> IF Next1.at \in {"gen", "inner"} THEN "generated" ELSE "start"]
             rest == Tail(ready)
  <1>1. /\ ready # <<>> /\ Next1.at \in {"gen", "inner", "startGen", "startInner"}
        /\ ready' = Append(rest, h)
        /\ generating' = IF Next1.at \in Begins THEN NoSeed ELSE generating
        /\ UNCHANGED <<dataset, waiters, workerVars, starting>>
    BY DEF Returns, callVars, Begins
  <1>2. /\ Next1.at # "connected" /\ h.at \notin Begins /\ h.at # "connected"
        /\ h.at # "wait" /\ (h.at \in Mines => Next1.at \in Mines)
    BY <1>1 DEF Begins, Mines
  <1> HIDE DEF h, rest
  <1>3. /\ Len(ready') = Len(rest) + 1
        /\ \A n \in 1 .. Len(ready') :
              \/ n \in 1 .. Len(rest) /\ ready'[n] = rest[n]
              \/ n = Len(rest) + 1 /\ ready'[n] = h
    BY <1>1, ReadyShrinks, OneMoreHandler DEF rest
  <1>4. ASSUME NEW n \in 1 .. Len(ready')
        PROVE  /\ ready'[n].at \notin Begins /\ ready'[n].at # "connected"
               /\ ready'[n].at = "wait" => ready'[n].job \in MinerJobs
               /\ HandlersRight /\ ready'[n].at \in Mines => SeedOf[ready'[n].job] = dataset
    <2>1. CASE n \in 1 .. Len(rest) /\ ready'[n] = rest[n]
      BY <1>1, <2>1, ReadyShrinks DEF rest
    <2>2. CASE n = Len(rest) + 1 /\ ready'[n] = h
      <3>1. h.job = Next1.job
        BY DEF h
      <3> QED
        BY <1>1, <1>2, <2>2, <3>1, ReadyShrinks
    <2> QED
      BY <1>3, <2>1, <2>2
  <1>5. /\ dataset # NoSeed
        /\ Next1.at \in Begins => waiters = <<>> /\ generating = dataset
    BY <1>1, <1>2, ReadyShrinks
  <1>6. \A n \in 2 .. Len(ready') : n \in 1 .. Len(ready')
    OBVIOUS
  <1>7. ready' # <<>> /\ 1 \in 1 .. Len(ready')
    <2>1. rest \in Seq(Handler) /\ ready' # <<>>
      BY <1>1, ReadyShrinks, AppendProperties DEF rest
    <2> QED
      BY <1>3, <2>1
  <1>8. HandlerInv'
    BY <1>1, <1>4, <1>5, <1>6, <1>7 DEF HandlerInv
  <1>9. HandlersRight => HandlersRight'
    BY <1>1, <1>4, <1>5 DEF HandlersRight
  <1> QED
    BY <1>1, <1>8, <1>9, RightPosts

\* The first handler goes on and neither it nor anybody else begins to wait.
LEMMA FullGoesOn ==
    ASSUME MinerShape, HandlerInv, ready # <<>>, Next1.at # "connected",
           ready' = Tail(ready), UNCHANGED <<dataset, generating, waiters>>,
           starting' \in {starting, "spawn"}
    PROVE  HandlerInv' /\ (HandlersRight => HandlersRight')
  <1>1. ASSUME NEW n \in 1 .. Len(ready')
        PROVE  /\ ready'[n].at \notin Begins /\ ready'[n].at # "connected"
               /\ ready'[n].at = "wait" => ready'[n].job \in MinerJobs
               /\ HandlersRight /\ ready'[n].at \in Mines => SeedOf[ready'[n].job] = dataset
    BY ReadyShrinks
  <1>2. dataset # NoSeed
    BY ReadyShrinks
  <1>3. \A n \in 2 .. Len(ready') : n \in 1 .. Len(ready')
    OBVIOUS
  <1>4. ready' # <<>> => 1 \in 1 .. Len(ready')
    BY ReadyShrinks, EmptySeq
  <1>5. HandlerInv'
    BY <1>1, <1>2, <1>3, <1>4 DEF HandlerInv
  <1>6. HandlersRight => HandlersRight'
    BY <1>1 DEF HandlersRight
  <1> QED
    BY <1>5, <1>6

\* Full mode: a handler that waited for another's dataset goes on.
LEMMA FullWaited ==
    ASSUME MinerAssumption, MinerShape, Full, HandlerInv, WaitedForDataset
    PROVE  HandlerInv' /\ (HandlersRight /\ ~blind' => RightQueueStep /\ HandlersRight')
  <1> DEFINE j == Next1.job
  <1>1. /\ ready # <<>> /\ Next1.at = "wait" /\ ready' = Tail(ready) /\ GoOn(j)
        /\ blind' = (blind \/ (generating # NoSeed /\ SeedOf[j] \notin {dataset, generating}))
        /\ UNCHANGED <<dataset, starting>>
    BY DEF WaitedForDataset, callVars
  <1>2. j \in MinerJobs /\ SeedOf[j] # NoSeed /\ j \in MaybeJob
    BY <1>1, ReadyShrinks DEF MinerAssumption, Seeds
  <1> HIDE DEF j
  <1>3. CASE generating # NoSeed /\ UNCHANGED <<generating, waiters, workerVars>>
    <2>1. RightQueueStep
      BY <1>3, RightPosts
    <2> QED
      BY <1>1, <1>3, <2>1, FullGoesOn
  <1>4. CASE SeedOf[j] = dataset /\ StartJob(j) /\ UNCHANGED <<generating, waiters>>
    <2>1. RightQueueStep
      BY <1>2, <1>4, RightPosts
    <2> QED
      BY <1>1, <1>4, <2>1, FullGoesOn
  <1>5. ASSUME NEW a \in {"gen", "inner"},
               waiters' = Append(waiters, [job |-> j, at |-> a]), UNCHANGED workerVars,
               \/ /\ a = "inner" /\ generating # NoSeed /\ UNCHANGED generating
                  /\ SeedOf[j] # dataset
               \/ a = "gen" /\ generating = NoSeed /\ generating' = SeedOf[j]
        PROVE  HandlerInv' /\ (HandlersRight /\ ~blind' => RightQueueStep /\ HandlersRight')
    <2>1. /\ \A n \in 2 .. Len(waiters') : waiters'[n].at \notin Begins
          /\ \A n \in 1 .. Len(waiters') :
                /\ waiters'[n].at # "connected"
                /\ waiters'[n].at = "wait" => waiters'[n].job \in MinerJobs
      BY <1>5, WaitersGrow DEF Begins
    <2>2. ASSUME NEW n \in 1 .. Len(ready')
          PROVE  /\ ready'[n].at \notin Begins /\ ready'[n].at # "connected"
                 /\ ready'[n].at = "wait" => ready'[n].job \in MinerJobs
                 /\ HandlersRight /\ ready'[n].at \in Mines => SeedOf[ready'[n].job] = dataset
      BY <1>1, ReadyShrinks
    <2>3. /\ \A n \in 2 .. Len(ready') : n \in 1 .. Len(ready')
          /\ ready' # <<>> => 1 \in 1 .. Len(ready')
          /\ dataset # NoSeed /\ generating' # NoSeed
      BY <1>1, <1>2, <1>5, ReadyShrinks, EmptySeq
    <2>4. HandlerInv'
      BY <1>1, <2>1, <2>2, <2>3 DEF HandlerInv
    <2>5. ASSUME HandlersRight, ~blind', NEW n \in 1 .. Len(waiters'), waiters'[n].at \in Mines
          PROVE  SeedOf[waiters'[n].job] = generating'
      <3>1. \/ n \in 1 .. Len(waiters) /\ waiters'[n] = waiters[n]
            \/ n = Len(waiters) + 1 /\ waiters'[n] = [job |-> j, at |-> a]
        BY <1>5, OneMoreHandler DEF MinerShape
      <3>2. CASE n \in 1 .. Len(waiters) /\ waiters'[n] = waiters[n]
        BY <1>5, <2>5, <3>2 DEF HandlersRight, HandlerInv
      <3>3. CASE n = Len(waiters) + 1 /\ waiters'[n] = [job |-> j, at |-> a]
        <4>1. SeedOf[j] = generating'
          BY <1>1, <1>5, <2>5
        <4> QED
          BY <3>3, <4>1
      <3> QED
        BY <3>1, <3>2, <3>3
    <2>6. HandlersRight /\ ~blind' => HandlersRight'
      BY <1>1, <2>2, <2>5 DEF HandlersRight
    <2>7. RightQueueStep
      BY <1>5, RightPosts
    <2> QED
      BY <2>4, <2>6, <2>7
  <1> QED
    BY <1>1, <1>3, <1>4, <1>5, GoOnCases

\* Full mode: every step of the miner.
LEMMA FullStep ==
    ASSUME MinerAssumption, MinerShape, Full, HandlerInv, MinerNext
    PROVE  HandlerInv' /\ (HandlersRight /\ ~blind' => RightQueueStep /\ HandlersRight')
  <1>1. /\ UNCHANGED workerVars => RightQueueStep
        /\ NewWorkers => RightQueueStep
        /\ PauseWorkers => RightQueueStep
        /\ \A j \in MaybeJob :
              StartJob(j) /\ (Full => SeedOf[j] = dataset /\ dataset # NoSeed)
                  => RightQueueStep
    BY RightPosts
  <1>2. ASSUME UNCHANGED datasetVars, starting' # "spawn" \/ starting' = starting
        PROVE  HandlerInv' /\ (HandlersRight => HandlersRight')
    BY <1>2 DEF HandlerInv, HandlersRight, datasetVars, Begins, Mines
  <1>3. ASSUME NEW j \in MaybeJob, (j \in MinerJobs /\ MinerGetsJob(j)) \/ LogsIn(j)
        PROVE  HandlerInv' /\ (HandlersRight => RightQueueStep /\ HandlersRight')
    BY <1>3, FullJobStep
  <1>4. CASE Disconnected \/ StopCall \/ Pause
    BY <1>1, <1>2, <1>4 DEF Disconnected, StopCall, Pause, callVars
  <1>5. CASE Start \/ ConnectFails
    BY <1>1, <1>2, <1>5 DEF Start, ConnectFails
  <1>6. CASE Spawned
    <2>1. firstJob \in MaybeJob
      BY DEF MinerShape
    <2>2. /\ dataset # NoSeed /\ starting' = "no" /\ UNCHANGED datasetVars
          /\ StartJob(firstJob)
      BY <1>6 DEF Spawned, HandlerInv
    <2>3. ~blind' => SeedOf[firstJob] = dataset
      BY <1>6 DEF Spawned
    <2> QED
      BY <1>1, <1>2, <2>1, <2>2, <2>3
  <1>7. CASE DatasetReturned
    <2>1. /\ ready # <<>> /\ Next1.at = "generated" /\ ready' = Tail(ready)
          /\ UNCHANGED <<dataset, generating, waiters, starting>>
          /\ UNCHANGED workerVars \/ StartJob(Next1.job)
      BY <1>7 DEF DatasetReturned, callVars
    <2>2. /\ Next1.job \in MaybeJob /\ dataset # NoSeed
          /\ HandlersRight => SeedOf[Next1.job] = dataset
      BY <2>1, ReadyShrinks DEF Mines
    <2> QED
      BY <1>1, <2>1, <2>2, FullGoesOn
  <1>8. CASE StartHasDataset
    <2>1. /\ ready # <<>> /\ Next1.at = "start" /\ ready' = Tail(ready)
          /\ UNCHANGED <<dataset, generating, waiters>> /\ starting' = "spawn"
          /\ NewWorkers
      BY <1>8 DEF StartHasDataset
    <2> QED
      BY <1>1, <2>1, FullGoesOn
  <1>9. CASE Stopped
    <2>1. RightQueueStep
      BY <1>9 DEF Stopped, RightQueueStep
    <2> QED
      BY <1>2, <1>9, <2>1 DEF Stopped
  <1>10. CASE Resume
    <2>1. /\ UNCHANGED datasetVars /\ UNCHANGED starting
          /\ UNCHANGED workerVars \/ (currentJob # NoMinerJob /\ StartJob(currentJob))
      BY <1>10 DEF Resume
    <2>2. /\ currentJob \in MaybeJob
          /\ currentJob # NoMinerJob => SeedOf[currentJob] # NoSeed
      BY DEF MinerShape, MaybeJob, MinerAssumption, Seeds
    <2>3. ~blind' => currentJob = NoMinerJob \/ SeedOf[currentJob] = dataset
      BY <1>10 DEF Resume
    <2> QED
      BY <1>1, <1>2, <2>1, <2>2, <2>3
  <1>11. ASSUME NEW w \in Workers,
                WorkerReceives(w) \/ WorkerLoaded(w) \/ WorkerFinds(w) \/ ShareArrives(w)
         PROVE  HandlerInv' /\ (HandlersRight => RightQueueStep /\ HandlersRight')
    <2>1. UNCHANGED <<callVars, datasetVars>>
      BY <1>11 DEF WorkerReceives, WorkerLoaded, WorkerFinds, ShareArrives
    <2>2. RightQueueStep
      BY <1>11 DEF WorkerFinds, ShareArrives, RightQueueStep
    <2> QED
      BY <1>2, <2>1, <2>2 DEF callVars
  <1>12. MinerJobs \subseteq MaybeJob
    BY DEF MaybeJob
  <1> QED
    BY <1>3, <1>4, <1>5, <1>6, <1>7, <1>8, <1>9, <1>10, <1>11, <1>12, FullPoolConnected,
       FullGenerated, FullReturns, FullWaited DEF MinerNext

\* Every step keeps the invariant of its mode.
LEMMA PoolMinerStep ==
    ASSUME MinerAssumption, PoolMinerInv, [MinerNext]_minerVars
    PROVE  PoolMinerInv'
  <1>1. CASE UNCHANGED minerVars
    <2>1. /\ UNCHANGED <<mode, starting, stopping, mining, paused, firstJob, currentJob>>
          /\ UNCHANGED <<dataset, generating, waiters, ready, clientJob, online>>
          /\ UNCHANGED <<up, queue, worker, found, due, blind>>
      BY <1>1 DEF minerVars, callVars, datasetVars, clientVars, workerVars
    <2>2. MinerShape' /\ (Full' <=> Full)
      BY <2>1 DEF PoolMinerInv, MinerShape, Full
    <2>3. LightInv' <=> LightInv
      BY <2>1 DEF LightInv, WillMine, WillRest
    <2>4. HandlerInv' <=> HandlerInv
      BY <2>1 DEF HandlerInv
    <2>5. (WorkersRight' <=> WorkersRight) /\ (HandlersRight' <=> HandlersRight)
      BY <2>1 DEF WorkersRight, RightWorker, RightMessage, HandlersRight, Full
    <2> QED
      BY <2>1, <2>2, <2>3, <2>4, <2>5 DEF PoolMinerInv
  <1>2. CASE MinerNext
    <2>1. MinerShape /\ MinerShape' /\ QueueStep
      BY <1>2, MinerShapeStep DEF PoolMinerInv
    <2>2. mode' = mode /\ (Full' <=> Full) /\ (blind => blind')
      BY <1>2, MinerFrame DEF Full
    <2>3. CASE ~Full
      <3>1. LightInv'
        BY <1>2, <2>3, LightStep
      <3>2. RightQueueStep
        BY <2>1, <2>3 DEF QueueStep, RightQueueStep, RightMessage
      <3>3. HandlersRight'
        <4>1. /\ waiters' = <<>>
              /\ \A n \in 1 .. Len(ready') : ready'[n].at = "connected"
          BY <3>1 DEF LightInv, ConnectedOnly
        <4> QED
          BY <4>1 DEF HandlersRight, Mines
      <3>4. ~blind' => WorkersRight'
        BY <2>1, <2>2, <3>2, WorkersStayRight DEF PoolMinerInv
      <3> QED
        BY <2>1, <2>2, <2>3, <3>1, <3>3, <3>4 DEF PoolMinerInv
    <2>4. CASE Full
      <3>1. HandlerInv' /\ (HandlersRight /\ ~blind' => RightQueueStep /\ HandlersRight')
        BY <1>2, <2>1, <2>4, FullStep DEF PoolMinerInv
      <3>2. ~blind' => WorkersRight' /\ HandlersRight'
        BY <2>1, <2>2, <3>1, WorkersStayRight DEF PoolMinerInv
      <3> QED
        BY <2>1, <2>2, <2>4, <3>1, <3>2 DEF PoolMinerInv
    <2> QED
      BY <2>3, <2>4
  <1> QED
    BY <1>1, <1>2

\* It holds before anything happened.
LEMMA PoolMinerInit ==
    ASSUME MinerInit
    PROVE  PoolMinerInv
  <1>1. /\ IdleWorker \in WorkerState /\ NoMinerJob \in MaybeJob /\ NoSeed \in AnySeed
        /\ <<>> \in Seq(Handler) /\ <<>> \in Seq(Message)
    BY DEF IdleWorker, WorkerState, MaybeJob, AnySeed, MaybeSeed
  <1>2. MinerShape
    BY <1>1 DEF MinerInit, MinerShape
  <1>3. LightInv
    BY DEF MinerInit, LightInv, WillRest, IdleWorker
  <1>4. HandlerInv
    BY DEF MinerInit, HandlerInv
  <1>5. WorkersRight /\ HandlersRight
    BY DEF MinerInit, WorkersRight, HandlersRight, RightWorker, IdleWorker
  <1> QED
    BY <1>2, <1>3, <1>4, <1>5 DEF PoolMinerInv

\* The invariant in every state.
LEMMA PoolMinerAlways == MinerSpec => []PoolMinerInv
  <1>1. PoolMinerInv /\ [MinerNext]_minerVars => PoolMinerInv'
    BY MinerAssumption, PoolMinerStep
  <1>2. MinerInit => PoolMinerInv
    BY PoolMinerInit
  <1> QED
    BY <1>1, <1>2, PTL DEF MinerSpec

\* A light miner at rest mines the last job that came while it was mining, and
\* hashes nothing while it is paused: a job that came during a pause, a lost
\* connection or the start is not forgotten (_handleNewJob, pause and resume of
\* stratum/miner.js).
THEOREM MinesTheLastJob == MinerSpec => []MinesWhatIsDue
  <1>1. PoolMinerInv => MinesWhatIsDue
    <2> SUFFICES ASSUME PoolMinerInv, ~Full, AtRest, NEW w \in Workers
                 PROVE  /\ due # NoMinerJob => worker[w].job = due
                        /\ paused => ~worker[w].hashing
      BY DEF MinesWhatIsDue
    <2>1. queue[w] = <<>>
      BY DEF AtRest
    <2> QED
      BY <2>1 DEF PoolMinerInv, LightInv, WillMine, WillRest
  <1> QED
    BY <1>1, PoolMinerAlways, PTL

\* Whatever is hashed is hashed with the cache or the dataset of its seed, while
\* no job was sent blindly (_startJob, _generateDataset of stratum/miner.js and
\* the job message of its workers).
THEOREM HashesWithItsDataset == MinerSpec => []RightDataset
  <1>1. PoolMinerInv => RightDataset
    BY DEF PoolMinerInv, RightDataset, WorkersRight, RightWorker
  <1> QED
    BY <1>1, PoolMinerAlways, PTL
=============================================================================
