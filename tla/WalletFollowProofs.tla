------------------------- MODULE WalletFollowProofs -------------------------
(***************************************************************************)
(* The engine implements ChainFollower: what it has saved as synchronised    *)
(* is extended along the best chain only, and cut back only when it has left *)
(* that chain, to exactly the last common block.                            *)
(*                                                                         *)
(* The argument: the hashes below the saved height are a prefix of some     *)
(* chain the daemon has had.  A block's hash commits to the blocks below it, *)
(* so the one comparison of _detectReorg, at the tip, tells for all of them *)
(* whether they are still on the best chain; the walk of                     *)
(* _findCommonAncestor passes exactly the blocks that are not.              *)
(***************************************************************************)
EXTENDS WalletSyncProofs, SequenceTheorems

\* The daemon reorganises only between syncs, and answers every question; during
\* a sync its chain may still grow.  (With "reorgBusy" the promise is broken:
\* run ReorgBetweenBatches.)
SteadyDaemon == Events \cap {"reorgBusy", "rpcError"} = {}

\* The first n stored hashes are the blocks of chain c.
Along(c, n) == n <= Len(c) /\ \A h \in 0 .. n - 1 : hashes[h] = c[h + 1]

\* ... of the daemon's best chain.
OnBestChain(n) == Along(chain, n)

\* A batch is being fetched, processed or saved.
InBatch == InBlock \/ pc \in {"block", "save", "recheck"}

\* What is saved as synchronised is a prefix of some chain the daemon has had.
Rooted == \E c \in Chains : Along(c, SyncedLength)

\* A rollback has been decided: the best chain is long enough to have a block
\* at every saved height, and has another one above the probe.
Forked ==
    BeforeHashesGo =>
        /\ startHeight = syncHeight /\ syncHeight <= Len(chain)
        /\ \A h \in probe + 1 .. syncHeight - 1 : hashes[h] # BlockAt(h)
        /\ hashes[syncHeight - 1] # BlockAt(syncHeight - 1)

\* The common block has been found.
Common ==
    /\ BeforeHashesGo /\ pc # "ancestor" => OnBestChain(probe + 1)
    /\ pc = "rollbackSync" => OnBestChain(startHeight)

\* Past the check of the tip, what is stored below currentHeight is on the best
\* chain, or the daemon's chain is too short and no batch will be asked for.
Checked ==
    /\ pc \in {"info", "tip"} => currentHeight = startHeight
    /\ pc \notin {"idle", "info"} => targetHeight <= Len(chain)
    /\ pc = "loop" => currentHeight > targetHeight \/ OnBestChain(currentHeight)
    /\ InBatch => OnBestChain(currentHeight)

\* The headers of the batch are the next ones of the best chain.
HeadersAhead ==
    InBlock \/ pc = "block" =>
        /\ currentHeight + Len(headers) <= Len(chain)
        /\ \A i \in 1 .. Len(headers) : headers[i] = chain[currentHeight + i]

\* Why the engine follows the best chain.
FollowInv == Rooted /\ Forked /\ Common /\ Checked /\ HeadersAhead

-----------------------------------------------------------------------------
(***************************************************************************)
(* Stretches of hashes                                                     *)
(***************************************************************************)
\* One equal hash at height n makes everything below it equal.
LEMMA HistoryCommits ==
    ASSUME TypeInv, NEW c \in Chains, NEW d \in Chains, NEW n \in Nat,
           NEW m \in Nat, Along(c, m), n < m, n < Len(d), hashes[n] = d[n + 1]
    PROVE  Along(d, n + 1)
<1>1. /\ Len(c) \in Nat /\ Len(d) \in Nat
      /\ DOMAIN c = 1 .. Len(c) /\ DOMAIN d = 1 .. Len(d)
  BY ChainFacts, LenProperties
<1>2. n + 1 \in DOMAIN c \cap DOMAIN d /\ c[n + 1] = d[n + 1]
  BY <1>1 DEF Along
<1>3. \A j \in 1 .. n + 1 : c[j] = d[j]
  BY <1>2, ChainsAssumption
<1>4. \A h \in 0 .. n : h \in 0 .. m - 1 /\ h + 1 \in 1 .. n + 1
  OBVIOUS
<1> QED BY <1>1, <1>3, <1>4 DEF Along

\* A prefix of a stretch along a chain is along it.
LEMMA AlongPrefix ==
    ASSUME NEW c \in Chains, NEW n \in Nat, NEW m \in Nat, m <= n, Along(c, n)
    PROVE  Along(c, m)
<1>1. Len(c) \in Nat
  BY ChainFacts, LenProperties
<1> QED BY <1>1 DEF Along

\* A chain that grows keeps its blocks.
LEMMA ExtendsKeeps ==
    ASSUME NEW c \in Chains, NEW d \in Chains, Extends(c, d)
    PROVE  Len(c) \in Nat /\ Len(d) \in Nat /\ Len(c) <= Len(d)
           /\ \A h \in 0 .. Len(c) - 1 : d[h + 1] = c[h + 1]
<1>1. c \in Seq(Hashes) /\ d \in Seq(Hashes) /\ Len(c) \in Nat /\ Len(d) \in Nat
  BY ChainFacts, LenProperties
<1>2. Len(c) < Len(d) /\ SubSeq(d, 1, Len(c)) = c
  BY <1>1 DEF Extends
<1>3. \A i \in 1 .. Len(c) : d[i] \in Hashes
  BY <1>1, <1>2, ElementOfSeq
<1>4. \A i \in 1 .. Len(c) : SubSeq(d, 1, Len(c))[i] = d[i]
  BY <1>1, <1>3, SubSeqProperties
<1> QED BY <1>1, <1>2, <1>4

\* The genesis block is common to all chains.
LEMMA GenesisShared ==
    ASSUME TypeInv, Rooted, pc # "rollbackSync", syncHeight > 0
    PROVE  hashes[0] = chain[1]
<1>1. PICK c \in Chains : Along(c, syncHeight)
  BY DEF Rooted, SyncedLength
<1>2. hashes[0] = c[1]
  BY <1>1 DEF Along, TypeInv, TypeOK
<1>3. c[1] = chain[1]
  BY ChainsAssumption DEF TypeInv, TypeOK
<1> QED BY <1>2, <1>3

-----------------------------------------------------------------------------
(***************************************************************************)
(* FollowInv is inductive                                                  *)
(***************************************************************************)
\* What lies below the synchronised length is unchanged.
SyncedUntouched ==
    /\ SyncedLength' = SyncedLength
    /\ \A h \in 0 .. SyncedLength - 1 : hashes'[h] = hashes[h]

\* Then it is still rooted.
LEMMA RootedStays ==
    ASSUME Rooted, SyncedUntouched
    PROVE  Rooted'
BY DEF Rooted, SyncedUntouched, Along

\* The engine comes to rest, or to the first await of a sync.
LEMMA FollowAtRest ==
    ASSUME Rooted, SyncedUntouched,
           pc' = "idle" \/ (pc' = "info" /\ currentHeight' = startHeight')
    PROVE  FollowInv'
BY RootedStays DEF FollowInv, Forked, Common, Checked, HeadersAhead, InBatch,
     InBlock, BeforeHashesGo

\* The steps inside a block and those that lead into it.
LEMMA FollowInBlock ==
    ASSUME FollowInv, InBlock \/ pc = "block", InBlock',
           UNCHANGED <<chain, hashes, syncHeight, heightVars, headers>>
    PROVE  FollowInv'
<1>1. SyncedUntouched
  BY DEF SyncedUntouched, SyncedLength, InBlock
<1> QED
  BY <1>1, RootedStays DEF FollowInv, Forked, Common, Checked, HeadersAhead,
     InBatch, InBlock, BeforeHashesGo, OnBestChain, Along, heightVars

\* The daemon's best chain grows during a sync, or moves while none is running.
LEMMA FollowChainMoves ==
    ASSUME SteadyDaemon, TypeInv, CoverInv, FollowInv, ChainMoves
    PROVE  FollowInv'
<1>1. PICK c \in Chains \ {chain} :
         /\ chain' = c
         /\ Extends(chain, c) \/ (~Syncing /\ "reorgIdle" \in Events)
                              \/ (Syncing /\ "reorgBusy" \in Events)
  BY DEF ChainMoves
<1>2. UNCHANGED <<rescanCall, storeVars, engineVars>>
  BY DEF ChainMoves
<1>3. SyncedUntouched
  BY <1>2 DEF SyncedUntouched, SyncedLength, storeVars, engineVars, heightVars
<1>4. CASE ~Syncing
  <2>1. pc' = "idle"
    BY <1>2, <1>4 DEF engineVars, TypeInv
  <2> QED BY <1>3, <2>1, FollowAtRest DEF FollowInv
<1>5. CASE Syncing
  <2>1. Extends(chain, c) /\ chain \in Chains
    BY <1>1, <1>5 DEF SteadyDaemon, TypeInv, TypeOK
  <2>2. /\ Len(chain) \in Nat /\ Len(c) \in Nat /\ Len(chain) <= Len(c)
        /\ \A h \in 0 .. Len(chain) - 1 : c[h + 1] = chain[h + 1]
    BY <2>1, ExtendsKeeps
  <2>3. ASSUME NEW n \in Int, OnBestChain(n) PROVE OnBestChain(n)'
    BY <1>1, <1>2, <2>2, <2>3 DEF OnBestChain, Along, storeVars
  <2>4. /\ targetHeight \in Nat /\ currentHeight \in Nat /\ probe \in Nat
        /\ startHeight \in Nat /\ syncHeight \in Nat /\ headers \in Seq(Hashes)
    BY StoreAssumption DEF TypeInv, TypeOK, Heights
  <2>5. Rooted'
    BY <1>3, RootedStays DEF FollowInv
  <2>6. Forked'
    <3> SUFFICES ASSUME BeforeHashesGo' PROVE Forked'
      BY DEF Forked
    <3>1. BeforeHashesGo
      BY <1>2 DEF BeforeHashesGo, engineVars
    <3>2. /\ startHeight = syncHeight /\ syncHeight <= Len(chain)
          /\ \A h \in probe + 1 .. syncHeight - 1 : hashes[h] # chain[h + 1]
          /\ hashes[syncHeight - 1] # chain[(syncHeight - 1) + 1]
          /\ probe < syncHeight
      BY <3>1 DEF FollowInv, Forked, BlockAt, CoverInv
    <3>3. \A h \in 0 .. syncHeight - 1 : chain'[h + 1] = chain[h + 1]
      BY <1>1, <2>2, <2>4, <3>2
    <3>4. UNCHANGED <<hashes, syncHeight, startHeight, probe>>
      BY <1>2 DEF storeVars, engineVars, heightVars
    <3>5. syncHeight - 1 \in 0 .. syncHeight - 1
          /\ \A h \in probe + 1 .. syncHeight - 1 : h \in 0 .. syncHeight - 1
      BY <2>4, <3>2
    <3>6. syncHeight <= Len(chain')
      BY <1>1, <2>2, <2>4, <3>2
    <3> QED BY <3>2, <3>3, <3>4, <3>5, <3>6 DEF Forked, BlockAt
  <2>7. Common'
    <3>1. BeforeHashesGo' /\ pc' # "ancestor" => OnBestChain(probe + 1)'
      <4>1. probe + 1 \in Int /\ probe' = probe
        BY <1>2, <2>4 DEF engineVars
      <4> QED BY <1>2, <2>3, <4>1 DEF FollowInv, Common, BeforeHashesGo, engineVars, OnBestChain
    <3>2. pc' = "rollbackSync" => OnBestChain(startHeight)'
      BY <1>2, <2>3, <2>4 DEF FollowInv, Common, engineVars, heightVars, OnBestChain
    <3> QED BY <3>1, <3>2 DEF Common
  <2>8. Checked'
    <3>1. OnBestChain(currentHeight) => OnBestChain(currentHeight)'
      BY <1>2, <2>3, <2>4 DEF engineVars, heightVars, OnBestChain
    <3>2. targetHeight <= Len(chain) => targetHeight' <= Len(chain')
      BY <1>1, <1>2, <2>2, <2>4 DEF engineVars, heightVars
    <3> QED
      BY <1>2, <3>1, <3>2 DEF FollowInv, Checked, InBatch, InBlock, engineVars, heightVars
  <2>9. HeadersAhead'
    <3> SUFFICES ASSUME (InBlock \/ pc = "block")' PROVE HeadersAhead'
      BY DEF HeadersAhead
    <3>1. /\ currentHeight + Len(headers) <= Len(chain)
          /\ \A i \in 1 .. Len(headers) : headers[i] = chain[currentHeight + i]
      BY <1>2 DEF FollowInv, HeadersAhead, InBlock, engineVars
    <3>2. Len(headers) \in Nat /\ UNCHANGED <<headers, currentHeight>>
      BY <1>2, <2>4, LenProperties DEF engineVars, heightVars, scanVars
    <3>3. \A i \in 1 .. Len(headers) : chain'[currentHeight + i] = chain[currentHeight + i]
      <4> TAKE i \in 1 .. Len(headers)
      <4>1. /\ currentHeight + i - 1 \in 0 .. Len(chain) - 1
            /\ (currentHeight + i - 1) + 1 = currentHeight + i
        BY <2>2, <2>4, <3>1, <3>2
      <4> QED BY <1>1, <2>2, <4>1
    <3> QED BY <1>1, <2>2, <2>4, <3>1, <3>2, <3>3 DEF HeadersAhead
  <2> QED BY <2>5, <2>6, <2>7, <2>8, <2>9 DEF FollowInv
<1> QED BY <1>4, <1>5

\* getInfo: the target is the length of the best chain.
LEMMA FollowGetInfo ==
    ASSUME TypeInv, FollowInv, GetInfo \/ Recheck, SteadyDaemon
    PROVE  FollowInv'
<1>1. /\ targetHeight' = Len(chain) /\ pc \in {"info", "recheck"} /\ pc' \in {"tip", "loop"}
      /\ pc = "info" <=> pc' = "tip"
      /\ UNCHANGED <<callerVars, storeVars, startHeight, currentHeight, probe, scanVars>>
  BY DEF GetInfo, Recheck, Goto, SteadyDaemon, RpcMayFail
<1>2. SyncedUntouched
  BY <1>1 DEF SyncedUntouched, SyncedLength, storeVars
<1>3. OnBestChain(currentHeight) => OnBestChain(currentHeight)'
  BY <1>1 DEF OnBestChain, Along, callerVars, storeVars
<1>4. targetHeight' <= Len(chain')
  BY <1>1, ChainFacts, LenProperties DEF callerVars, TypeInv, TypeOK
<1>5. pc' = "loop" => OnBestChain(currentHeight)'
  BY <1>1, <1>3 DEF FollowInv, Checked, InBatch
<1> QED
  BY <1>1, <1>2, <1>4, <1>5, RootedStays
     DEF FollowInv, Forked, Common, Checked, HeadersAhead, InBatch, InBlock, BeforeHashesGo

\* _detectReorg finds the tip where it was: then everything below it is too.  Or
\* the daemon has no block there, and then none to fetch either.
LEMMA FollowTipMatches ==
    ASSUME TypeInv, CoverInv, FollowInv, TipMatches, SteadyDaemon
    PROVE  FollowInv'
<1>1. /\ pc = "tip" /\ pc' = "loop" /\ ~TipIsStale
      /\ UNCHANGED <<callerVars, storeVars, heightVars, probe, scanVars>>
  BY DEF TipMatches, Goto, SteadyDaemon, RpcMayFail
<1>2. /\ startHeight = syncHeight /\ Covered(currentHeight)
      /\ currentHeight >= syncHeight
      /\ syncHeight \in Nat /\ currentHeight \in Nat /\ targetHeight \in Nat
      /\ syncHeight <= MaxHeight /\ MaxHeight \in Nat
  BY <1>1, StoreAssumption DEF CoverInv, TypeInv, TypeOK
<1>3. targetHeight <= Len(chain) /\ Len(chain) \in Nat /\ chain \in Chains
  BY <1>1, ChainFacts, LenProperties DEF FollowInv, Checked, TypeInv, TypeOK
<1>4. currentHeight = startHeight
  BY <1>1 DEF FollowInv, Checked
<1>5. currentHeight > targetHeight \/ OnBestChain(currentHeight)
  <2>1. currentHeight = syncHeight
    BY <1>2, <1>4
  <2>2. CASE syncHeight = 0
    BY <1>3, <2>1, <2>2 DEF OnBestChain, Along
  <2>3. CASE syncHeight # 0 /\ ~HasBlock(TipHeight)
    BY <1>2, <1>3, <2>1, <2>3 DEF HasBlock, TipHeight
  <2>4. CASE syncHeight # 0 /\ HasBlock(TipHeight)
    <3>1. PICK c \in Chains : Along(c, syncHeight)
      BY <1>1 DEF FollowInv, Rooted, SyncedLength
    <3> DEFINE n == syncHeight - 1
    <3>2. n \in Nat /\ n \in Heights /\ n < syncHeight /\ n + 1 = syncHeight /\ TipHeight = n
      BY <1>2, <2>4 DEF Heights, TipHeight
    <3>3. hashes[n] # None /\ n < Len(chain)
      BY <1>2, <2>1, <2>4, <3>2 DEF Covered, HasBlock
    <3>4. hashes[n] = chain[n + 1]
      BY <1>1, <1>2, <2>4, <3>2, <3>3 DEF TipIsStale, Differs, BlockAt
    <3> HIDE DEF n
    <3>5. Along(chain, n + 1)
      BY <1>2, <1>3, <3>1, <3>2, <3>3, <3>4, HistoryCommits
    <3> QED BY <2>1, <3>2, <3>5 DEF OnBestChain
  <2> QED BY <2>2, <2>3, <2>4
<1>6. SyncedUntouched
  BY <1>1 DEF SyncedUntouched, SyncedLength, storeVars
<1>7. OnBestChain(currentHeight) => OnBestChain(currentHeight)'
  BY <1>1 DEF OnBestChain, Along, callerVars, storeVars, heightVars
<1> QED
  BY <1>1, <1>3, <1>5, <1>6, <1>7, RootedStays
     DEF FollowInv, Forked, Common, Checked, HeadersAhead, InBatch, InBlock,
         BeforeHashesGo, callerVars, heightVars

\* The walk of _findCommonAncestor: it begins below a block that has left the
\* best chain, passes only such blocks and ends at a common one.
LEMMA FollowWalk ==
    ASSUME TypeInv, CoverInv, FollowInv, SteadyDaemon,
           TipDiffers \/ AncestorFound \/ AncestorLower
    PROVE  FollowInv'
<1>0. /\ syncHeight \in Nat /\ startHeight \in Nat /\ probe \in Nat /\ currentHeight \in Nat
      /\ syncHeight <= MaxHeight /\ MaxHeight \in Nat /\ chain \in Chains
      /\ Len(chain) \in Nat /\ targetHeight \in Nat
  BY StoreAssumption, ChainFacts, LenProperties DEF TypeInv, TypeOK, Heights
<1>1. /\ pc \in {"tip", "ancestor"} /\ pc' \in {"ancestor", "rollbackOutputs"}
      /\ UNCHANGED <<callerVars, storeVars, heightVars, scanVars>>
  BY DEF TipDiffers, AncestorFound, AncestorLower, Goto
<1>2. SyncedUntouched
  BY <1>1 DEF SyncedUntouched, SyncedLength, storeVars
<1>3. /\ Rooted' /\ Checked' /\ HeadersAhead'
  BY <1>1, <1>2, RootedStays
     DEF FollowInv, Checked, HeadersAhead, InBatch, InBlock, callerVars, heightVars
<1>4. CASE TipDiffers
  <2>1. /\ pc = "tip" /\ pc' = "ancestor" /\ probe' = startHeight - 1
        /\ startHeight # 0 /\ startHeight - 1 < Len(chain)
        /\ hashes[startHeight - 1] # BlockAt(startHeight - 1)
    BY <1>4 DEF TipDiffers, Goto, TipIsStale, Differs, HasBlock, TipHeight
  <2>2. startHeight = syncHeight
    BY <2>1 DEF CoverInv
  <2>3. Forked'
    <3>1. syncHeight <= Len(chain) /\ (startHeight - 1) + 1 = syncHeight
      BY <1>0, <2>1, <2>2
    <3>2. \A h \in probe' + 1 .. syncHeight - 1 : FALSE
      BY <1>0, <2>1, <2>2
    <3> QED
      BY <1>1, <2>1, <2>2, <3>1, <3>2
         DEF Forked, BlockAt, callerVars, storeVars, heightVars
  <2>4. Common'
    BY <2>1 DEF Common
  <2> QED BY <1>3, <2>3, <2>4 DEF FollowInv
<1>5. ASSUME pc = "ancestor" PROVE
        /\ startHeight = syncHeight /\ syncHeight <= Len(chain) /\ probe < syncHeight
        /\ \A h \in probe + 1 .. syncHeight - 1 : hashes[h] # BlockAt(h)
        /\ hashes[syncHeight - 1] # BlockAt(syncHeight - 1)
        /\ hashes[probe] # None /\ HasBlock(probe)
  <2>1. /\ startHeight = syncHeight /\ syncHeight <= Len(chain) /\ probe < syncHeight
        /\ \A h \in probe + 1 .. syncHeight - 1 : hashes[h] # BlockAt(h)
        /\ hashes[syncHeight - 1] # BlockAt(syncHeight - 1)
    BY <1>5 DEF FollowInv, Forked, CoverInv, BeforeHashesGo
  <2>2. hashes[probe] # None
    BY <1>0, <1>5, <2>1 DEF CoverInv, Covered, Heights
  <2>3. HasBlock(probe)
    BY <1>0, <2>1 DEF HasBlock
  <2> QED BY <2>1, <2>2, <2>3
<1>6. CASE AncestorFound
  <2>1. pc = "ancestor" /\ pc' = "rollbackOutputs" /\ probe' = probe /\ ~Differs(probe)
    BY <1>6 DEF AncestorFound, Goto
  <2>2. hashes[probe] = chain[probe + 1] /\ probe < Len(chain) /\ probe < syncHeight
    BY <1>5, <2>1 DEF Differs, BlockAt, HasBlock
  <2>3. PICK c \in Chains : Along(c, syncHeight)
    BY <2>1 DEF FollowInv, Rooted, SyncedLength
  <2>4. Along(chain, probe + 1)
    BY <1>0, <2>2, <2>3, HistoryCommits
  <2>5. Common'
    BY <1>1, <2>1, <2>4 DEF Common, OnBestChain, Along, callerVars, storeVars
  <2>6. Forked'
    BY <1>1, <1>5, <2>1 DEF Forked, BlockAt, callerVars, storeVars, heightVars
  <2> QED BY <1>3, <2>5, <2>6 DEF FollowInv
<1>7. CASE AncestorLower
  <2>1. pc = "ancestor" /\ Differs(probe)
    BY <1>7 DEF AncestorLower, SteadyDaemon, RpcMayFail
  <2>2. hashes[probe] # BlockAt(probe)
    BY <1>5, <2>1 DEF Differs
  <2>3. probe # 0
    <3>1. syncHeight > 0
      BY <1>0, <1>5, <2>1
    <3>2. hashes[0] = chain[1]
      BY <2>1, <3>1, GenesisShared DEF FollowInv
    <3> QED BY <2>2, <3>2 DEF BlockAt
  <2>4. probe' = probe - 1 /\ pc' = "ancestor"
    BY <1>7, <2>1, <2>3 DEF AncestorLower
  <2>5. \A h \in probe' + 1 .. syncHeight - 1 : hashes[h] # BlockAt(h)
    BY <1>0, <1>5, <2>1, <2>2, <2>3, <2>4
  <2>6. Forked'
    BY <1>1, <1>5, <2>1, <2>5 DEF Forked, BlockAt, callerVars, storeVars, heightVars
  <2>7. Common'
    BY <2>4 DEF Common
  <2> QED BY <1>3, <2>6, <2>7 DEF FollowInv
<1> QED BY <1>4, <1>6, <1>7

\* The rollback keeps the hashes up to the common block, then forgets the
\* others together with the heights.
LEMMA FollowRollback ==
    ASSUME TypeInv, CoverInv, FollowInv, SteadyDaemon,
           \/ RollbackOutputs \/ RollbackTransactions \/ RollbackSpends
           \/ RollbackHashes \/ RollbackSyncHeight
    PROVE  FollowInv'
<1>0. /\ syncHeight \in Nat /\ startHeight \in Nat /\ probe \in Nat /\ currentHeight \in Nat
      /\ probe < MaxHeight /\ syncHeight <= MaxHeight /\ MaxHeight \in Nat /\ chain \in Chains
      /\ Len(chain) \in Nat /\ targetHeight \in Nat
  BY StoreAssumption, ChainFacts, LenProperties DEF TypeInv, TypeOK, Heights
<1>1. CASE RollbackOutputs \/ RollbackTransactions \/ RollbackSpends
  <2>1. /\ BeforeHashesGo /\ pc # "ancestor"
        /\ pc' \in {"rollbackTxs", "rollbackSpends", "rollbackHashes"}
        /\ UNCHANGED <<chain, hashes, syncHeight, heightVars, probe, headers>>
    BY <1>1 DEF RollbackOutputs, RollbackTransactions, RollbackSpends, Goto,
         BeforeHashesGo, callerVars, scanVars
  <2>2. SyncedUntouched
    BY <2>1 DEF SyncedUntouched, SyncedLength, BeforeHashesGo
  <2> QED
    BY <2>1, <2>2, RootedStays
       DEF FollowInv, Forked, Common, Checked, HeadersAhead, InBatch, InBlock,
           BeforeHashesGo, OnBestChain, Along, BlockAt, heightVars
<1>2. CASE RollbackHashes
  <2>1. /\ pc = "rollbackHashes" /\ pc' = "rollbackSync"
        /\ startHeight' = probe + 1 /\ currentHeight' = probe + 1
        /\ UNCHANGED <<chain, targetHeight, headers>>
        /\ \A h \in 0 .. probe : hashes'[h] = hashes[h]
    BY <1>0, <1>2 DEF RollbackHashes, Goto, DeleteBlockHashesAbove, Heights,
         callerVars, scanVars
  <2>2. OnBestChain(probe + 1) /\ targetHeight <= Len(chain)
    BY <2>1 DEF FollowInv, Common, Checked, BeforeHashesGo
  <2>3. OnBestChain(startHeight)' /\ SyncedLength' = startHeight'
    BY <1>0, <2>1, <2>2 DEF OnBestChain, Along, SyncedLength
  <2>4. Rooted'
    BY <1>0, <2>1, <2>3 DEF Rooted, OnBestChain
  <2> QED
    BY <2>1, <2>2, <2>3, <2>4
       DEF FollowInv, Forked, Common, Checked, HeadersAhead, InBatch, InBlock,
           BeforeHashesGo
<1>3. CASE RollbackSyncHeight
  <2>1. /\ pc = "rollbackSync" /\ pc' = "loop" /\ syncHeight' = startHeight
        /\ UNCHANGED <<chain, hashes, heightVars, headers>>
    BY <1>3 DEF RollbackSyncHeight, Goto, callerVars, scanVars
  <2>2. SyncedUntouched
    BY <2>1 DEF SyncedUntouched, SyncedLength
  <2>3. OnBestChain(currentHeight)' /\ targetHeight <= Len(chain)
    BY <2>1 DEF FollowInv, Common, Checked, CoverInv, OnBestChain, Along, heightVars
  <2> QED
    BY <2>1, <2>2, <2>3, RootedStays
       DEF FollowInv, Forked, Common, Checked, HeadersAhead, InBatch, InBlock,
           BeforeHashesGo, heightVars
<1> QED BY <1>1, <1>2, <1>3

\* The headers asked for are the next blocks of the best chain: the wallet is on
\* it whenever there is something to fetch.
LEMMA FollowGetHeaders ==
    ASSUME TypeInv, FollowInv, NEW n \in 1 .. MaxBatch, GetHeaders(n)
    PROVE  FollowInv'
<1>1. /\ pc = "loop" /\ pc' = "block" /\ currentHeight < targetHeight
      /\ BatchEnd(n) <= Len(chain)
      /\ headers' = SubSeq(chain, currentHeight + 1, BatchEnd(n))
      /\ UNCHANGED <<chain, storeVars, heightVars, probe>>
  BY DEF GetHeaders, Goto, callerVars
<1>2. /\ currentHeight \in Nat /\ targetHeight \in Nat /\ n \in Nat /\ n > 0
      /\ chain \in Seq(Hashes) /\ Len(chain) \in Nat
  BY StoreAssumption, WalletAssumption, ChainFacts, LenProperties DEF TypeInv, TypeOK
<1>3. BatchEnd(n) \in Nat /\ currentHeight < BatchEnd(n)
  BY <1>1, <1>2 DEF BatchEnd
<1>4. \A i \in currentHeight + 1 .. BatchEnd(n) : chain[i] \in Hashes
  BY <1>1, <1>2, <1>3, ElementOfSeq
<1>5. /\ Len(headers') = BatchEnd(n) - currentHeight
      /\ \A i \in 1 .. BatchEnd(n) - currentHeight : headers'[i] = chain[currentHeight + i]
  <2> DEFINE a == currentHeight + 1
             b == BatchEnd(n)
  <2>1. a \in Int /\ b \in Int /\ a <= b /\ b - a + 1 = b - currentHeight
    BY <1>2, <1>3
  <2>2. /\ Len(SubSeq(chain, a, b)) = b - a + 1
        /\ \A i \in 1 .. b - a + 1 : SubSeq(chain, a, b)[i] = chain[a + i - 1]
    <3> HIDE DEF a, b
    <3> QED BY <1>4, <2>1, SubSeqProperties DEF a, b
  <2>3. \A i \in 1 .. b - a + 1 : a + i - 1 = currentHeight + i
    BY <1>2, <1>3
  <2> QED BY <1>1, <2>1, <2>2, <2>3
<1>6. HeadersAhead'
  BY <1>1, <1>2, <1>3, <1>5 DEF HeadersAhead, heightVars
<1>7. SyncedUntouched
  BY <1>1 DEF SyncedUntouched, SyncedLength, storeVars
<1>8. OnBestChain(currentHeight)
  BY <1>1, <1>2 DEF FollowInv, Checked
<1> QED
  BY <1>1, <1>6, <1>7, <1>8, RootedStays
     DEF FollowInv, Forked, Common, Checked, InBatch, InBlock, BeforeHashesGo,
         OnBestChain, Along, storeVars, heightVars

\* A header's hash is stored where the best chain has that block.
LEMMA FollowPutHash ==
    ASSUME TypeInv, CoverInv, FollowInv, PutHash
    PROVE  FollowInv'
<1>0. /\ currentHeight \in Heights /\ currentHeight \in Nat /\ syncHeight \in Nat
      /\ targetHeight \in Nat /\ chain \in Chains /\ Len(chain) \in Nat
  <2>1. currentHeight \in Heights
    BY CurrentHeightInBlock DEF PutHash, InBlock
  <2> QED
    BY <2>1, StoreAssumption, ChainFacts, LenProperties DEF TypeInv, TypeOK, Heights
<1>1. /\ pc = "regular" /\ pc' = "block" /\ InBlock
      /\ hashes' = [hashes EXCEPT ![currentHeight] = Head(headers)]
      /\ currentHeight' = currentHeight + 1 /\ headers' = Tail(headers)
      /\ UNCHANGED <<chain, syncHeight, startHeight, targetHeight>>
  BY DEF PutHash, PutBlockHash, Goto, callerVars, InBlock
<1>2. headers \in Seq(Hashes) /\ headers # <<>>
  BY <1>1 DEF TypeInv, TypeOK
<1>3. /\ Len(headers) \in Nat \ {0} /\ Len(headers') = Len(headers) - 1
      /\ Head(headers) = headers[1]
      /\ \A i \in 1 .. Len(headers) - 1 : headers'[i] = headers[i + 1]
  BY <1>1, <1>2, EmptySeq, HeadTailProperties
<1>4. /\ currentHeight + Len(headers) <= Len(chain)
      /\ \A i \in 1 .. Len(headers) : headers[i] = chain[currentHeight + i]
      /\ OnBestChain(currentHeight) /\ targetHeight <= Len(chain)
  BY <1>1 DEF FollowInv, HeadersAhead, Checked, InBatch
<1>5. currentHeight >= syncHeight
  BY <1>1 DEF CoverInv, TypeInv
<1>6. hashes \in [Heights -> Hashes \union {None}]
  BY DEF TypeInv, TypeOK
<1>7. /\ hashes'[currentHeight] = chain[currentHeight + 1]
      /\ \A h \in 0 .. currentHeight - 1 : hashes'[h] = hashes[h]
  <2>1. 1 \in 1 .. Len(headers)
    BY <1>3
  <2>2. hashes'[currentHeight] = Head(headers)
    BY <1>0, <1>1, <1>6
  <2>3. \A h \in 0 .. currentHeight - 1 : h \in Heights /\ h # currentHeight
    BY <1>0, StoreAssumption DEF Heights
  <2> QED BY <1>1, <1>3, <1>4, <1>6, <2>1, <2>2, <2>3
<1>8. OnBestChain(currentHeight)'
  <2>1. currentHeight + 1 <= Len(chain)
    BY <1>0, <1>3, <1>4
  <2>2. \A h \in 0 .. currentHeight : hashes'[h] = chain[h + 1]
    BY <1>0, <1>4, <1>7 DEF OnBestChain, Along
  <2>3. (currentHeight + 1) - 1 = currentHeight
    BY <1>0
  <2> QED BY <1>1, <2>1, <2>2, <2>3 DEF OnBestChain, Along
<1>9. HeadersAhead'
  <2>1. currentHeight' + Len(headers') <= Len(chain)
    BY <1>0, <1>1, <1>3, <1>4
  <2>2. \A i \in 1 .. Len(headers') : headers'[i] = chain[currentHeight' + i]
    <3> TAKE i \in 1 .. Len(headers')
    <3>1. /\ i \in 1 .. Len(headers) - 1 /\ i + 1 \in 1 .. Len(headers)
          /\ currentHeight + (i + 1) = (currentHeight + 1) + i
      BY <1>0, <1>3
    <3> QED BY <1>1, <1>3, <1>4, <3>1
  <2> QED BY <1>1, <2>1, <2>2 DEF HeadersAhead
<1>10. SyncedUntouched
  BY <1>0, <1>1, <1>5, <1>7 DEF SyncedUntouched, SyncedLength
<1> QED
  BY <1>1, <1>4, <1>8, <1>9, <1>10, RootedStays
     DEF FollowInv, Forked, Common, Checked, InBatch, InBlock, BeforeHashesGo

\* The processed height is saved.
LEMMA FollowSave ==
    ASSUME TypeInv, FollowInv, SaveSyncHeight
    PROVE  FollowInv'
<1>1. /\ pc = "save" /\ pc' \in {"recheck", "loop"} /\ syncHeight' = currentHeight
      /\ UNCHANGED <<chain, hashes, heightVars, headers>>
  BY DEF SaveSyncHeight, Goto, callerVars, scanVars
<1>2. OnBestChain(currentHeight) /\ chain \in Chains
  BY <1>1 DEF FollowInv, Checked, InBatch, TypeInv, TypeOK
<1>3. SyncedLength' = currentHeight
  BY <1>1 DEF SyncedLength
<1>4. Rooted'
  BY <1>1, <1>2, <1>3 DEF Rooted, OnBestChain, Along
<1> QED
  BY <1>1, <1>2, <1>4
     DEF FollowInv, Forked, Common, Checked, HeadersAhead, InBatch, InBlock,
         BeforeHashesGo, OnBestChain, Along, heightVars

\* A batch ends and the loop ends.
LEMMA FollowEnds ==
    ASSUME TypeInv, FollowInv, BatchDone \/ SyncEnds
    PROVE  FollowInv'
<1>1. SyncedUntouched
  BY DEF BatchDone, SyncEnds, Goto, SyncedUntouched, SyncedLength, storeVars
<1>2. CASE SyncEnds
  BY <1>1, <1>2, FollowAtRest DEF SyncEnds, Goto, FollowInv
<1>3. CASE BatchDone
  <2>1. pc = "block" /\ pc' = "save" /\ UNCHANGED <<chain, hashes, heightVars>>
    BY <1>3 DEF BatchDone, Goto, callerVars, storeVars
  <2> QED
    BY <1>1, <2>1, RootedStays
       DEF FollowInv, Forked, Common, Checked, HeadersAhead, InBatch, InBlock,
           BeforeHashesGo, OnBestChain, Along, heightVars
<1> QED BY <1>2, <1>3

\* Every step of the engine keeps FollowInv.
LEMMA FollowEngine ==
    ASSUME WholeRollbacks, SteadyDaemon, TypeInv, CoverInv, FollowInv, EngineStep
    PROVE  FollowInv'
<1>1. ASSUME Fail, pc # "rollbackSync" PROVE FollowInv'
  BY <1>1, FollowAtRest
     DEF Fail, Goto, SyncedUntouched, SyncedLength, storeVars, FollowInv
<1>2. CASE \/ GetInfoFails \/ GetBlockFails \/ StoreFails \/ RollbackFails
           \/ \E n \in 1 .. MaxBatch : GetHeadersFails(n)
  BY <1>1, <1>2 DEF GetInfoFails, GetBlockFails, StoreFails, RollbackFails,
       GetHeadersFails, MoreHeaders, WholeRollbacks
<1>3. CASE GetInfo \/ Recheck \/ TipMatches
  BY <1>3, FollowGetInfo, FollowTipMatches
<1>4. CASE TipDiffers \/ AncestorFound \/ AncestorLower
  BY <1>4, FollowWalk
<1>5. CASE \/ RollbackOutputs \/ RollbackTransactions \/ RollbackSpends
           \/ RollbackHashes \/ RollbackSyncHeight
  BY <1>5, FollowRollback
<1>6. CASE \E n \in 1 .. MaxBatch : GetHeaders(n)
  BY <1>6, FollowGetHeaders
<1>7. CASE PutHash \/ SaveSyncHeight \/ BatchDone \/ SyncEnds
  BY <1>7, FollowPutHash, FollowSave, FollowEnds
<1>8. CASE GetBlock \/ GetTransactions
  BY <1>8, FollowInBlock
     DEF GetBlock, MoreHeaders, GetTransactions, Goto, InBlock, callerVars, storeVars
<1>9. CASE \/ \E t \in Txs : SkipTransaction(t) \/ TakeTransaction(t)
           \/ \E o \in Outs : PutOwnedOutput(o)
           \/ \E k \in Keys : CheckInput(k)
  BY <1>9, FollowInBlock
     DEF SkipTransaction, TakeTransaction, PutOwnedOutput, CheckInput, Goto,
         InBlock, callerVars, storeVars
<1>10. CASE MarkInput \/ RecordTransaction \/ TransactionFails
  BY <1>10, FollowInBlock
     DEF MarkInput, RecordTransaction, TransactionFails, NextTransaction, Goto,
         InBlock, callerVars, storeVars
<1> QED
  BY <1>2, <1>3, <1>4, <1>5, <1>6, <1>7, <1>8, <1>9, <1>10 DEF EngineStep

\* A sync that begins takes what is synchronised as it finds it.
LEMMA FollowBegin ==
    ASSUME TypeInv, FollowInv, ~Syncing, NEW n, Begin(n), UNCHANGED <<chain, storeVars>>
    PROVE  FollowInv'
<1>1. pc = "idle" /\ pc' = "info" /\ currentHeight' = startHeight'
  BY DEF Begin, Goto, TypeInv
<1> QED
  BY <1>1, FollowAtRest DEF SyncedUntouched, SyncedLength, storeVars, FollowInv

\* stop() touches nothing of it.
LEMMA FollowQuiet ==
    ASSUME FollowInv, Stop \/ UNCHANGED vars
    PROVE  FollowInv'
<1>1. UNCHANGED <<chain, hashes, syncHeight, heightVars, pc, probe, headers>>
  BY DEF Stop, vars, callerVars, storeVars, engineVars, scanVars
<1> QED
  BY <1>1 DEF FollowInv, Rooted, Forked, Common, Checked, HeadersAhead,
       InBatch, InBlock, BeforeHashesGo, OnBestChain, Along, SyncedLength,
       BlockAt, heightVars

\* The callers keep FollowInv.
LEMMA FollowCallers ==
    ASSUME OrderlyStorage, TypeInv, FollowInv, rescanCall = NoRescan,
           CallerStep \/ Crash \/ UNCHANGED vars
    PROVE  FollowInv'
<1>1. ASSUME NEW h \in StartHeights \union {None}, Start(h) PROVE FollowInv'
  <2>1. h = None
    BY DEF OrderlyStorage
  <2>2. ~Syncing /\ Begin(syncHeight) /\ UNCHANGED <<chain, storeVars>>
    BY <1>1, <2>1, StartIsBegin DEF callerVars
  <2> QED BY <2>2, FollowBegin
<1> QED BY <1>1, FollowQuiet, NobodyRescans DEF CallerStep

\* A wallet that has synchronised nothing follows any chain, as a new one does.
LEMMA NothingToFollow ==
    chain \in Chains /\ pc = "idle" /\ syncHeight = 0 => FollowInv
<1> SUFFICES ASSUME chain \in Chains, pc = "idle", syncHeight = 0 PROVE FollowInv
  OBVIOUS
<1>1. chain \in Chains /\ Len(chain) \in Nat /\ SyncedLength = 0
  BY ChainFacts, LenProperties DEF SyncedLength
<1>2. Rooted
  BY <1>1 DEF Rooted, Along
<1> QED
  BY <1>1, <1>2 DEF FollowInv, Forked, Common, Checked, HeadersAhead,
     InBatch, InBlock, BeforeHashesGo

LEMMA InitFollowInv == Init => FollowInv
BY NothingToFollow DEF Init

\* The three invariants together.
LEMMA FollowInvStep ==
    ASSUME OrderlyStorage, SteadyDaemon, TypeInv, CoverInv, FollowInv,
           rescanCall = NoRescan, [Next]_vars
    PROVE  TypeInv' /\ CoverInv' /\ FollowInv' /\ rescanCall' = NoRescan
<1>1. TypeInv'
  BY NextTypeInv
<1>2. CoverInv' /\ rescanCall' = NoRescan
  BY CoverStep, NoRescanStep
<1>3. FollowInv'
  BY FollowEngine, FollowCallers, FollowChainMoves DEF Next, OrderlyStorage
<1> QED BY <1>1, <1>2, <1>3

-----------------------------------------------------------------------------
(***************************************************************************)
(* Every step follows the chain                                            *)
(***************************************************************************)
\* The first n stored hashes as a sequence.
Stretch(n) == [i \in 1 .. n |-> hashes[i - 1]]

\* A stretch is a sequence of its length.
LEMMA StretchType ==
    ASSUME TypeInv, NEW n \in 0 .. MaxHeight
    PROVE  /\ Stretch(n) \in Seq(Hashes \union {None})
           /\ Len(Stretch(n)) = n
           /\ \A i \in 1 .. n : Stretch(n)[i] = hashes[i - 1]
<1>1. n \in Nat /\ hashes \in [Heights -> Hashes \union {None}]
  BY StoreAssumption DEF TypeInv, TypeOK
<1>2. \A i \in 1 .. n : hashes[i - 1] \in Hashes \union {None}
  BY <1>1, StoreAssumption DEF Heights
<1>3. Stretch(n) \in [1 .. n -> Hashes \union {None}]
  BY <1>2 DEF Stretch
<1> QED BY <1>1, <1>3 DEF Stretch

\* The first blocks of a stretch.
LEMMA StretchPrefix ==
    ASSUME TypeInv, NEW n \in 0 .. MaxHeight, NEW m \in 0 .. n
    PROVE  SubSeq(Stretch(n), 1, m) = Stretch(m)
<1>0. n \in Nat /\ m \in Nat /\ m \in 0 .. MaxHeight /\ m <= n
  BY StoreAssumption
<1> DEFINE B == Hashes \union {None}
<1>1. /\ Stretch(n) \in Seq(B) /\ \A i \in 1 .. n : Stretch(n)[i] = hashes[i - 1]
      /\ Stretch(m) \in Seq(B) /\ Len(Stretch(m)) = m
      /\ \A i \in 1 .. m : Stretch(m)[i] = hashes[i - 1]
  BY <1>0, StretchType
<1>2. \A i \in 1 .. m : Stretch(n)[i] \in B /\ Stretch(n)[i] = hashes[i - 1]
  <2>1. Len(Stretch(n)) = n
    BY StretchType
  <2> HIDE DEF B
  <2> QED BY <1>0, <1>1, <2>1, ElementOfSeq
<1> HIDE DEF B
<1>3. /\ SubSeq(Stretch(n), 1, m) \in Seq(B)
      /\ Len(SubSeq(Stretch(n), 1, m)) = m
      /\ \A i \in 1 .. m : SubSeq(Stretch(n), 1, m)[i] = Stretch(n)[i]
  <2>1. 1 \in Int /\ m \in Int /\ (m = 0 \/ 1 <= m)
    BY <1>0
  <2>2. \A i \in 1 .. m : 1 + i - 1 = i
    BY <1>0
  <2> QED BY <1>0, <1>2, <2>1, <2>2, SubSeqProperties
<1> QED BY <1>1, <1>2, <1>3, SeqEqual

\* A stretch is along a chain iff it is a prefix of it.
LEMMA AlongIsPrefix ==
    ASSUME TypeInv, NEW n \in 0 .. MaxHeight
    PROVE  /\ Follower!IsPrefixOf(Stretch(n), chain) <=> OnBestChain(n)
           /\ OnBestChain(n) => Stretch(n) = SubSeq(chain, 1, n)
<1>0. n \in Nat /\ chain \in Seq(Hashes) /\ Len(chain) \in Nat
  BY StoreAssumption, ChainFacts, LenProperties DEF TypeInv, TypeOK
<1> DEFINE B == Hashes \union {None}
<1>1. /\ Stretch(n) \in Seq(B) /\ Len(Stretch(n)) = n
      /\ \A i \in 1 .. n : Stretch(n)[i] = hashes[i - 1]
  BY StretchType
<1>2. ASSUME n <= Len(chain)
      PROVE  /\ SubSeq(chain, 1, n) \in Seq(B) /\ Len(SubSeq(chain, 1, n)) = n
             /\ \A i \in 1 .. n : SubSeq(chain, 1, n)[i] = chain[i]
  <2>1. \A i \in 1 .. n : chain[i] \in B
    BY <1>0, <1>2, ElementOfSeq
  <2>2. 1 \in Int /\ n \in Int /\ (n = 0 \/ 1 <= n)
    BY <1>0
  <2>3. \A i \in 1 .. n : 1 + i - 1 = i
    BY <1>0
  <2> HIDE DEF B
  <2> QED BY <1>0, <2>1, <2>2, <2>3, SubSeqProperties
<1>3. ASSUME OnBestChain(n) PROVE Stretch(n) = SubSeq(chain, 1, n)
  <2>1. n <= Len(chain) /\ \A h \in 0 .. n - 1 : hashes[h] = chain[h + 1]
    BY <1>3 DEF OnBestChain, Along
  <2>2. \A i \in 1 .. n : hashes[i - 1] = chain[i]
    <3> TAKE i \in 1 .. n
    <3>1. i - 1 \in 0 .. n - 1 /\ (i - 1) + 1 = i
      BY <1>0
    <3> QED BY <2>1, <3>1
  <2> HIDE DEF B
  <2> QED BY <1>1, <1>2, <2>1, <2>2, SeqEqual
<1>4. ASSUME Follower!IsPrefixOf(Stretch(n), chain) PROVE OnBestChain(n)
  <2>1. n <= Len(chain) /\ Stretch(n) = SubSeq(chain, 1, n)
    BY <1>1, <1>4 DEF Follower!IsPrefixOf
  <2>2. \A h \in 0 .. n - 1 : hashes[h] = chain[h + 1]
    <3> TAKE h \in 0 .. n - 1
    <3>1. h + 1 \in 1 .. n /\ (h + 1) - 1 = h
      BY <1>0
    <3>2. Stretch(n)[h + 1] = hashes[(h + 1) - 1]
      BY <1>1, <3>1
    <3>3. SubSeq(chain, 1, n)[h + 1] = chain[h + 1]
      BY <1>2, <2>1, <3>1
    <3> QED BY <2>1, <3>1, <3>2, <3>3
  <2> QED BY <2>1, <2>2 DEF OnBestChain, Along
<1>5. ASSUME OnBestChain(n) PROVE Follower!IsPrefixOf(Stretch(n), chain)
  <2>1. n <= Len(chain)
    BY <1>5 DEF OnBestChain, Along
  <2>2. Len(Stretch(n)) = n /\ Stretch(n) = SubSeq(chain, 1, n)
    BY <1>1, <1>3, <1>5
  <2> HIDE DEF B
  <2> QED BY <2>1, <2>2 DEF Follower!IsPrefixOf
<1> QED BY <1>3, <1>4, <1>5

\* A step that leaves the synchronised stretch alone stutters, or moves the chain.
LEMMA FollowedStays ==
    ASSUME TypeInv, SyncedUntouched, chain' \in Chains
    PROVE  [Follower!Next]_(Follower!vars)
<1>1. SyncedLength \in Nat
  BY StoreAssumption DEF SyncedLength, TypeInv, TypeOK
<1>2. \A i \in 1 .. SyncedLength : i - 1 \in 0 .. SyncedLength - 1
  BY <1>1
<1>3. Followed' = Followed
  BY <1>2 DEF SyncedUntouched, Followed
<1> QED BY <1>3 DEF Follower!Next, Follower!ChainMoves

\* Saving the height extends the stretch along the best chain.
LEMMA SaveExtends ==
    ASSUME TypeInv, CoverInv, FollowInv, SaveSyncHeight, TypeInv'
    PROVE  [Follower!Next]_(Follower!vars)
<1>1. /\ pc = "save" /\ pc' # "rollbackSync" /\ syncHeight' = currentHeight
      /\ UNCHANGED <<chain, hashes>>
  BY DEF SaveSyncHeight, Goto, callerVars
<1>2. /\ syncHeight \in 0 .. MaxHeight /\ currentHeight \in 0 .. MaxHeight
      /\ syncHeight \in Nat /\ currentHeight \in Nat /\ syncHeight <= currentHeight
      /\ chain \in Chains /\ Len(chain) \in Nat
  BY <1>1, StoreAssumption, ChainFacts, LenProperties DEF CoverInv, TypeInv, TypeOK
<1>3. OnBestChain(currentHeight)
  BY <1>1 DEF FollowInv, Checked, InBatch
<1>4. OnBestChain(syncHeight) /\ currentHeight <= Len(chain)
  BY <1>2, <1>3, AlongPrefix DEF OnBestChain, Along
<1>5. Followed = Stretch(syncHeight) /\ Followed' = Stretch(currentHeight)
  BY <1>1 DEF Followed, SyncedLength, Stretch
<1>6. CASE syncHeight = currentHeight
  BY <1>1, <1>5, <1>6 DEF Follower!vars
<1>7. CASE syncHeight # currentHeight
  <2>1. Follower!IsPrefixOf(Followed, chain) /\ Len(Followed) = syncHeight
    BY <1>2, <1>4, <1>5, AlongIsPrefix, StretchType
  <2>2. Followed' = SubSeq(chain, 1, currentHeight)
    BY <1>2, <1>3, <1>5, AlongIsPrefix
  <2>3. currentHeight \in Len(Followed) + 1 .. Len(chain)
    BY <1>2, <1>4, <1>7, <2>1
  <2> QED BY <1>1, <2>1, <2>2, <2>3 DEF Follower!Next, Follower!Extend
<1> QED BY <1>6, <1>7

\* Deleting the hashes above the common block cuts the stretch back to it.
LEMMA RollbackRewinds ==
    ASSUME TypeInv, CoverInv, FollowInv, RollbackHashes, TypeInv'
    PROVE  [Follower!Next]_(Follower!vars)
<1>0. /\ syncHeight \in Nat /\ probe \in Nat /\ syncHeight \in 0 .. MaxHeight
      /\ probe < syncHeight /\ probe + 1 \in 0 .. MaxHeight /\ MaxHeight \in Nat
      /\ chain \in Chains /\ Len(chain) \in Nat
  BY StoreAssumption, ChainFacts, LenProperties
     DEF CoverInv, TypeInv, TypeOK, RollbackHashes, BeforeHashesGo, Heights
<1>1. /\ pc = "rollbackHashes" /\ pc' = "rollbackSync" /\ startHeight' = probe + 1
      /\ UNCHANGED chain
      /\ \A h \in 0 .. probe : hashes'[h] = hashes[h]
  BY <1>0 DEF RollbackHashes, Goto, DeleteBlockHashesAbove, Heights, callerVars
<1>2. /\ OnBestChain(probe + 1) /\ syncHeight <= Len(chain)
      /\ \A h \in probe + 1 .. syncHeight - 1 : hashes[h] # chain[h + 1]
      /\ hashes[syncHeight - 1] # chain[(syncHeight - 1) + 1]
  BY <1>1 DEF FollowInv, Common, Forked, BeforeHashesGo, BlockAt
<1>3. Followed = Stretch(syncHeight)
  BY <1>1 DEF Followed, SyncedLength, Stretch
<1>4. Followed' = Stretch(probe + 1)
  <2>1. SyncedLength' = probe + 1
    BY <1>1 DEF SyncedLength
  <2>2. \A i \in 1 .. probe + 1 : i - 1 \in 0 .. probe
    BY <1>0
  <2> QED BY <1>1, <2>1, <2>2 DEF Followed, Stretch
<1>5. \A m \in (probe + 1) + 1 .. syncHeight : ~OnBestChain(m)
  <2> SUFFICES ASSUME NEW m \in (probe + 1) + 1 .. syncHeight, OnBestChain(m)
               PROVE  FALSE
    OBVIOUS
  <2>1. m - 1 \in 0 .. m - 1 /\ m - 1 \in probe + 1 .. syncHeight - 1
    BY <1>0
  <2>2. hashes[m - 1] = chain[(m - 1) + 1]
    BY <2>1 DEF OnBestChain, Along
  <2> QED BY <1>2, <2>1, <2>2
<1>6. ~OnBestChain(syncHeight)
  <2>1. syncHeight - 1 \in 0 .. syncHeight - 1
    BY <1>0
  <2> QED BY <1>2, <2>1 DEF OnBestChain, Along
<1>7. /\ Len(Followed) = syncHeight
      /\ \A m \in 0 .. syncHeight :
            Follower!IsPrefixOf(SubSeq(Followed, 1, m), chain) <=> OnBestChain(m)
      /\ ~Follower!IsPrefixOf(Followed, chain)
  <2>1. Len(Followed) = syncHeight /\ ~Follower!IsPrefixOf(Followed, chain)
    BY <1>0, <1>3, <1>6, StretchType, AlongIsPrefix
  <2>2. ASSUME NEW m \in 0 .. syncHeight
        PROVE  Follower!IsPrefixOf(SubSeq(Followed, 1, m), chain) <=> OnBestChain(m)
    <3>1. SubSeq(Followed, 1, m) = Stretch(m)
      BY <1>0, <1>3, StretchPrefix
    <3>2. m \in 0 .. MaxHeight
      BY <1>0
    <3> QED BY <3>1, <3>2, AlongIsPrefix
  <2> QED BY <2>1, <2>2
<1>8. Follower!CommonLength(Followed, chain) = probe + 1
  <2> DEFINE P(n) == /\ Follower!IsPrefixOf(SubSeq(Followed, 1, n), chain)
                     /\ \A m \in n + 1 .. Len(Followed) :
                           ~Follower!IsPrefixOf(SubSeq(Followed, 1, m), chain)
  <2>1. probe + 1 \in 0 .. syncHeight
    BY <1>0
  <2>2. P(probe + 1)
    <3>1. \A m \in (probe + 1) + 1 .. syncHeight : m \in 0 .. syncHeight
      BY <1>0
    <3> QED BY <1>2, <1>5, <1>7, <2>1, <3>1
  <2>3. ASSUME NEW n \in 0 .. syncHeight, P(n) PROVE n = probe + 1
    <3>1. CASE n > probe + 1
      <4>1. n \in (probe + 1) + 1 .. syncHeight
        BY <1>0, <3>1
      <4> QED BY <1>5, <1>7, <2>3, <4>1
    <3>2. CASE n < probe + 1
      <4>1. probe + 1 \in n + 1 .. syncHeight
        BY <1>0, <3>2
      <4> QED BY <1>2, <1>7, <2>1, <2>3, <4>1
    <3> QED BY <1>0, <3>1, <3>2
  <2> HIDE DEF P
  <2>4. (CHOOSE n \in 0 .. syncHeight : P(n)) = probe + 1
    BY <2>1, <2>2, <2>3
  <2> QED BY <1>7, <2>4 DEF P, Follower!CommonLength
<1>9. Followed' = SubSeq(Followed, 1, probe + 1)
  BY <1>0, <1>3, <1>4, StretchPrefix
<1> QED
  BY <1>1, <1>7, <1>8, <1>9 DEF Follower!Next, Follower!Rewind

\* Only the save of a height and the deletion of the hashes touch the
\* synchronised stretch.
LEMMA FollowedWriters ==
    ASSUME OrderlyStorage, SteadyDaemon, TypeInv, CoverInv, FollowInv,
           rescanCall = NoRescan, Next, ~SaveSyncHeight, ~RollbackHashes
    PROVE  SyncedUntouched
<1>1. CASE \/ GetInfo \/ Recheck \/ TipMatches \/ TipDiffers \/ AncestorFound
           \/ AncestorLower \/ SyncEnds \/ BatchDone \/ GetBlock
           \/ GetTransactions \/ TransactionFails
  <2>1. UNCHANGED <<hashes, syncHeight, startHeight>>
        /\ pc # "rollbackSync" /\ pc' # "rollbackSync"
    BY <1>1 DEF GetInfo, Recheck, TipMatches, TipDiffers, AncestorFound,
         AncestorLower, SyncEnds, BatchDone, GetBlock, MoreHeaders,
         GetTransactions, TransactionFails, NextTransaction, Goto, storeVars, heightVars
  <2> QED BY <2>1 DEF SyncedUntouched, SyncedLength
<1>2. CASE \/ RollbackOutputs \/ RollbackTransactions \/ RollbackSpends
           \/ MarkInput \/ RecordTransaction
  <2>1. UNCHANGED <<hashes, syncHeight, startHeight>>
        /\ pc # "rollbackSync" /\ pc' # "rollbackSync"
    BY <1>2 DEF RollbackOutputs, RollbackTransactions, RollbackSpends,
         MarkInput, RecordTransaction, NextTransaction, Goto, heightVars
  <2> QED BY <2>1 DEF SyncedUntouched, SyncedLength
<1>3. CASE RollbackSyncHeight
  BY <1>3 DEF RollbackSyncHeight, Goto, heightVars, SyncedUntouched, SyncedLength
<1>4. CASE PutHash
  <2>1. /\ currentHeight \in Heights /\ currentHeight >= syncHeight
        /\ syncHeight \in Nat /\ currentHeight \in Nat
    BY <1>4, CurrentHeightInBlock, StoreAssumption
       DEF PutHash, InBlock, CoverInv, TypeInv, TypeOK, Heights
  <2>2. \A h \in 0 .. syncHeight - 1 : h # currentHeight /\ h \in Heights
    BY <2>1, StoreAssumption DEF Heights
  <2>3. /\ hashes' = [hashes EXCEPT ![currentHeight] = Head(headers)]
        /\ UNCHANGED <<syncHeight, startHeight>>
        /\ pc # "rollbackSync" /\ pc' # "rollbackSync"
    BY <1>4 DEF PutHash, PutBlockHash, Goto
  <2>4. hashes \in [Heights -> Hashes \union {None}]
    BY DEF TypeInv, TypeOK
  <2> QED BY <2>2, <2>3, <2>4 DEF SyncedUntouched, SyncedLength
<1>5. CASE \/ \E t \in Txs : SkipTransaction(t) \/ TakeTransaction(t)
           \/ \E o \in Outs : PutOwnedOutput(o)
           \/ \E k \in Keys : CheckInput(k)
           \/ \E n \in 1 .. MaxBatch : GetHeaders(n)
  <2>1. UNCHANGED <<hashes, syncHeight, startHeight>>
        /\ pc # "rollbackSync" /\ pc' # "rollbackSync"
    BY <1>5 DEF SkipTransaction, TakeTransaction, PutOwnedOutput, CheckInput,
         GetHeaders, Goto, storeVars, heightVars
  <2> QED BY <2>1 DEF SyncedUntouched, SyncedLength
<1>6. ASSUME Fail, pc # "rollbackSync" PROVE SyncedUntouched
  BY <1>6 DEF Fail, Goto, SyncedUntouched, SyncedLength, storeVars
<1>7. CASE \/ GetInfoFails \/ GetBlockFails \/ StoreFails \/ RollbackFails
           \/ \E n \in 1 .. MaxBatch : GetHeadersFails(n)
  BY <1>6, <1>7 DEF GetInfoFails, GetBlockFails, StoreFails, RollbackFails,
       GetHeadersFails, MoreHeaders, OrderlyStorage, WholeRollbacks
<1>8. CASE ChainMoves \/ Stop
  BY <1>8 DEF ChainMoves, Stop, SyncedUntouched, SyncedLength, storeVars,
       engineVars, heightVars
<1>9. CASE Crash \/ RescanSetHeight \/ RescanStart \/ \E h \in RescanHeights : RescanClear(h)
  BY <1>9, NobodyRescans
<1>10. CASE \E h \in StartHeights \union {None} : Start(h)
  BY <1>10 DEF Start, Begin, Goto, TypeInv, SyncedUntouched, SyncedLength, storeVars
<1> QED
  BY <1>1, <1>2, <1>3, <1>4, <1>5, <1>7, <1>8, <1>9, <1>10
     DEF Next, EngineStep, CallerStep

\* Every step of the engine, its callers and the daemon is a step of the
\* follower or changes nothing of it.
LEMMA FollowerStep ==
    ASSUME OrderlyStorage, SteadyDaemon, TypeInv, CoverInv, FollowInv,
           rescanCall = NoRescan, [Next]_vars
    PROVE  [Follower!Next]_(Follower!vars)
<1>1. TypeInv' /\ chain' \in Chains
  BY NextTypeInv DEF TypeInv, TypeOK
<1>2. CASE UNCHANGED vars
  BY <1>2 DEF vars, callerVars, storeVars, engineVars, heightVars, Follower!vars,
       Followed, SyncedLength
<1>3. CASE SaveSyncHeight
  BY <1>1, <1>3, SaveExtends
<1>4. CASE RollbackHashes
  BY <1>1, <1>4, RollbackRewinds
<1>5. CASE Next /\ ~SaveSyncHeight /\ ~RollbackHashes
  BY <1>1, <1>5, FollowedWriters, FollowedStays
<1> QED BY <1>2, <1>3, <1>4, <1>5

\* A new wallet follows from nothing.
LEMMA FollowerInit == Init => Follower!Init
<1> SUFFICES ASSUME Init PROVE Follower!Init
  OBVIOUS
<1>1. SyncedLength = 0
  BY DEF Init, SyncedLength
<1>2. Followed = <<>>
  BY <1>1 DEF Followed
<1> QED BY <1>2 DEF Init, Follower!Init

\* The synchronisation engine (start, _detectReorg, _findCommonAncestor,
\* _handleWalletReorg and _syncBatch) implements ChainFollower: as long as the
\* chain reorganises between syncs only, the daemon answers and no crash or
\* storage failure separates the steps of a rollback, what is saved as
\* synchronised grows along the best chain only and is cut back only to the
\* last block it has in common with it.  Transactions may be skipped or given
\* up, and the sync stopped, anywhere.
THEOREM EngineFollowsChain ==
    ASSUME OrderlyStorage, SteadyDaemon
    PROVE  Spec => FollowsChain
<1> DEFINE Inv == TypeInv /\ CoverInv /\ FollowInv /\ rescanCall = NoRescan
<1>1. Init => Inv /\ Follower!Init
  BY InitTypeInv, InitCoverInv, InitFollowInv, FollowerInit DEF Init
<1>2. Inv /\ [Next]_vars => Inv' /\ [Follower!Next]_(Follower!vars)
  BY FollowInvStep, FollowerStep
<1> QED
  BY <1>1, <1>2, PTL DEF Spec, FollowsChain, Follower!Spec

\* When the tip is the best chain's, so is every stored hash below it.
LEMMA TipVouches ==
    ASSUME TypeInv, FollowInv
    PROVE  HashesExact
<1> SUFFICES ASSUME AgreesOnTip
             PROVE  \A h \in 0 .. syncHeight - 1 : hashes[h] = BlockAt(h)
  BY DEF HashesExact
<1>1. PICK c \in Chains : Along(c, syncHeight)
  BY DEF FollowInv, Rooted, SyncedLength, AgreesOnTip, TypeInv
<1>2. /\ syncHeight \in Nat /\ syncHeight - 1 \in Nat /\ syncHeight - 1 < syncHeight
      /\ syncHeight - 1 < Len(chain) /\ (syncHeight - 1) + 1 = syncHeight
      /\ hashes[syncHeight - 1] = chain[(syncHeight - 1) + 1] /\ chain \in Chains
  BY ChainFacts, LenProperties DEF AgreesOnTip, BlockAt, TypeInv, TypeOK
<1>3. Along(chain, (syncHeight - 1) + 1)
  BY <1>1, <1>2, HistoryCommits
<1> QED BY <1>2, <1>3 DEF Along, BlockAt

\* What AgreesOnTip says of the tip then holds of every block below it: the walk
\* back of _findCommonAncestor stops at a real common ancestor.
THEOREM TipVouchesForAll ==
    ASSUME OrderlyStorage, SteadyDaemon
    PROVE  Spec => []HashesExact
<1> DEFINE Inv == TypeInv /\ CoverInv /\ FollowInv /\ rescanCall = NoRescan
<1>1. Init => Inv
  BY InitTypeInv, InitCoverInv, InitFollowInv DEF Init
<1>2. Inv /\ [Next]_vars => Inv'
  BY FollowInvStep
<1>3. Inv => HashesExact
  BY TipVouches
<1> QED BY <1>1, <1>2, <1>3, PTL DEF Spec
=============================================================================
