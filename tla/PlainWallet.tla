---------------------------- MODULE PlainWallet ----------------------------
(***************************************************************************)
(* The Wallet class without a store: it reads the blocks of a daemon one by  *)
(* one, keeps its outputs in memory, hands out subaddresses, and is written  *)
(* to JSON and made again from it.  Several sync() calls may be under way:    *)
(* each waits for the daemon between its steps.                              *)
(***************************************************************************)
EXTENDS Integers, FiniteSets, Sequences, SequencesExt, Functions

CONSTANTS
    WalletKinds,    \* a subset of WALLET_TYPE
    DaemonBlocks,   \* the blocks, from height 0: what they pay to the wallet and spend
    FirstBlocks,    \* how many of them there are at first
    Handed,         \* outputs that the program gives the wallet itself
    PerBatch,       \* batchSize
    Programs,       \* the sets of methods that a program uses
    MostSyncs, MostBegun, MostRefused, MostCalls,
                    \* bounds: syncs at once and in all, refused answers, calls
    MostAccounts, AskedMinors           \* bounds: accounts, subaddresses asked for

ASSUME PlainAssumption ==
    /\ PerBatch \in Nat \ {0} /\ MostAccounts \in Nat \ {0}
    /\ Len(DaemonBlocks) \in Nat /\ FirstBlocks \in 1 .. Len(DaemonBlocks) /\ AskedMinors \subseteq Nat

VARIABLES
    plain,      \* the wallet; uses: the methods that the program calls
    subs,       \* its accounts and subaddresses
    syncs,      \* the sync() calls under way
    timers,     \* intervals set by startSyncing: the one it remembers, and others
    served,     \* the daemon: blocks it has, answers it refused
    fate        \* of each height: whether this wallet has seen it

plainVars == <<plain, subs, syncs, timers, served, fate>>

DaemonHeights == 0 .. Len(DaemonBlocks) - 1
DaemonBlock(h) == DaemonBlocks[h + 1]
CanSign == plain.kind = "full"
CanScan == plain.kind # "watch"

\* The constructor.
NewWallet(kind, uses) ==
    [kind |-> kind, height |-> 0, utxos |-> {}, spent |-> {}, syncing |-> FALSE,
     calls |-> 0, begun |-> 0, uses |-> uses]

PlainInit ==
    /\ plain \in {NewWallet(k, u) : k \in WalletKinds, u \in Programs}
    /\ subs = [accounts |-> 1, next |-> [a \in {0} |-> 1], cached |-> {}, given |-> {}, again |-> {},
               early |-> {}]
    /\ syncs = {} /\ timers = [known |-> FALSE, others |-> 0]
    /\ served = [blocks |-> FirstBlocks, refused |-> 0]
    /\ fate = [h \in DaemonHeights |-> "unseen"]

\* A call of the program.
Calls(method, change) ==
    /\ method \in plain.uses /\ plain.calls < MostCalls
    /\ plain' = [change EXCEPT !.calls = plain.calls + 1]

-----------------------------------------------------------------------------
(* Outputs. *)

\* What addOutput pushes: only a wallet that can sign knows the key image.  The
\* lists are sets here: an output that is read twice is pushed twice.
Utxo(w, o) == [id |-> o.id, asset |-> o.asset, image |-> w.kind = "full"]

\* Seeded fault: an output that is known as spent is listed all the same.
AddOutput_SpentToo(w, o) == [w EXCEPT !.utxos = @ \union {Utxo(w, o)}]

\* addOutput: only by the key image an output is known as spent.
AddOutput(w, o) ==
    IF w.kind = "full" /\ o.id \in w.spent THEN w
    ELSE [w EXCEPT !.utxos = @ \union {Utxo(w, o)}]

\* markSpent: out of the lists of all assets.
MarkSpent(w, ids) ==
    LET spent == w.spent \union ids
    IN [w EXCEPT !.spent = spent, !.utxos = {u \in @ : ~(u.image /\ u.id \in spent)}]

\* _processTransaction on outputs found by scanTransaction, then _processBlock on
\* what the inputs spend.  What is found has an outputKey and no publicKey: no key
\* image can be computed for it.
Throws(w, tx) == w.kind = "full" /\ tx.pays # <<>>
ProcessTransaction(w, tx) ==
    LET listed == [w EXCEPT !.utxos = @ \union UNION {AddOutput(w, o).utxos : o \in ToSet(tx.pays)}]
        known == {u.id : u \in {v \in listed.utxos : v.image}}
    IN MarkSpent(listed, known \intersect tx.spends)

UserAddsOutput == \E o \in Handed :
    /\ Calls("addOutput", AddOutput(plain, o))
    /\ UNCHANGED <<subs, syncs, timers, served, fate>>
UserMarksSpent == \E o \in Handed :
    /\ Calls("markSpent", MarkSpent(plain, {o.id}))
    /\ UNCHANGED <<subs, syncs, timers, served, fate>>

-----------------------------------------------------------------------------
(* sync(): the height it starts from is read before the first answer. *)

NewSync(start, first) ==
    [id |-> CHOOSE n \in 1 .. MostSyncs : \A s \in syncs : s.id # n,
     at |-> start, end |-> 0, heads |-> <<>>, stage |-> "info", first |-> first]

\* What a start further up passes over is not looked at.
PassedOver(from, to) ==
    [h \in DaemonHeights |-> IF h \in from .. to - 1 /\ fate[h] = "unseen" THEN "missed" ELSE fate[h]]

\* The call, from the program, startSyncing or an interval.
Begun(w) == [w EXCEPT !.begun = @ + 1]
BeginSync(start, first) ==
    /\ CanScan /\ Cardinality(syncs) < MostSyncs /\ plain.begun < MostBegun
    /\ syncs' = syncs \union {NewSync(start, first)}

UserSyncs == \E start \in {plain.height, 0, served.blocks - 1} :
    /\ Calls("sync", Begun(plain)) /\ BeginSync(start, FALSE)
    /\ fate' = PassedOver(plain.height, start)
    /\ UNCHANGED <<subs, timers, served>>

StartSyncing ==
    /\ ~plain.syncing /\ Calls("startSyncing", Begun([plain EXCEPT !.syncing = TRUE]))
    /\ \/ BeginSync(plain.height, TRUE) /\ UNCHANGED timers
       \/ ~CanScan /\ UNCHANGED syncs
          /\ timers' = [known |-> TRUE, others |-> timers.others + IF timers.known THEN 1 ELSE 0]
    /\ UNCHANGED <<subs, served, fate>>

StopSyncing ==
    /\ Calls("stopSyncing", [plain EXCEPT !.syncing = FALSE]) /\ timers' = [timers EXCEPT !.known = FALSE]
    /\ UNCHANGED <<subs, syncs, served, fate>>

\* Each interval syncs while the wallet is meant to.
Tick ==
    /\ plain.syncing /\ (timers.known \/ timers.others > 0)
    /\ BeginSync(plain.height, FALSE) /\ plain' = Begun(plain)
    /\ UNCHANGED <<subs, timers, served, fate>>

Refuse == served.refused < MostRefused /\ served' = [served EXCEPT !.refused = @ + 1]
Move(s, t) == syncs' = (syncs \ {s}) \union {t}

\* The call is over, with or without an error; the first one sets the interval.
Over(s) ==
    /\ syncs' = syncs \ {s}
    /\ timers' = IF s.first
                 THEN [known |-> TRUE, others |-> timers.others + IF timers.known THEN 1 ELSE 0]
                 ELSE timers

InfoAnswers(s) ==
    /\ s.stage = "info"
    /\ \/ /\ Move(s, [s EXCEPT !.stage = "headers", !.end = served.blocks])
          /\ UNCHANGED <<served, timers>>
       \/ Refuse /\ Over(s)
    /\ UNCHANGED <<plain, subs, fate>>

\* The heights of a batch.
Batch(s) == [i \in 1 .. Min({s.at + PerBatch, s.end}) - s.at |-> s.at + i - 1]

HeadersAnswer(s) ==
    /\ s.stage = "headers"
    /\ \/ s.at >= s.end /\ Over(s) /\ UNCHANGED <<served, fate>>
       \/ /\ s.at < s.end
          /\ Move(s, [s EXCEPT !.heads = Batch(s), !.at = @ + PerBatch, !.stage = "block"])
          /\ UNCHANGED <<served, timers, fate>>
       \/ /\ s.at < s.end /\ Refuse
          /\ Move(s, [s EXCEPT !.at = @ + PerBatch])
          /\ fate' = PassedOver(s.at, Min({s.at + PerBatch, s.end}))
          /\ UNCHANGED timers
    /\ UNCHANGED <<plain, subs>>

\* Seeded fault: the end of a batch is not noticed.
NextHead_Endless(s) == [s EXCEPT !.heads = Tail(@), !.stage = "block"]

\* On to the next header of the batch.
NextHead(s) ==
    LET rest == Tail(s.heads)
    IN [s EXCEPT !.heads = rest, !.stage = IF rest = <<>> THEN "headers" ELSE "block"]

\* getBlock answers: the miner transaction is read at once.
BlockAnswers(s) ==
    /\ s.stage = "block"
    /\ LET h == Head(s.heads)
           miner == DaemonBlock(h).miner
       IN \/ /\ ~Throws(plain, miner) /\ plain' = ProcessTransaction(plain, miner)
             /\ Move(s, [s EXCEPT !.stage = "txs"])
             /\ UNCHANGED <<served, timers, fate>>
          \/ Throws(plain, miner) /\ Over(s) /\ UNCHANGED <<plain, served, fate>>
          \/ /\ Refuse /\ Move(s, NextHead(s)) /\ fate' = PassedOver(h, h + 1)
             /\ UNCHANGED <<plain, timers>>
    /\ UNCHANGED subs

\* getTransactions answers, or does not: the block counts as read either way.
TransactionsAnswer(s) ==
    /\ s.stage = "txs"
    /\ LET h == Head(s.heads)
           tx == DaemonBlock(h).tx
       IN \/ /\ ~Throws(plain, tx)
             /\ plain' = [ProcessTransaction(plain, tx) EXCEPT !.height = h]
             /\ fate' = [fate EXCEPT ![h] = "read"]
             /\ Move(s, NextHead(s)) /\ UNCHANGED <<served, timers>>
          \/ Throws(plain, tx) /\ Over(s) /\ UNCHANGED <<plain, served, fate>>
          \/ /\ Refuse /\ plain' = [plain EXCEPT !.height = h]
             /\ fate' = PassedOver(h, h + 1)
             /\ Move(s, NextHead(s)) /\ UNCHANGED timers
    /\ UNCHANGED subs

BlockComes ==
    /\ served.blocks < Len(DaemonBlocks) /\ served' = [served EXCEPT !.blocks = @ + 1]
    /\ UNCHANGED <<plain, subs, syncs, timers, fate>>

-----------------------------------------------------------------------------
(* Accounts and subaddresses. *)

SetNext(next, a, index) ==
    [x \in DOMAIN next \union {a} |-> IF x = a THEN index ELSE next[x]]

NextIndex(a) == IF a \in DOMAIN subs.next THEN subs.next[a] ELSE 1

\* getSubaddress: what it has made already it returns from its cache.
GetSubaddress(book, major, minor) ==
    IF <<major, minor>> \in book.cached \union {<<0, 0>>} \/ ~CanScan THEN book
    ELSE [book EXCEPT !.cached = @ \union {<<major, minor>>},
                      !.next = IF minor >= NextIndex(major) THEN SetNext(@, major, minor + 1) ELSE @]

AskSubaddress == \E major \in 0 .. MostAccounts - 1, minor \in AskedMinors :
    LET book == GetSubaddress(subs, major, minor) IN
    /\ Calls("getSubaddress", plain)
    /\ subs' = [book EXCEPT !.early = IF major >= subs.accounts THEN @ \union {major} ELSE @]
    /\ UNCHANGED <<syncs, timers, served, fate>>

CreateAccount ==
    /\ subs.accounts < MostAccounts /\ Calls("createAccount", plain)
    /\ subs' = [subs EXCEPT !.accounts = @ + 1, !.next = SetNext(@, subs.accounts, 1)]
    /\ UNCHANGED <<syncs, timers, served, fate>>

CreateSubaddress == \E a \in 0 .. subs.accounts - 1 :
    LET minor == NextIndex(a)
        new == <<a, minor>>
    IN /\ CanScan \/ new \in subs.cached
       /\ Calls("createSubaddress", plain)
       /\ subs' = [GetSubaddress(subs, a, minor) EXCEPT
                     !.given = @ \union {new},
                     !.again = IF new \in subs.given THEN @ \union {a} ELSE @]
       /\ UNCHANGED <<syncs, timers, served, fate>>

-----------------------------------------------------------------------------
(* toJSON and fromJSON, in another run of the program: nothing of the old     *)
(* object goes on.  The height is kept, the outputs below it are not.         *)

Restored(secrets) ==
    IF secrets THEN plain.kind ELSE "watch"

Restore == \E secrets \in BOOLEAN :
    /\ Calls("fromJSON", [plain EXCEPT !.kind = Restored(secrets), !.utxos = {}, !.spent = {},
                           !.syncing = FALSE])
    /\ subs' = [subs EXCEPT !.cached = {}]
    /\ syncs' = {} /\ timers' = [known |-> FALSE, others |-> 0]
    /\ fate' = [h \in DaemonHeights |-> IF fate[h] = "read" THEN "missed" ELSE fate[h]]
    /\ UNCHANGED served

PlainNext ==
    \/ UserAddsOutput \/ UserMarksSpent
    \/ UserSyncs \/ StartSyncing \/ StopSyncing \/ Tick \/ BlockComes
    \/ \E s \in syncs :
          InfoAnswers(s) \/ HeadersAnswer(s) \/ BlockAnswers(s) \/ TransactionsAnswer(s)
    \/ AskSubaddress \/ CreateAccount \/ CreateSubaddress \/ Restore

-----------------------------------------------------------------------------
PlainTypeOK ==
    /\ plain.height \in DaemonHeights /\ subs.accounts \in 1 .. MostAccounts
    /\ \A s \in syncs : s.end <= served.blocks /\ (s.stage \in {"block", "txs"} => s.heads # <<>>)

\* Nothing that the wallet knows as spent is listed, in whatever order outputs,
\* spends and syncs come.
SpentIsNotListed == \A u \in plain.utxos : ~(u.image /\ u.id \in plain.spent)

\* Below its height, the wallet has read every block, or the daemon refused an
\* answer there, or somebody chose to start above it; and what it read is listed.
NothingPassedOver ==
    /\ \A h \in 0 .. plain.height - 1 : fate[h] # "unseen"
    /\ \A h \in DaemonHeights : fate[h] = "read" /\ plain.kind = "view_only" =>
          \A o \in ToSet(DaemonBlock(h).miner.pays) \union ToSet(DaemonBlock(h).tx.pays) :
             \E u \in plain.utxos : u.id = o.id

\* createSubaddress does not hand out an index twice, restored or not, but in an
\* account whose subaddresses were asked for before there was the account.
FreshIndices == subs.again \subseteq subs.early

PlainHolds == SpentIsNotListed /\ NothingPassedOver /\ FreshIndices
=============================================================================
