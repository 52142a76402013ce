--------------------------- MODULE WalletNodeProofs ---------------------------
(***************************************************************************)
(* The wallet that keeps no store, the node of the testnet, the manager of    *)
(* connections and the failover of the RPC client: no subaddress is handed out *)
(* twice, what the wallet lists is what the chain holds, no output is spent in *)
(* two blocks and every ring resolves, there is a current connection while      *)
(* there is any, and a call is answered while one server lives, in whatever    *)
(* order what is asked for, sent and answered comes.                        *)
(***************************************************************************)
EXTENDS Testnet, PlainWallet, Failover, RpcClient, FiniteSetTheorems, SequenceTheorems,
        WellFoundedInduction, TLAPS

-----------------------------------------------------------------------------
(***************************************************************************)
(* Subaddresses of the wallet without a store                               *)
(***************************************************************************)
\* The records of accounts and subaddresses; the next index of an account is
\* above 0, which is the primary address.
Pairs == Nat \X Nat
NextTables == UNION {[D -> Nat \ {0}] : D \in SUBSET Nat}
Books == [accounts : Nat \ {0}, next : NextTables, cached : SUBSET Pairs,
          given : SUBSET Pairs, again : SUBSET Nat, early : SUBSET Nat]

\* The next index of account a in a record.
NextIn(book, a) == IF a \in DOMAIN book.next THEN book.next[a] ELSE 1

\* The inductive invariant: what was made or handed out is below the next index
\* of its account, and what is known of an account before there is one was asked
\* for early.
GoodBook(book) ==
    /\ book \in Books
    /\ \A a, m \in Nat : <<a, m>> \in book.cached \union book.given =>
          a \in book.early \/ m < NextIn(book, a)
    /\ \A a, m \in Nat : <<a, m>> \in book.cached => a < book.accounts \/ a \in book.early
    /\ \A a, m \in Nat : <<a, m>> \in book.given => a < book.accounts
    /\ book.again \subseteq book.early

\* Table u is table t with m as the entry of account a.
SetAt(t, a, m, u) ==
    /\ u \in NextTables
    /\ a \in DOMAIN u /\ u[a] = m
    /\ \A x \in Nat \ {a} :
          /\ x \in DOMAIN u <=> x \in DOMAIN t
          /\ x \in DOMAIN t => u[x] = t[x]

\* The next index of an account is set, and the others stay.
LEMMA NextSet ==
    ASSUME NEW t \in NextTables, NEW a \in Nat, NEW m \in Nat \ {0}
    PROVE  SetAt(t, a, m, SetNext(t, a, m))
  <1> DEFINE u == SetNext(t, a, m)
  <1>1. PICK D \in SUBSET Nat : t \in [D -> Nat \ {0}]
    BY DEF NextTables
  <1>2. u = [x \in D \union {a} |-> IF x = a THEN m ELSE t[x]]
    BY <1>1 DEF SetNext
  <1>3. D \union {a} \in SUBSET Nat /\ u \in [D \union {a} -> Nat \ {0}]
    BY <1>1, <1>2
  <1> HIDE DEF u
  <1>4. u \in NextTables
    BY <1>3 DEF NextTables
  <1>5. a \in DOMAIN u /\ u[a] = m
    BY <1>2
  <1>6. \A x \in Nat \ {a} : (x \in DOMAIN u <=> x \in DOMAIN t) /\ (x \in DOMAIN t => u[x] = t[x])
    BY <1>1, <1>2
  <1> QED
    BY <1>4, <1>5, <1>6 DEF u, SetAt

\* What getSubaddress makes of a record: at most the asked index is new, it is
\* then below the next one, and no next index falls.
Asked(book, new, major, minor) ==
    /\ new \in Books
    /\ new.accounts = book.accounts /\ new.given = book.given
    /\ new.again = book.again /\ new.early = book.early
    /\ \A a \in Nat : NextIn(book, a) <= NextIn(new, a)
    /\ \/ new.cached = book.cached
       \/ /\ new.cached = book.cached \union {<<major, minor>>}
          /\ minor < NextIn(new, major)
    /\ CanScan /\ <<major, minor>> \notin book.cached \union {<<0, 0>>} =>
          minor < NextIn(new, major)

\* getSubaddress of a good record does that.
LEMMA GetSubaddressGood ==
    ASSUME NEW book, GoodBook(book), subs.next = book.next,
           NEW major \in Nat, NEW minor \in Nat
    PROVE  Asked(book, GetSubaddress(book, major, minor), major, minor)
  <1> DEFINE new == GetSubaddress(book, major, minor)
  <1>1. book \in Books /\ book.next \in NextTables
    BY DEF GoodBook, Books
  <1>2. \A a \in Nat : NextIn(book, a) \in Nat \ {0} /\ NextIndex(a) = NextIn(book, a)
    BY <1>1 DEF NextTables, NextIn, NextIndex
  <1>3. CASE <<major, minor>> \in book.cached \union {<<0, 0>>} \/ ~CanScan
    <2>1. new = book
      BY <1>3 DEF GetSubaddress
    <2>2. \A a \in Nat : NextIn(book, a) <= NextIn(new, a)
      BY <1>2, <2>1
    <2> HIDE DEF new
    <2>3. Asked(book, new, major, minor)
      BY <1>1, <1>3, <2>1, <2>2 DEF Asked
    <2> QED
      BY <2>3 DEF new
  <1>4. CASE ~(<<major, minor>> \in book.cached \union {<<0, 0>>} \/ ~CanScan)
    <2> DEFINE table == IF minor >= NextIn(book, major)
                        THEN SetNext(book.next, major, minor + 1) ELSE book.next
    <2>1. new = [book EXCEPT !.cached = @ \union {<<major, minor>>}, !.next = table]
      BY <1>2, <1>4 DEF GetSubaddress
    <2>2. minor + 1 \in Nat \ {0}
      OBVIOUS
    <2>3. /\ table \in NextTables
          /\ minor < IF major \in DOMAIN table THEN table[major] ELSE 1
          /\ \A a \in Nat : NextIn(book, a) <= IF a \in DOMAIN table THEN table[a] ELSE 1
      <3>1. CASE minor >= NextIn(book, major)
        <4>1. table = SetNext(book.next, major, minor + 1)
          BY <3>1
        <4> HIDE DEF table
        <4>2. /\ table \in NextTables
              /\ major \in DOMAIN table /\ table[major] = minor + 1
              /\ \A x \in Nat \ {major} :
                    /\ x \in DOMAIN table <=> x \in DOMAIN book.next
                    /\ x \in DOMAIN book.next => table[x] = book.next[x]
          <5>1. book.next \in NextTables /\ major \in Nat /\ minor + 1 \in Nat \ {0}
            BY <1>1, <2>2
          <5>2. SetAt(book.next, major, minor + 1, table)
            BY <4>1, <5>1, NextSet
          <5> QED
            BY <5>2 DEF SetAt
        <4>3. \A a \in Nat \ {major} :
                 NextIn(book, a) = IF a \in DOMAIN table THEN table[a] ELSE 1
          BY <4>2 DEF NextIn
        <4>4. \A a \in Nat : NextIn(book, a) <= IF a \in DOMAIN table THEN table[a] ELSE 1
          <5>1. NextIn(book, major) <= minor + 1
            BY <1>2, <3>1
          <5>2. \A a \in Nat \ {major} : NextIn(book, a) <= NextIn(book, a)
            BY <1>2
          <5> QED
            BY <4>2, <4>3, <5>1, <5>2
        <4> QED
          BY <4>2, <4>4
      <3>2. CASE ~(minor >= NextIn(book, major))
        <4>1. table = book.next
          BY <3>2
        <4> HIDE DEF table
        <4>2. \A a \in Nat : NextIn(book, a) = IF a \in DOMAIN table THEN table[a] ELSE 1
          BY <4>1 DEF NextIn
        <4>3. minor < NextIn(book, major) /\ \A a \in Nat : NextIn(book, a) <= NextIn(book, a)
          BY <1>2, <3>2
        <4> QED
          BY <1>1, <4>1, <4>2, <4>3
      <3> QED
        BY <3>1, <3>2
    <2> HIDE DEF table, new
    <2>4. <<major, minor>> \in Pairs
      BY DEF Pairs
    <2>5. /\ new \in Books /\ new.next = table
          /\ new.cached = book.cached \union {<<major, minor>>}
          /\ new.accounts = book.accounts /\ new.given = book.given
          /\ new.again = book.again /\ new.early = book.early
      <3>1. new = [accounts |-> book.accounts, next |-> table,
                   cached |-> book.cached \union {<<major, minor>>}, given |-> book.given,
                   again |-> book.again, early |-> book.early]
        BY <1>1, <2>1 DEF Books
      <3> QED
        BY <1>1, <2>3, <2>4, <3>1 DEF Books
    <2>6. \A a \in Nat : NextIn(new, a) = IF a \in DOMAIN table THEN table[a] ELSE 1
      BY <2>5 DEF NextIn
    <2>7. Asked(book, new, major, minor)
      BY <2>3, <2>5, <2>6 DEF Asked
    <2> QED
      BY <2>7 DEF new
  <1> QED
    BY <1>3, <1>4

\* Every call of getSubaddress keeps the record good.
LEMMA AskGood ==
    ASSUME PlainAssumption, GoodBook(subs), AskSubaddress
    PROVE  GoodBook(subs')
  <1>1. PICK major \in 0 .. MostAccounts - 1, minor \in AskedMinors :
           subs' = [GetSubaddress(subs, major, minor) EXCEPT
                      !.early = IF major >= subs.accounts THEN @ \union {major} ELSE @]
    BY DEF AskSubaddress
  <1> DEFINE new == GetSubaddress(subs, major, minor)
             early == IF major >= subs.accounts THEN subs.early \union {major} ELSE subs.early
  <1>2. major \in Nat /\ minor \in Nat
    BY DEF PlainAssumption
  <1>3. /\ new \in Books
        /\ new.accounts = subs.accounts /\ new.given = subs.given
        /\ new.again = subs.again /\ new.early = subs.early
        /\ \A a \in Nat : NextIn(subs, a) <= NextIn(new, a)
        /\ \/ new.cached = subs.cached
           \/ /\ new.cached = subs.cached \union {<<major, minor>>}
              /\ minor < NextIn(new, major)
    <2>1. Asked(subs, new, major, minor)
      BY <1>2, GetSubaddressGood
    <2> HIDE DEF new
    <2> QED
      BY <2>1 DEF Asked
  <1>4. subs' = [new EXCEPT !.early = early]
    BY <1>1, <1>3
  <1>5. early \in SUBSET Nat /\ subs.early \subseteq early /\ (major < subs.accounts \/ major \in early)
    BY <1>2 DEF GoodBook, Books
  <1> HIDE DEF new, early
  <1>6. /\ subs' \in Books
        /\ subs'.accounts = subs.accounts /\ subs'.given = subs.given
        /\ subs'.again = subs.again /\ subs'.early = early
        /\ subs'.cached = new.cached /\ subs'.next = new.next
    <2>1. subs' = [accounts |-> new.accounts, next |-> new.next, cached |-> new.cached,
                   given |-> new.given, again |-> new.again, early |-> early]
      BY <1>3, <1>4 DEF Books
    <2> QED
      BY <1>3, <1>5, <2>1 DEF Books
  <1>7. \A a \in Nat : NextIn(subs', a) = NextIn(new, a)
    BY <1>6 DEF NextIn
  <1>8. ASSUME NEW a \in Nat, NEW m \in Nat, <<a, m>> \in subs'.cached \union subs'.given
        PROVE  a \in early \/ m < NextIn(new, a)
    <2>1. CASE <<a, m>> \in subs.cached \union subs.given
      <3>1. a \in subs.early \/ m < NextIn(subs, a)
        BY <2>1 DEF GoodBook
      <3>2. NextIn(subs, a) \in Nat /\ NextIn(new, a) \in Nat
        BY <1>3 DEF GoodBook, Books, NextTables, NextIn
      <3> QED
        BY <1>3, <1>5, <3>1, <3>2
    <2>2. CASE <<a, m>> = <<major, minor>> /\ minor < NextIn(new, major)
      BY <2>2
    <2> QED
      BY <1>3, <1>6, <1>8, <2>1, <2>2
  <1>9. ASSUME NEW a \in Nat, NEW m \in Nat, <<a, m>> \in subs'.cached
        PROVE  a < subs.accounts \/ a \in early
    <2>1. CASE <<a, m>> \in subs.cached
      BY <1>5, <2>1 DEF GoodBook
    <2>2. CASE a = major
      BY <1>5, <2>2
    <2> QED
      BY <1>3, <1>6, <1>9, <2>1, <2>2
  <1>10. \A a, m \in Nat : <<a, m>> \in subs'.given => a < subs'.accounts
    BY <1>6 DEF GoodBook
  <1>11. subs'.again \subseteq subs'.early
    BY <1>5, <1>6 DEF GoodBook
  <1> QED
    BY <1>6, <1>7, <1>8, <1>9, <1>10, <1>11 DEF GoodBook

\* A new account starts at 1: nothing of it was made, or it was asked for early.
LEMMA AccountGood ==
    ASSUME GoodBook(subs), CreateAccount
    PROVE  GoodBook(subs')
  <1> DEFINE table == SetNext(subs.next, subs.accounts, 1)
  <1>1. subs \in Books /\ subs.accounts \in Nat \ {0} /\ subs.next \in NextTables
    BY DEF GoodBook, Books
  <1>2. /\ table \in NextTables
        /\ \A x \in Nat \ {subs.accounts} :
              /\ x \in DOMAIN table <=> x \in DOMAIN subs.next
              /\ x \in DOMAIN subs.next => table[x] = subs.next[x]
    <2>1. subs.next \in NextTables /\ subs.accounts \in Nat /\ 1 \in Nat \ {0}
      BY <1>1
    <2>2. SetAt(subs.next, subs.accounts, 1, table)
      BY <2>1, NextSet
    <2> QED
      BY <2>2 DEF SetAt
  <1> HIDE DEF table
  <1>3. /\ subs' \in Books
        /\ subs'.accounts = subs.accounts + 1 /\ subs'.given = subs.given
        /\ subs'.again = subs.again /\ subs'.early = subs.early
        /\ subs'.cached = subs.cached /\ subs'.next = table
    <2>1. subs' = [subs EXCEPT !.accounts = @ + 1, !.next = table]
      BY DEF CreateAccount, table
    <2>2. subs' = [accounts |-> subs.accounts + 1, next |-> table, cached |-> subs.cached,
                   given |-> subs.given, again |-> subs.again, early |-> subs.early]
      BY <1>1, <2>1 DEF Books
    <2>3. subs.accounts + 1 \in Nat \ {0}
      BY <1>1
    <2> QED
      BY <1>1, <1>2, <2>2, <2>3 DEF Books
  <1>4. \A a \in Nat \ {subs.accounts} : NextIn(subs', a) = NextIn(subs, a)
    BY <1>2, <1>3 DEF NextIn
  <1>5. ASSUME NEW a \in Nat, NEW m \in Nat, <<a, m>> \in subs.cached \union subs.given
        PROVE  a \in subs.early \/ m < NextIn(subs', a)
    <2>1. CASE a = subs.accounts
      BY <1>1, <1>5, <2>1 DEF GoodBook
    <2>2. CASE a # subs.accounts
      BY <1>4, <1>5, <2>2 DEF GoodBook
    <2> QED
      BY <2>1, <2>2
  <1>6. ASSUME NEW a \in Nat, a < subs.accounts PROVE a < subs.accounts + 1
    BY <1>1, <1>6
  <1>7. /\ \A a, m \in Nat : <<a, m>> \in subs.cached => a < subs.accounts + 1 \/ a \in subs.early
        /\ \A a, m \in Nat : <<a, m>> \in subs.given => a < subs.accounts + 1
    BY <1>6 DEF GoodBook
  <1>8. subs.again \subseteq subs.early
    BY DEF GoodBook
  <1> QED
    BY <1>3, <1>5, <1>7, <1>8 DEF GoodBook

\* createSubaddress hands out the next index: it was handed out before only if
\* the account was asked for early.
LEMMA CreateGood ==
    ASSUME GoodBook(subs), CreateSubaddress
    PROVE  GoodBook(subs')
  <1>1. PICK a \in 0 .. subs.accounts - 1 :
           LET minor == NextIndex(a)
               pair == <<a, minor>>
           IN /\ CanScan \/ pair \in subs.cached
              /\ subs' = [GetSubaddress(subs, a, minor) EXCEPT
                            !.given = @ \union {pair},
                            !.again = IF pair \in subs.given THEN @ \union {a} ELSE @]
    BY DEF CreateSubaddress
  <1> DEFINE minor == NextIndex(a)
             pair == <<a, minor>>
             new == GetSubaddress(subs, a, minor)
             again == IF pair \in subs.given THEN subs.again \union {a} ELSE subs.again
  <1>2. /\ subs \in Books /\ a \in Nat /\ a < subs.accounts
        /\ \A x \in Nat : NextIn(subs, x) \in Nat \ {0}
    BY DEF GoodBook, Books, NextTables, NextIn
  <1>3. minor \in Nat /\ minor # 0 /\ minor = NextIn(subs, a)
    BY <1>2 DEF NextIndex, NextIn
  <1>4. /\ new \in Books
        /\ new.accounts = subs.accounts /\ new.given = subs.given
        /\ new.again = subs.again /\ new.early = subs.early
        /\ \A x \in Nat : NextIn(subs, x) <= NextIn(new, x)
        /\ \/ new.cached = subs.cached
           \/ new.cached = subs.cached \union {pair} /\ minor < NextIn(new, a)
        /\ CanScan /\ pair \notin subs.cached \union {<<0, 0>>} => minor < NextIn(new, a)
    <2>1. Asked(subs, new, a, minor)
      BY <1>2, <1>3, GetSubaddressGood
    <2> HIDE DEF minor, new
    <2> QED
      BY <2>1 DEF Asked
  <1>5. CanScan \/ pair \in subs.cached
    BY <1>1
  <1>6. subs' = [new EXCEPT !.given = subs.given \union {pair}, !.again = again]
    BY <1>1, <1>4
  <1> HIDE DEF minor, new, again
  <1>7. again \in SUBSET Nat /\ pair \in Pairs
    BY <1>2, <1>3 DEF again, Books, Pairs
  <1>8. /\ subs' \in Books
        /\ subs'.accounts = subs.accounts /\ subs'.given = subs.given \union {pair}
        /\ subs'.again = again /\ subs'.early = subs.early
        /\ subs'.cached = new.cached /\ subs'.next = new.next
    <2>1. subs' = [accounts |-> new.accounts, next |-> new.next, cached |-> new.cached,
                   given |-> subs.given \union {pair}, again |-> again, early |-> new.early]
      BY <1>4, <1>6 DEF Books
    <2> HIDE DEF pair
    <2> QED
      BY <1>2, <1>4, <1>7, <2>1 DEF Books
  <1>9. \A x \in Nat : NextIn(subs', x) = NextIn(new, x)
    BY <1>8 DEF NextIn
  <1>10. a \in subs.early \/ minor < NextIn(new, a)
    <2>1. CASE pair \in subs.cached
      BY <1>2, <1>3, <2>1 DEF GoodBook
    <2>2. CASE pair \notin subs.cached
      BY <1>3, <1>4, <1>5, <2>2
    <2> QED
      BY <2>1, <2>2
  <1>11. ASSUME NEW x \in Nat, NEW m \in Nat, <<x, m>> \in subs'.cached \union subs'.given
         PROVE  x \in subs.early \/ m < NextIn(new, x)
    <2>1. CASE <<x, m>> \in subs.cached \union subs.given
      <3>1. x \in subs.early \/ m < NextIn(subs, x)
        BY <2>1 DEF GoodBook
      <3>2. NextIn(subs, x) \in Nat /\ NextIn(new, x) \in Nat
        BY <1>2, <1>4 DEF Books, NextTables, NextIn
      <3> QED
        BY <1>4, <3>1, <3>2
    <2>2. CASE <<x, m>> = pair
      BY <1>10, <2>2
    <2> QED
      BY <1>4, <1>8, <1>11, <2>1, <2>2
  <1>12. ASSUME NEW x \in Nat, NEW m \in Nat, <<x, m>> \in subs'.cached
         PROVE  x < subs.accounts \/ x \in subs.early
    <2>1. CASE <<x, m>> \in subs.cached
      BY <2>1 DEF GoodBook
    <2>2. CASE <<x, m>> = pair
      BY <1>2, <2>2
    <2> QED
      BY <1>4, <1>8, <1>12, <2>1, <2>2
  <1>13. ASSUME NEW x \in Nat, NEW m \in Nat, <<x, m>> \in subs'.given
         PROVE  x < subs.accounts
    BY <1>2, <1>8, <1>13 DEF GoodBook
  <1>14. again \subseteq subs.early
    <2>1. pair \in subs.given => a \in subs.early
      BY <1>2, <1>3 DEF GoodBook
    <2> QED
      BY <2>1 DEF again, GoodBook
  <1> QED
    BY <1>8, <1>9, <1>11, <1>12, <1>13, <1>14 DEF GoodBook

\* A wallet made again from JSON has an empty cache; its next indices are kept.
LEMMA RestoreGood ==
    ASSUME GoodBook(subs), subs' = [subs EXCEPT !.cached = {}]
    PROVE  GoodBook(subs')
  <1>1. subs' = [accounts |-> subs.accounts, next |-> subs.next, cached |-> {},
                 given |-> subs.given, again |-> subs.again, early |-> subs.early]
    BY DEF GoodBook, Books
  <1>2. subs' \in Books
    BY <1>1 DEF GoodBook, Books
  <1> QED
    BY <1>1, <1>2 DEF GoodBook, NextIn

\* The records of a new wallet.
LEMMA BookInit == PlainInit => GoodBook(subs)
  <1> SUFFICES ASSUME PlainInit PROVE GoodBook(subs)
    OBVIOUS
  <1> DEFINE table == [a \in {0} |-> 1]
  <1>1. subs = [accounts |-> 1, next |-> table, cached |-> {}, given |-> {}, again |-> {},
                early |-> {}]
    BY DEF PlainInit
  <1>2. table \in [{0} -> Nat \ {0}] /\ {0} \in SUBSET Nat
    OBVIOUS
  <1> HIDE DEF table
  <1>3. table \in NextTables
    BY <1>2 DEF NextTables
  <1>4. subs \in Books
    BY <1>1, <1>3 DEF Books
  <1> QED
    BY <1>1, <1>4 DEF GoodBook

\* Every step keeps the records.
LEMMA BookStep == GoodBook(subs) /\ [PlainNext]_plainVars => GoodBook(subs')
  <1> SUFFICES ASSUME GoodBook(subs), [PlainNext]_plainVars PROVE GoodBook(subs')
    OBVIOUS
  <1>1. CASE AskSubaddress
    BY PlainAssumption, <1>1, AskGood
  <1>2. CASE CreateAccount
    BY <1>2, AccountGood
  <1>3. CASE CreateSubaddress
    BY <1>3, CreateGood
  <1>4. CASE Restore
    BY <1>4, RestoreGood DEF Restore
  <1>5. CASE UNCHANGED subs
    BY <1>5 DEF GoodBook, NextIn
  <1>6. ASSUME NEW s \in syncs,
               InfoAnswers(s) \/ HeadersAnswer(s) \/ BlockAnswers(s) \/ TransactionsAnswer(s)
        PROVE  UNCHANGED subs
    BY <1>6 DEF InfoAnswers, HeadersAnswer, BlockAnswers, TransactionsAnswer
  <1>7. CASE \/ UserAddsOutput \/ UserMarksSpent \/ UserSyncs \/ StartSyncing
             \/ StopSyncing \/ Tick \/ BlockComes \/ UNCHANGED plainVars
    <2>1. UNCHANGED subs
      BY <1>7 DEF UserAddsOutput, UserMarksSpent, UserSyncs, StartSyncing, StopSyncing,
           Tick, BlockComes, plainVars
    <2> QED
      BY <1>5, <2>1
  <1> QED
    BY <1>1, <1>2, <1>3, <1>4, <1>5, <1>6, <1>7 DEF PlainNext

\* createSubaddress does not hand out an index twice, whatever is asked for,
\* created and restored in whatever order, unless the account's subaddresses were
\* asked for before there was the account (createAccount resets its next index).
THEOREM NoIndexTwice == PlainInit /\ [][PlainNext]_plainVars => []FreshIndices
  <1>1. PlainInit => GoodBook(subs)
    BY BookInit
  <1>2. GoodBook(subs) /\ [PlainNext]_plainVars => GoodBook(subs')
    BY BookStep
  <1>3. GoodBook(subs) => FreshIndices
    BY DEF GoodBook, FreshIndices
  <1>4. (GoodBook(subs))' <=> GoodBook(subs')
    BY DEF GoodBook, NextIn
  <1> QED
    BY <1>1, <1>2, <1>3, <1>4, PTL

-----------------------------------------------------------------------------
(***************************************************************************)
(* What the wallet without a store has seen of the chain                    *)
(***************************************************************************)
Fates == {"unseen", "missed", "read"}

\* Every block below height n was read, or somebody chose to pass it over.
SeenBelow(f, n) == \A h \in DaemonHeights : h < n => f[h] # "unseen"

\* The outputs that wallet w lists hold everything that transaction tx pays.
Lists(w, tx) == \A o \in ToSet(tx.pays) : \E u \in w.utxos : u.id = o.id

\* The wallet: its height is that of a block, what it knows as spent it does not
\* list, and without the keys that sign it knows no key image.
WalletKept(w, f) ==
    /\ w = [kind |-> w.kind, height |-> w.height, utxos |-> w.utxos, spent |-> w.spent,
            syncing |-> w.syncing, calls |-> w.calls, begun |-> w.begun, uses |-> w.uses]
    /\ w.height \in DaemonHeights /\ SeenBelow(f, w.height)
    /\ \A u \in w.utxos : ~(u.image /\ u.id \in w.spent)
    /\ w.kind # "full" => \A u \in w.utxos : ~u.image
    /\ \A h \in DaemonHeights : f[h] = "read" /\ w.kind = "view_only" =>
          Lists(w, DaemonBlock(h).miner) /\ Lists(w, DaemonBlock(h).tx)

\* The heads that a sync has left: one after another, up to below n.
HeadsTo(heads, n) ==
    /\ heads \in Seq(Nat) /\ heads # <<>>
    /\ heads[1] + Len(heads) = n /\ \A i \in 1 .. Len(heads) : heads[i] = heads[1] + i - 1

\* A sync has seen what is below where it asks next, and what it asks for there is.
SyncKept(s, w, f, top) ==
    /\ s = [id |-> s.id, at |-> s.at, end |-> s.end, heads |-> s.heads, stage |-> s.stage,
            first |-> s.first]
    /\ s.at \in Nat /\ s.end \in Nat /\ s.end <= top
    /\ s.stage \in {"info", "headers", "block", "txs"}
    /\ s.stage = "info" => SeenBelow(f, s.at)
    /\ s.stage = "headers" => SeenBelow(f, s.at) \/ SeenBelow(f, s.end)
    /\ s.stage \in {"block", "txs"} =>
          /\ \E n \in {s.at, s.end} : n <= s.end /\ HeadsTo(s.heads, n)
          /\ SeenBelow(f, s.heads[1])
    /\ s.stage = "txs" /\ w.kind = "view_only" => Lists(w, DaemonBlock(s.heads[1]).miner)

\* The inductive invariant.
PlainKept ==
    /\ served = [blocks |-> served.blocks, refused |-> served.refused]
    /\ served.blocks \in 1 .. Len(DaemonBlocks)
    /\ fate \in [DaemonHeights -> Fates]
    /\ WalletKept(plain, fate)
    /\ \A s \in syncs : SyncKept(s, plain, fate, served.blocks)
    /\ subs.accounts \in 1 .. MostAccounts

\* Fates g leave out nothing that fates f have.
Grows(f, g) ==
    /\ g \in [DaemonHeights -> Fates]
    /\ \A h \in DaemonHeights : f[h] # "unseen" => g[h] # "unseen"

\* By fates g, no block is read that is not by fates f.
ReadsNoMore(f, g) == \A h \in DaemonHeights : g[h] = "read" => f[h] = "read"

\* Wallet v signs as w does, and lists what w lists when it cannot sign.
KeepsListed(w, v) == v.kind = w.kind /\ (w.kind # "full" => w.utxos \subseteq v.utxos)

\* What was seen stays seen.
LEMMA SeenStays ==
    ASSUME NEW f, NEW g, NEW n, SeenBelow(f, n), Grows(f, g)
    PROVE  SeenBelow(g, n)
  BY DEF SeenBelow, Grows

\* What was listed stays listed.
LEMMA ListsStay ==
    ASSUME NEW w, NEW v, NEW tx, Lists(w, tx), w.utxos \subseteq v.utxos
    PROVE  Lists(v, tx)
  BY DEF Lists

\* What passes over blocks adds them to what was seen.
LEMMA PassedGrows ==
    ASSUME fate \in [DaemonHeights -> Fates], NEW from, NEW to
    PROVE  /\ Grows(fate, PassedOver(from, to)) /\ ReadsNoMore(fate, PassedOver(from, to))
           /\ \A h \in DaemonHeights : h \in from .. to - 1 => PassedOver(from, to)[h] # "unseen"
  BY DEF PassedOver, Grows, ReadsNoMore, Fates

\* The wallet is kept when blocks are passed over.
LEMMA WalletStays ==
    ASSUME NEW w, NEW f, NEW g, WalletKept(w, f), Grows(f, g), ReadsNoMore(f, g)
    PROVE  WalletKept(w, g)
  <1>1. SeenBelow(g, w.height)
    BY SeenStays DEF WalletKept
  <1> QED
    BY <1>1 DEF WalletKept, ReadsNoMore

\* A wallet that differs in what the invariant does not speak of is kept as well.
LEMMA SameKept ==
    ASSUME NEW w, NEW f, NEW v, WalletKept(w, f),
           v = [kind |-> v.kind, height |-> v.height, utxos |-> v.utxos, spent |-> v.spent,
                syncing |-> v.syncing, calls |-> v.calls, begun |-> v.begun, uses |-> v.uses],
           v.kind = w.kind, v.height = w.height, v.utxos = w.utxos, v.spent = w.spent
    PROVE  WalletKept(v, f) /\ KeepsListed(w, v)
  BY DEF WalletKept, KeepsListed, Lists

\* A call of the program keeps the wallet as its change leaves it.
LEMMA CallKept ==
    ASSUME NEW method, NEW w, NEW f, WalletKept(w, f), Calls(method, w)
    PROVE  WalletKept(plain', f) /\ KeepsListed(w, plain') /\ plain'.height = w.height
  <1> DEFINE v == plain'
  <1>1. v = [w EXCEPT !.calls = plain.calls + 1]
    BY DEF Calls
  <1>2. v = [kind |-> w.kind, height |-> w.height, utxos |-> w.utxos, spent |-> w.spent,
             syncing |-> w.syncing, calls |-> plain.calls + 1, begun |-> w.begun, uses |-> w.uses]
    BY <1>1 DEF WalletKept
  <1> QED
    BY <1>2, SameKept

\* addOutput keeps the wallet.
LEMMA AddKept ==
    ASSUME NEW w, NEW f, WalletKept(w, f), NEW o
    PROVE  WalletKept(AddOutput(w, o), f) /\ KeepsListed(w, AddOutput(w, o))
  <1>1. CASE w.kind = "full" /\ o.id \in w.spent
    BY <1>1 DEF AddOutput, KeepsListed
  <1>2. CASE ~(w.kind = "full" /\ o.id \in w.spent)
    <2> DEFINE v == AddOutput(w, o)
    <2>1. v = [w EXCEPT !.utxos = w.utxos \union {Utxo(w, o)}]
      BY <1>2 DEF AddOutput
    <2>2. v = [kind |-> w.kind, height |-> w.height, utxos |-> w.utxos \union {Utxo(w, o)},
               spent |-> w.spent, syncing |-> w.syncing, calls |-> w.calls, begun |-> w.begun,
               uses |-> w.uses]
      BY <2>1 DEF WalletKept
    <2>3. Utxo(w, o).id = o.id /\ Utxo(w, o).image = (w.kind = "full")
      BY DEF Utxo
    <2> HIDE DEF v
    <2>4. \A u \in v.utxos : ~(u.image /\ u.id \in v.spent)
      BY <1>2, <2>2, <2>3 DEF WalletKept
    <2>5. v.kind # "full" => \A u \in v.utxos : ~u.image
      BY <2>2, <2>3 DEF WalletKept
    <2>6. \A h \in DaemonHeights : f[h] = "read" /\ v.kind = "view_only" =>
              Lists(v, DaemonBlock(h).miner) /\ Lists(v, DaemonBlock(h).tx)
      BY <2>2, ListsStay DEF WalletKept
    <2>7. WalletKept(v, f)
      BY <2>2, <2>4, <2>5, <2>6 DEF WalletKept
    <2>8. KeepsListed(w, v)
      BY <2>2 DEF KeepsListed
    <2> QED
      BY <2>7, <2>8 DEF v
  <1> QED
    BY <1>1, <1>2

\* markSpent keeps the wallet.
LEMMA MarkKept ==
    ASSUME NEW w, NEW f, WalletKept(w, f), NEW ids
    PROVE  WalletKept(MarkSpent(w, ids), f) /\ KeepsListed(w, MarkSpent(w, ids))
           /\ MarkSpent(w, ids).height = w.height
  <1> DEFINE v == MarkSpent(w, ids)
             left == {u \in w.utxos : ~(u.image /\ u.id \in w.spent \union ids)}
  <1>2. v = [kind |-> w.kind, height |-> w.height, utxos |-> left,
             spent |-> w.spent \union ids, syncing |-> w.syncing, calls |-> w.calls,
             begun |-> w.begun, uses |-> w.uses]
    <2>1. v = [w EXCEPT !.spent = w.spent \union ids, !.utxos = left]
      BY DEF MarkSpent
    <2> HIDE DEF v, left
    <2> QED
      BY <2>1 DEF WalletKept
  <1>3. w.kind # "full" => left = w.utxos
    BY DEF WalletKept
  <1>4. \A u \in left : u \in w.utxos /\ ~(u.image /\ u.id \in w.spent \union ids)
    OBVIOUS
  <1> HIDE DEF v, left
  <1>5. v.kind # "full" => \A u \in v.utxos : ~u.image
    BY <1>2, <1>4 DEF WalletKept
  <1>6. \A h \in DaemonHeights : f[h] = "read" /\ v.kind = "view_only" =>
            Lists(v, DaemonBlock(h).miner) /\ Lists(v, DaemonBlock(h).tx)
    BY <1>2, <1>3, ListsStay DEF WalletKept
  <1>7. WalletKept(v, f)
    BY <1>2, <1>4, <1>5, <1>6 DEF WalletKept
  <1>8. KeepsListed(w, v)
    BY <1>2, <1>3 DEF KeepsListed
  <1> QED
    BY <1>2, <1>7, <1>8 DEF v

\* What a transaction pays is listed when it was looked at, and the wallet is kept.
LEMMA ProcessKept ==
    ASSUME NEW w, NEW f, WalletKept(w, f), NEW tx
    PROVE  /\ WalletKept(ProcessTransaction(w, tx), f)
           /\ KeepsListed(w, ProcessTransaction(w, tx))
           /\ w.kind # "full" => Lists(ProcessTransaction(w, tx), tx)
           /\ ProcessTransaction(w, tx).height = w.height
  <1> DEFINE found == UNION {AddOutput(w, o).utxos : o \in ToSet(tx.pays)}
             listed == [w EXCEPT !.utxos = w.utxos \union found]
             known == {u.id : u \in {x \in listed.utxos : x.image}}
             v == MarkSpent(listed, known \intersect tx.spends)
  <1>1. listed = [kind |-> w.kind, height |-> w.height, utxos |-> w.utxos \union found,
                  spent |-> w.spent, syncing |-> w.syncing, calls |-> w.calls,
                  begun |-> w.begun, uses |-> w.uses]
    <2> HIDE DEF found
    <2> QED
      BY DEF WalletKept
  <1>2. ProcessTransaction(w, tx) = v
    BY DEF ProcessTransaction
  <1>3. ASSUME NEW u \in found
        PROVE  \E o \in ToSet(tx.pays) : u \in AddOutput(w, o).utxos
    OBVIOUS
  <1>4. \A o \in ToSet(tx.pays) : AddOutput(w, o).utxos \subseteq found
    OBVIOUS
  <1>5. \A o \in ToSet(tx.pays) : w.kind # "full" => Utxo(w, o) \in AddOutput(w, o).utxos
    BY DEF AddOutput, WalletKept
  <1>6. \A o : Utxo(w, o).id = o.id
    BY DEF Utxo
  <1>7. w.kind # "full" => Lists(listed, tx)
    BY <1>1, <1>4, <1>5, <1>6 DEF Lists
  <1> HIDE DEF found
  <1>8. \A u \in found : ~(u.image /\ u.id \in w.spent) /\ (w.kind # "full" => ~u.image)
    <2> SUFFICES ASSUME NEW u \in found
                 PROVE  ~(u.image /\ u.id \in w.spent) /\ (w.kind # "full" => ~u.image)
      OBVIOUS
    <2>1. PICK o \in ToSet(tx.pays) : u \in AddOutput(w, o).utxos
      BY <1>3
    <2>2. WalletKept(AddOutput(w, o), f) /\ AddOutput(w, o).kind = w.kind
      BY AddKept DEF KeepsListed
    <2>3. AddOutput(w, o).spent = w.spent
      BY DEF AddOutput, WalletKept
    <2> QED
      BY <2>1, <2>2, <2>3 DEF WalletKept
  <1> HIDE DEF listed
  <1>9. WalletKept(listed, f) /\ KeepsListed(w, listed)
    <2>1. \A u \in listed.utxos : ~(u.image /\ u.id \in listed.spent)
      BY <1>1, <1>8 DEF WalletKept
    <2>2. listed.kind # "full" => \A u \in listed.utxos : ~u.image
      BY <1>1, <1>8 DEF WalletKept
    <2>3. \A h \in DaemonHeights : f[h] = "read" /\ listed.kind = "view_only" =>
              Lists(listed, DaemonBlock(h).miner) /\ Lists(listed, DaemonBlock(h).tx)
      BY <1>1, ListsStay DEF WalletKept
    <2>4. KeepsListed(w, listed)
      BY <1>1 DEF KeepsListed
    <2> QED
      BY <1>1, <2>1, <2>2, <2>3, <2>4 DEF WalletKept
  <1> HIDE DEF known
  <1>10. WalletKept(v, f) /\ KeepsListed(listed, v) /\ v.height = listed.height
    BY <1>9, MarkKept
  <1> HIDE DEF v
  <1>11. w.kind # "full" => Lists(v, tx)
    BY <1>7, <1>9, <1>10, ListsStay DEF KeepsListed
  <1>12. KeepsListed(w, v)
    BY <1>9, <1>10 DEF KeepsListed
  <1>13. listed.height = w.height
    BY <1>1
  <1> QED
    BY <1>2, <1>10, <1>11, <1>12, <1>13

\* A sync that takes no step is kept when the chain and what was seen grow.
LEMMA SyncStays ==
    ASSUME NEW s, NEW w, NEW v, NEW f, NEW g, NEW b \in Nat, NEW c \in Nat,
           SyncKept(s, w, f, b), Grows(f, g), KeepsListed(w, v), b <= c
    PROVE  SyncKept(s, v, g, c)
  <1>1. s.stage = "txs" /\ v.kind = "view_only" => Lists(v, DaemonBlock(s.heads[1]).miner)
    BY ListsStay DEF SyncKept, KeepsListed
  <1>2. \A n : SeenBelow(f, n) => SeenBelow(g, n)
    BY SeenStays
  <1>3. s.end <= c
    BY DEF SyncKept
  <1> QED
    BY <1>1, <1>2, <1>3 DEF SyncKept

\* What is true of all syncs under way.
SyncsKept(all, w, f, top) == \A s \in all : SyncKept(s, w, f, top)

\* Fates that do not change leave nothing out.
LEMMA SameGrows ==
    ASSUME NEW f, f \in [DaemonHeights -> Fates]
    PROVE  Grows(f, f)
  BY DEF Grows

\* The syncs that take no step are kept.
LEMMA OthersStay ==
    ASSUME NEW all, NEW fewer, fewer \subseteq all, NEW w, NEW v, NEW f, NEW g,
           NEW b \in Nat, NEW c \in Nat,
           SyncsKept(all, w, f, b), Grows(f, g), KeepsListed(w, v), b <= c
    PROVE  SyncsKept(fewer, v, g, c)
  BY SyncStays DEF SyncsKept

\* The invariant, when the fates and the daemon's blocks are typed.
LEMMA KeptNumbers ==
    ASSUME PlainKept
    PROVE  /\ served.blocks \in Nat /\ served.blocks >= 1 /\ served.blocks <= Len(DaemonBlocks)
           /\ Len(DaemonBlocks) \in Nat /\ DaemonHeights = 0 .. Len(DaemonBlocks) - 1
           /\ plain.height \in DaemonHeights /\ plain.height \in Nat
           /\ SyncsKept(syncs, plain, fate, served.blocks)
           /\ WalletKept(plain, fate) /\ Grows(fate, fate)
  <1>1. Len(DaemonBlocks) \in Nat
    BY PlainAssumption DEF PlainAssumption
  <1>2. WalletKept(plain, fate) /\ fate \in [DaemonHeights -> Fates]
        /\ served.blocks \in 1 .. Len(DaemonBlocks)
    BY DEF PlainKept
  <1>3. plain.height \in DaemonHeights
    BY <1>2 DEF WalletKept
  <1> QED
    BY <1>1, <1>2, <1>3, SameGrows DEF PlainKept, SyncsKept, DaemonHeights

\* A sync that begins has seen what is below its start.
LEMMA BeginKept ==
    ASSUME NEW start \in Nat, NEW first, NEW w, NEW f, NEW top \in Nat, SeenBelow(f, start),
           BeginSync(start, first), SyncsKept(syncs, w, f, top)
    PROVE  SyncsKept(syncs', w, f, top)
  <1> DEFINE t == NewSync(start, first)
  <1>1. syncs' = syncs \union {t}
    BY DEF BeginSync
  <1>2. t = [id |-> t.id, at |-> start, end |-> 0, heads |-> <<>>, stage |-> "info", first |-> first]
    BY DEF NewSync
  <1> HIDE DEF t
  <1>3. SyncKept(t, w, f, top)
    BY <1>2 DEF SyncKept
  <1> QED
    BY <1>1, <1>3 DEF SyncsKept

\* addOutput and markSpent, from the program.
LEMMA UserOutputsKept ==
    ASSUME PlainKept, UserAddsOutput \/ UserMarksSpent
    PROVE  PlainKept'
  <1>0. WalletKept(plain, fate) /\ served.blocks \in Nat
        /\ SyncsKept(syncs, plain, fate, served.blocks) /\ Grows(fate, fate)
    BY KeptNumbers
  <1>1. UNCHANGED <<subs, syncs, timers, served, fate>>
    BY DEF UserAddsOutput, UserMarksSpent
  <1>2. WalletKept(plain', fate) /\ KeepsListed(plain, plain')
    <2>1. CASE UserAddsOutput
      <3>1. PICK o \in Handed : Calls("addOutput", AddOutput(plain, o))
        BY <2>1 DEF UserAddsOutput
      <3>2. WalletKept(AddOutput(plain, o), fate) /\ KeepsListed(plain, AddOutput(plain, o))
        BY <1>0, AddKept
      <3>3. WalletKept(plain', fate) /\ KeepsListed(AddOutput(plain, o), plain')
        BY <3>1, <3>2, CallKept
      <3> QED
        BY <3>2, <3>3 DEF KeepsListed
    <2>2. CASE UserMarksSpent
      <3>1. PICK o \in Handed : Calls("markSpent", MarkSpent(plain, {o.id}))
        BY <2>2 DEF UserMarksSpent
      <3>2. /\ WalletKept(MarkSpent(plain, {o.id}), fate)
            /\ KeepsListed(plain, MarkSpent(plain, {o.id}))
        BY <1>0, MarkKept
      <3>3. WalletKept(plain', fate) /\ KeepsListed(MarkSpent(plain, {o.id}), plain')
        BY <3>1, <3>2, CallKept
      <3> QED
        BY <3>2, <3>3 DEF KeepsListed
    <2> QED
      BY <2>1, <2>2
  <1>3. SyncsKept(syncs, plain', fate, served.blocks)
    BY <1>0, <1>2, OthersStay
  <1> QED
    BY <1>1, <1>2, <1>3 DEF PlainKept, SyncsKept

\* A wallet on which a sync begins is kept.
LEMMA BegunKept ==
    ASSUME NEW w, NEW f, WalletKept(w, f)
    PROVE  /\ WalletKept(Begun(w), f) /\ KeepsListed(w, Begun(w))
           /\ Begun(w).height = w.height
  <1> DEFINE v == Begun(w)
  <1>1. v = [kind |-> w.kind, height |-> w.height, utxos |-> w.utxos, spent |-> w.spent,
             syncing |-> w.syncing, calls |-> w.calls, begun |-> w.begun + 1, uses |-> w.uses]
    BY DEF WalletKept, Begun
  <1> HIDE DEF v
  <1>2. WalletKept(v, f) /\ KeepsListed(w, v) /\ v.height = w.height
    BY <1>1, SameKept
  <1> QED
    BY <1>2 DEF v

\* A wallet that is to sync, or no longer, is kept.
LEMMA SyncingKept ==
    ASSUME NEW w, NEW f, WalletKept(w, f), NEW yes
    PROVE  /\ WalletKept([w EXCEPT !.syncing = yes], f)
           /\ KeepsListed(w, [w EXCEPT !.syncing = yes])
  <1> DEFINE v == [w EXCEPT !.syncing = yes]
  <1>1. v = [kind |-> w.kind, height |-> w.height, utxos |-> w.utxos, spent |-> w.spent,
             syncing |-> yes, calls |-> w.calls, begun |-> w.begun, uses |-> w.uses]
    BY DEF WalletKept
  <1> HIDE DEF v
  <1>2. WalletKept(v, f) /\ KeepsListed(w, v)
    BY <1>1, SameKept
  <1> QED
    BY <1>2 DEF v

\* sync, from the program, at whatever start.
LEMMA UserSyncsKept ==
    ASSUME PlainKept, UserSyncs
    PROVE  PlainKept'
  <1>0. /\ WalletKept(plain, fate) /\ served.blocks \in Nat /\ served.blocks >= 1
        /\ plain.height \in Nat /\ SyncsKept(syncs, plain, fate, served.blocks)
        /\ Len(DaemonBlocks) \in Nat /\ DaemonHeights = 0 .. Len(DaemonBlocks) - 1
        /\ SeenBelow(fate, plain.height) /\ fate \in [DaemonHeights -> Fates]
    BY KeptNumbers DEF PlainKept, WalletKept
  <1>1. PICK start \in {plain.height, 0, served.blocks - 1} :
           /\ Calls("sync", Begun(plain)) /\ BeginSync(start, FALSE)
           /\ fate' = PassedOver(plain.height, start)
           /\ UNCHANGED <<subs, timers, served>>
    BY DEF UserSyncs
  <1>2. start \in Nat
    BY <1>0
  <1>3. /\ Grows(fate, fate') /\ ReadsNoMore(fate, fate')
        /\ \A h \in DaemonHeights : h \in plain.height .. start - 1 => fate'[h] # "unseen"
    BY <1>0, <1>1, PassedGrows
  <1>4. SeenBelow(fate', start)
    <2> SUFFICES ASSUME NEW h \in DaemonHeights, h < start PROVE fate'[h] # "unseen"
      BY DEF SeenBelow
    <2>1. CASE h < plain.height
      BY <1>0, <1>3, <2>1 DEF SeenBelow, Grows
    <2>2. CASE ~(h < plain.height)
      <3>1. h \in plain.height .. start - 1
        BY <1>0, <1>2, <2>2
      <3> QED
        BY <1>3, <3>1
    <2> QED
      BY <2>1, <2>2
  <1>5. WalletKept(Begun(plain), fate) /\ KeepsListed(plain, Begun(plain))
    BY <1>0, BegunKept
  <1>6. WalletKept(plain', fate) /\ KeepsListed(Begun(plain), plain')
    BY <1>1, <1>5, CallKept
  <1>7. WalletKept(plain', fate')
    BY <1>3, <1>6, WalletStays
  <1>8. KeepsListed(plain, plain')
    BY <1>5, <1>6 DEF KeepsListed
  <1>9. SyncsKept(syncs, plain', fate', served.blocks)
    BY <1>0, <1>3, <1>8, OthersStay
  <1>10. SyncsKept(syncs', plain', fate', served.blocks)
    BY <1>0, <1>1, <1>2, <1>4, <1>9, BeginKept
  <1>11. fate' \in [DaemonHeights -> Fates]
    BY <1>3 DEF Grows
  <1> QED
    BY <1>1, <1>7, <1>10, <1>11 DEF PlainKept, SyncsKept

\* startSyncing, stopSyncing and the intervals.
LEMMA IntervalsKept ==
    ASSUME PlainKept, StartSyncing \/ StopSyncing \/ Tick
    PROVE  PlainKept'
  <1>0. /\ WalletKept(plain, fate) /\ served.blocks \in Nat /\ served.blocks >= 1
        /\ plain.height \in Nat /\ SyncsKept(syncs, plain, fate, served.blocks)
        /\ SeenBelow(fate, plain.height) /\ Grows(fate, fate)
    BY KeptNumbers DEF PlainKept, WalletKept
  <1>1. UNCHANGED <<subs, served, fate>>
    BY DEF StartSyncing, StopSyncing, Tick
  <1>2. WalletKept(plain', fate) /\ KeepsListed(plain, plain')
    <2>1. CASE StartSyncing
      <3> DEFINE on == [plain EXCEPT !.syncing = TRUE]
      <3>1. WalletKept(on, fate) /\ KeepsListed(plain, on)
        BY <1>0, SyncingKept
      <3>2. Calls("startSyncing", Begun(on))
        BY <2>1 DEF StartSyncing
      <3> HIDE DEF on
      <3>3. WalletKept(Begun(on), fate) /\ KeepsListed(on, Begun(on))
        BY <3>1, BegunKept
      <3>4. WalletKept(plain', fate) /\ KeepsListed(Begun(on), plain')
        BY <3>2, <3>3, CallKept
      <3> QED
        BY <3>1, <3>3, <3>4 DEF KeepsListed
    <2>2. CASE StopSyncing
      <3> DEFINE off == [plain EXCEPT !.syncing = FALSE]
      <3>1. WalletKept(off, fate) /\ KeepsListed(plain, off)
        BY <1>0, SyncingKept
      <3>2. Calls("stopSyncing", off)
        BY <2>2 DEF StopSyncing
      <3> HIDE DEF off
      <3>3. WalletKept(plain', fate) /\ KeepsListed(off, plain')
        BY <3>1, <3>2, CallKept
      <3> QED
        BY <3>1, <3>3 DEF KeepsListed
    <2>3. CASE Tick
      <3>1. plain' = Begun(plain)
        BY <2>3 DEF Tick
      <3> QED
        BY <1>0, <3>1, BegunKept
    <2> QED
      BY <2>1, <2>2, <2>3
  <1>3. SyncsKept(syncs, plain', fate, served.blocks)
    BY <1>0, <1>2, OthersStay
  <1>4. SyncsKept(syncs', plain', fate, served.blocks)
    <2>1. CASE syncs' = syncs
      BY <1>3, <2>1
    <2>2. ASSUME NEW first, BeginSync(plain.height, first)
          PROVE  SyncsKept(syncs', plain', fate, served.blocks)
      BY <1>0, <1>3, <2>2, BeginKept
    <2>3. \/ syncs' = syncs \/ BeginSync(plain.height, TRUE) \/ BeginSync(plain.height, FALSE)
      BY DEF StartSyncing, StopSyncing, Tick
    <2> QED
      BY <2>1, <2>2, <2>3
  <1> QED
    BY <1>1, <1>2, <1>4 DEF PlainKept, SyncsKept

\* A block comes.
LEMMA BlockComesKept ==
    ASSUME PlainKept, BlockComes
    PROVE  PlainKept'
  <1>0. /\ served.blocks \in Nat /\ served.blocks >= 1 /\ Len(DaemonBlocks) \in Nat
        /\ SyncsKept(syncs, plain, fate, served.blocks) /\ Grows(fate, fate)
    BY KeptNumbers
  <1>1. /\ served' = [blocks |-> served.blocks + 1, refused |-> served.refused]
        /\ served.blocks < Len(DaemonBlocks)
        /\ UNCHANGED <<plain, subs, syncs, timers, fate>>
    BY DEF BlockComes, PlainKept
  <1>2. KeepsListed(plain, plain)
    BY DEF KeepsListed
  <1>3. served'.blocks = served.blocks + 1
    BY <1>1
  <1>4. SyncsKept(syncs, plain, fate, served'.blocks)
    BY <1>0, <1>2, <1>3, OthersStay
  <1>5. served'.blocks \in 1 .. Len(DaemonBlocks)
    BY <1>0, <1>1, <1>3
  <1>6. served' = [blocks |-> served'.blocks, refused |-> served'.refused]
    BY <1>1
  <1> QED
    BY <1>1, <1>4, <1>5, <1>6 DEF PlainKept, SyncsKept

\* toJSON and fromJSON: what was read counts as passed over, and nothing goes on.
LEMMA RestoreKept ==
    ASSUME PlainKept, Restore, GoodBook(subs)
    PROVE  PlainKept'
  <1>0. WalletKept(plain, fate) /\ fate \in [DaemonHeights -> Fates]
    BY DEF PlainKept
  <1>1. PICK secrets \in BOOLEAN :
           Calls("fromJSON", [plain EXCEPT !.kind = Restored(secrets), !.utxos = {}, !.spent = {},
                              !.syncing = FALSE])
    BY DEF Restore
  <1> DEFINE w == [plain EXCEPT !.kind = Restored(secrets), !.utxos = {}, !.spent = {},
                                !.syncing = FALSE]
  <1>2. w = [kind |-> Restored(secrets), height |-> plain.height, utxos |-> {}, spent |-> {},
             syncing |-> FALSE, calls |-> plain.calls, begun |-> plain.begun, uses |-> plain.uses]
    <2>1. plain = [kind |-> plain.kind, height |-> plain.height, utxos |-> plain.utxos,
                   spent |-> plain.spent, syncing |-> plain.syncing, calls |-> plain.calls,
                   begun |-> plain.begun, uses |-> plain.uses]
      BY <1>0 DEF WalletKept
    <2> DEFINE kind == Restored(secrets)
               none == {}
    <2>2. w = [plain EXCEPT !.kind = kind, !.utxos = none, !.spent = none, !.syncing = FALSE]
      OBVIOUS
    <2> HIDE DEF w, kind, none
    <2>3. w = [kind |-> kind, height |-> plain.height, utxos |-> none, spent |-> none,
               syncing |-> FALSE, calls |-> plain.calls, begun |-> plain.begun,
               uses |-> plain.uses]
      BY <2>1, <2>2
    <2> QED
      BY <2>3 DEF kind, none
  <1>3. fate' = [h \in DaemonHeights |-> IF fate[h] = "read" THEN "missed" ELSE fate[h]]
    BY DEF Restore
  <1>4. /\ fate' \in [DaemonHeights -> Fates]
        /\ \A h \in DaemonHeights : fate'[h] # "read" /\ (fate[h] # "unseen" => fate'[h] # "unseen")
    BY <1>0, <1>3 DEF Fates
  <1>5. SeenBelow(fate', plain.height)
    BY <1>0, <1>4 DEF SeenBelow, WalletKept
  <1>6. Calls("fromJSON", w)
    BY <1>1
  <1> HIDE DEF w
  <1>7. WalletKept(w, fate')
    BY <1>0, <1>2, <1>4, <1>5 DEF WalletKept
  <1>8. WalletKept(plain', fate')
    BY <1>6, <1>7, CallKept
  <1>9. syncs' = {} /\ served' = served /\ subs' = [subs EXCEPT !.cached = {}]
    BY DEF Restore
  <1>10. subs'.accounts = subs.accounts
    BY <1>9 DEF GoodBook, Books
  <1>11. syncs' = {} /\ served' = served
    BY <1>9
  <1>12. SyncsKept(syncs', plain', fate', served'.blocks)
    BY <1>11 DEF SyncsKept
  <1> QED
    BY <1>4, <1>8, <1>10, <1>11, <1>12 DEF PlainKept, SyncsKept

\* The smaller of two numbers.
LEMMA MinPair ==
    ASSUME NEW a \in Nat, NEW b \in Nat
    PROVE  Min({a, b}) \in {a, b} /\ Min({a, b}) <= a /\ Min({a, b}) <= b
  <1>1. \E x \in {a, b} : \A y \in {a, b} : x <= y
    <2>1. CASE a <= b
      BY <2>1
    <2>2. CASE ~(a <= b)
      BY <2>2
    <2> QED
      BY <2>1, <2>2
  <1> QED
    BY <1>1 DEF Min

\* A sync that goes on is kept, with the others.
LEMMA MoveKept ==
    ASSUME NEW s \in syncs, NEW t, Move(s, t), NEW w, NEW v, NEW f, NEW g, NEW top \in Nat,
           SyncsKept(syncs, w, f, top), Grows(f, g), KeepsListed(w, v), SyncKept(t, v, g, top)
    PROVE  SyncsKept(syncs', v, g, top)
  <1>1. syncs' = (syncs \ {s}) \union {t}
    BY DEF Move
  <1>2. SyncsKept(syncs \ {s}, v, g, top)
    BY OthersStay
  <1> QED
    BY <1>1, <1>2 DEF SyncsKept

\* When a sync is over, the others are kept.
LEMMA OverKept ==
    ASSUME NEW s \in syncs, Over(s), NEW w, NEW v, NEW f, NEW g, NEW top \in Nat,
           SyncsKept(syncs, w, f, top), Grows(f, g), KeepsListed(w, v)
    PROVE  SyncsKept(syncs', v, g, top)
  <1>1. syncs' = syncs \ {s}
    BY DEF Over
  <1> QED
    BY <1>1, OthersStay

\* A refused answer leaves the blocks of the daemon as they are.
LEMMA RefuseKept ==
    ASSUME PlainKept, Refuse \/ UNCHANGED served
    PROVE  /\ served' = [blocks |-> served'.blocks, refused |-> served'.refused]
           /\ served'.blocks = served.blocks
  BY DEF PlainKept, Refuse

\* The invariant after a step of a sync, from its parts.
LEMMA StepKept ==
    ASSUME PlainKept, Refuse \/ UNCHANGED served, UNCHANGED subs,
           fate' \in [DaemonHeights -> Fates], WalletKept(plain', fate'),
           SyncsKept(syncs', plain', fate', served.blocks)
    PROVE  PlainKept'
  <1>1. /\ served' = [blocks |-> served'.blocks, refused |-> served'.refused]
        /\ served'.blocks = served.blocks
    BY RefuseKept
  <1> QED
    BY <1>1 DEF PlainKept, SyncsKept

\* The daemon tells how many blocks it has.
LEMMA InfoKept ==
    ASSUME PlainKept, NEW s \in syncs, InfoAnswers(s)
    PROVE  PlainKept'
  <1>0. /\ WalletKept(plain, fate) /\ served.blocks \in Nat /\ KeepsListed(plain, plain)
        /\ SyncsKept(syncs, plain, fate, served.blocks) /\ Grows(fate, fate)
        /\ fate \in [DaemonHeights -> Fates]
    BY KeptNumbers DEF PlainKept, KeepsListed
  <1>1. s.stage = "info" /\ UNCHANGED <<plain, subs, fate>>
    BY DEF InfoAnswers
  <1>2. CASE Refuse /\ Over(s)
    <2>1. SyncsKept(syncs', plain, fate, served.blocks)
      BY <1>0, <1>2, OverKept
    <2> QED
      BY <1>0, <1>1, <1>2, <2>1, StepKept
  <1>3. CASE Move(s, [s EXCEPT !.stage = "headers", !.end = served.blocks]) /\ UNCHANGED served
    <2> DEFINE t == [s EXCEPT !.stage = "headers", !.end = served.blocks]
    <2>1. SyncKept(s, plain, fate, served.blocks)
      BY <1>0 DEF SyncsKept
    <2>2. s = [id |-> s.id, at |-> s.at, end |-> s.end, heads |-> s.heads, stage |-> s.stage,
               first |-> s.first]
      BY <2>1 DEF SyncKept
    <2>3. t = [id |-> s.id, at |-> s.at, end |-> served.blocks, heads |-> s.heads,
               stage |-> "headers", first |-> s.first]
      <3> DEFINE top == served.blocks
      <3>1. t = [s EXCEPT !.stage = "headers", !.end = top]
        OBVIOUS
      <3> HIDE DEF t, top
      <3>2. t = [id |-> s.id, at |-> s.at, end |-> top, heads |-> s.heads,
                 stage |-> "headers", first |-> s.first]
        BY <2>2, <3>1
      <3> QED
        BY <3>2 DEF top
    <2>4. SeenBelow(fate, s.at) /\ s.at \in Nat
      BY <1>1, <2>1 DEF SyncKept
    <2> HIDE DEF t
    <2>5. SyncKept(t, plain, fate, served.blocks)
      BY <1>0, <2>3, <2>4 DEF SyncKept
    <2>6. Move(s, t)
      BY <1>3 DEF t
    <2>7. SyncsKept(syncs', plain, fate, served.blocks)
      BY <1>0, <2>5, <2>6, MoveKept
    <2> QED
      BY <1>0, <1>1, <1>3, <2>7, StepKept
  <1> QED
    BY <1>2, <1>3 DEF InfoAnswers

\* The headers of a batch come, or do not: then the batch is passed over.
LEMMA HeadersKept ==
    ASSUME PlainKept, NEW s \in syncs, HeadersAnswer(s)
    PROVE  PlainKept'
  <1>0. /\ WalletKept(plain, fate) /\ served.blocks \in Nat /\ KeepsListed(plain, plain)
        /\ SyncsKept(syncs, plain, fate, served.blocks) /\ Grows(fate, fate)
        /\ fate \in [DaemonHeights -> Fates]
    BY KeptNumbers DEF PlainKept, KeepsListed
  <1>1. s.stage = "headers" /\ UNCHANGED <<plain, subs>>
    BY DEF HeadersAnswer
  <1>2. SyncKept(s, plain, fate, served.blocks)
    BY <1>0 DEF SyncsKept
  <1>3. /\ s.at \in Nat /\ s.end \in Nat /\ s.end <= served.blocks
        /\ SeenBelow(fate, s.at) \/ SeenBelow(fate, s.end)
        /\ s = [id |-> s.id, at |-> s.at, end |-> s.end, heads |-> s.heads, stage |-> s.stage,
                first |-> s.first]
    BY <1>1, <1>2 DEF SyncKept
  <1> DEFINE next == s.at + PerBatch
             m == Min({next, s.end})
  <1>4. PerBatch \in Nat /\ PerBatch >= 1 /\ next \in Nat
    BY <1>3, PlainAssumption DEF PlainAssumption
  <1>5. m \in {next, s.end} /\ m <= next /\ m <= s.end
    BY <1>3, <1>4, MinPair
  <1> HIDE DEF m
  <1>6. CASE s.at >= s.end /\ Over(s) /\ UNCHANGED <<served, fate>>
    <2>1. SyncsKept(syncs', plain, fate, served.blocks)
      BY <1>0, <1>6, OverKept
    <2> QED
      BY <1>0, <1>1, <1>6, <2>1, StepKept
  <1>7. s.at < s.end => SeenBelow(fate, s.at) /\ m > s.at
    BY <1>3, <1>4, <1>5 DEF SeenBelow, DaemonHeights
  <1>8. ASSUME s.at < s.end, UNCHANGED <<served, fate>>,
               Move(s, [s EXCEPT !.heads = Batch(s), !.at = @ + PerBatch, !.stage = "block"])
        PROVE  PlainKept'
    <2> DEFINE heads == Batch(s)
               t == [s EXCEPT !.heads = heads, !.at = @ + PerBatch, !.stage = "block"]
    <2>1. heads = [i \in 1 .. m - s.at |-> s.at + i - 1]
      BY DEF Batch, m
    <2>2. m - s.at \in Nat /\ m - s.at >= 1
      BY <1>3, <1>4, <1>5, <1>7, <1>8
    <2>3. heads \in Seq(Nat) /\ Len(heads) = m - s.at
      BY <1>3, <2>1, <2>2
    <2>4. heads # <<>> /\ heads[1] = s.at
      BY <1>3, <2>1, <2>2, <2>3
    <2>5. \A i \in 1 .. Len(heads) : heads[i] = heads[1] + i - 1
      BY <1>3, <2>1, <2>3, <2>4
    <2> HIDE DEF heads
    <2>6. HeadsTo(heads, m)
      BY <1>3, <1>4, <1>5, <2>2, <2>3, <2>4, <2>5 DEF HeadsTo
    <2>7. t = [id |-> s.id, at |-> next, end |-> s.end, heads |-> heads,
               stage |-> "block", first |-> s.first]
      <3>1. t = [s EXCEPT !.heads = heads, !.at = next, !.stage = "block"]
        OBVIOUS
      <3>2. s = [id |-> s.id, at |-> s.at, end |-> s.end, heads |-> s.heads, stage |-> s.stage,
                 first |-> s.first]
        BY <1>3
      <3> HIDE DEF t, next
      <3> QED
        BY <3>1, <3>2
    <2> HIDE DEF t
    <2>8. SeenBelow(fate, heads[1])
      BY <1>7, <1>8, <2>4
    <2>9. \E n \in {t.at, t.end} : n <= t.end /\ HeadsTo(t.heads, n)
      BY <1>5, <2>6, <2>7
    <2>10. SyncKept(t, plain, fate, served.blocks)
      BY <1>3, <1>4, <2>7, <2>8, <2>9 DEF SyncKept
    <2>11. Move(s, t)
      BY <1>8 DEF t, heads
    <2>12. SyncsKept(syncs', plain, fate, served.blocks)
      BY <1>0, <2>10, <2>11, MoveKept
    <2> QED
      BY <1>0, <1>1, <1>8, <2>12, StepKept
  <1>9. ASSUME s.at < s.end, Refuse, Move(s, [s EXCEPT !.at = @ + PerBatch]),
               fate' = PassedOver(s.at, Min({s.at + PerBatch, s.end}))
        PROVE  PlainKept'
    <2> DEFINE t == [s EXCEPT !.at = @ + PerBatch]
    <2>1. t = [id |-> s.id, at |-> next, end |-> s.end, heads |-> s.heads,
               stage |-> "headers", first |-> s.first]
      BY <1>1, <1>3
    <2> HIDE DEF t
    <2>2. fate' = PassedOver(s.at, m)
      BY <1>9 DEF m
    <2>3. /\ Grows(fate, fate') /\ ReadsNoMore(fate, fate')
          /\ \A h \in DaemonHeights : h \in s.at .. m - 1 => fate'[h] # "unseen"
      BY <1>0, <2>2, PassedGrows
    <2>4. SeenBelow(fate', s.at)
      BY <1>7, <1>9, <2>3, SeenStays
    <2>5. SeenBelow(fate', m)
      <3> SUFFICES ASSUME NEW h \in DaemonHeights, h < m PROVE fate'[h] # "unseen"
        BY DEF SeenBelow
      <3>1. h \in Nat
        BY KeptNumbers
      <3>2. CASE h < s.at
        BY <2>4, <3>2 DEF SeenBelow
      <3>3. CASE ~(h < s.at)
        <4>1. h \in s.at .. m - 1
          BY <1>3, <1>4, <1>5, <3>1, <3>3
        <4> QED
          BY <2>3, <4>1
      <3> QED
        BY <3>2, <3>3
    <2>6. SeenBelow(fate', t.at) \/ SeenBelow(fate', t.end)
      BY <1>5, <2>1, <2>5
    <2>7. SyncKept(t, plain, fate', served.blocks)
      BY <1>3, <1>4, <2>1, <2>6 DEF SyncKept
    <2>8. Move(s, t)
      BY <1>9 DEF t
    <2>9. SyncsKept(syncs', plain, fate', served.blocks)
      BY <1>0, <2>3, <2>7, <2>8, MoveKept
    <2>10. WalletKept(plain, fate') /\ fate' \in [DaemonHeights -> Fates]
      BY <1>0, <2>3, WalletStays DEF Grows
    <2> QED
      BY <1>1, <1>9, <2>9, <2>10, StepKept
  <1> QED
    BY <1>6, <1>8, <1>9 DEF HeadersAnswer

\* The block that a sync is at: there is one, and the wallet has seen what is below.
LEMMA AtBlock ==
    ASSUME PlainKept, NEW s \in syncs, s.stage \in {"block", "txs"}
    PROVE  /\ Head(s.heads) = s.heads[1] /\ s.heads[1] \in DaemonHeights /\ s.heads[1] \in Nat
           /\ SeenBelow(fate, s.heads[1])
           /\ s = [id |-> s.id, at |-> s.at, end |-> s.end, heads |-> s.heads,
                   stage |-> s.stage, first |-> s.first]
           /\ SyncKept(s, plain, fate, served.blocks)
  <1>1. SyncKept(s, plain, fate, served.blocks)
    BY DEF PlainKept
  <1>2. PICK n \in {s.at, s.end} : n <= s.end /\ HeadsTo(s.heads, n)
    BY <1>1 DEF SyncKept
  <1>3. s.at \in Nat /\ s.end \in Nat /\ s.end <= served.blocks /\ n \in Nat
    BY <1>1, <1>2 DEF SyncKept
  <1>4. s.heads \in Seq(Nat) /\ s.heads # <<>> /\ s.heads[1] + Len(s.heads) = n
    BY <1>2 DEF HeadsTo
  <1>5. Head(s.heads) = s.heads[1] /\ s.heads[1] \in Nat /\ Len(s.heads) \in Nat /\ Len(s.heads) >= 1
    BY <1>4
  <1>6. s.heads[1] < Len(DaemonBlocks)
    BY <1>2, <1>3, <1>4, <1>5, KeptNumbers
  <1>7. s.heads[1] \in DaemonHeights
    BY <1>5, <1>6, KeptNumbers
  <1> QED
    BY <1>1, <1>5, <1>7 DEF SyncKept

\* When the head of a batch has been seen, the sync goes on to the next one.
LEMMA NextHeadKept ==
    ASSUME PlainKept, NEW s \in syncs, s.stage \in {"block", "txs"}, NEW v, NEW g,
           Grows(fate, g), g[s.heads[1]] # "unseen"
    PROVE  SyncKept(NextHead(s), v, g, served.blocks)
  <1> DEFINE h == s.heads[1]
             rest == Tail(s.heads)
             t == NextHead(s)
             stage == IF rest = <<>> THEN "headers" ELSE "block"
  <1>1. /\ h \in DaemonHeights /\ h \in Nat /\ SeenBelow(fate, h)
        /\ s = [id |-> s.id, at |-> s.at, end |-> s.end, heads |-> s.heads,
                stage |-> s.stage, first |-> s.first]
        /\ SyncKept(s, plain, fate, served.blocks)
    BY AtBlock
  <1>2. PICK n \in {s.at, s.end} : n <= s.end /\ HeadsTo(s.heads, n)
    BY <1>1 DEF SyncKept
  <1>3. s.at \in Nat /\ s.end \in Nat /\ s.end <= served.blocks /\ n \in Nat
    BY <1>1, <1>2 DEF SyncKept
  <1>4. t = [id |-> s.id, at |-> s.at, end |-> s.end, heads |-> rest, stage |-> stage,
             first |-> s.first]
    <2>1. t = [s EXCEPT !.heads = rest, !.stage = stage]
      BY DEF NextHead
    <2> HIDE DEF t, rest, stage
    <2>2. s = [id |-> s.id, at |-> s.at, end |-> s.end, heads |-> s.heads,
               stage |-> s.stage, first |-> s.first]
      BY <1>1
    <2> QED
      BY <2>1, <2>2
  <1>5. SeenBelow(g, h)
    BY <1>1, SeenStays
  <1>6. SeenBelow(g, h + 1)
    <2> SUFFICES ASSUME NEW k \in DaemonHeights, k < h + 1 PROVE g[k] # "unseen"
      BY DEF SeenBelow
    <2>1. k \in Nat
      BY KeptNumbers
    <2>2. k = h \/ k < h
      BY <1>1, <2>1
    <2> QED
      BY <1>5, <2>2 DEF SeenBelow
  <1>7. /\ s.heads \in Seq(Nat) /\ s.heads # <<>> /\ h + Len(s.heads) = n
        /\ \A i \in 1 .. Len(s.heads) : s.heads[i] = h + i - 1
    BY <1>2 DEF HeadsTo
  <1>8. rest \in Seq(Nat) /\ Len(rest) = Len(s.heads) - 1 /\ Len(s.heads) \in Nat
        /\ \A i \in 1 .. Len(rest) : rest[i] = s.heads[i + 1]
    BY <1>7
  <1>11. h \in Nat /\ n \in Nat
    BY <1>1, <1>3
  <1> HIDE DEF t
  <1>9. CASE rest = <<>>
    <2> HIDE DEF rest
    <2>1. Len(rest) = 0
      BY <1>9
    <2> USE DEF rest
    <2>2. n = h + 1
      BY <1>1, <1>7, <1>8, <2>1
    <2>3. stage = "headers"
      BY <1>9
    <2> HIDE DEF rest, stage
    <2>4. SeenBelow(g, t.at) \/ SeenBelow(g, t.end)
      BY <1>2, <1>4, <1>6, <2>2
    <2> QED
      BY <1>3, <1>4, <2>3, <2>4 DEF SyncKept, t
  <1>10. CASE rest # <<>>
    <2>1. Len(rest) >= 1 /\ Len(rest) \in Nat
      BY <1>8, <1>10
    <2>2. rest[1] = h + 1
      <3>1. 1 \in 1 .. Len(rest) /\ 2 \in 1 .. Len(s.heads)
        BY <1>8, <2>1
      <3>2. rest[1] = s.heads[1 + 1]
        BY <1>8, <3>1
      <3> HIDE DEF rest, h
      <3>3. s.heads[2] = h + 2 - 1
        BY <1>7, <3>1
      <3>4. h \in Nat /\ 1 + 1 = 2
        BY <1>11
      <3> QED
        BY <3>2, <3>3, <3>4
    <2>3. \A i \in 1 .. Len(rest) : rest[i] = rest[1] + i - 1
      <3> SUFFICES ASSUME NEW i \in 1 .. Len(rest) PROVE rest[i] = rest[1] + i - 1
        OBVIOUS
      <3>1. rest[i] = s.heads[i + 1] /\ i + 1 \in 1 .. Len(s.heads)
        BY <1>8, <2>1
      <3>2. s.heads[i + 1] = h + (i + 1) - 1
        BY <1>7, <3>1
      <3>3. i \in Nat
        BY <2>1
      <3> HIDE DEF rest, h
      <3> QED
        BY <1>11, <2>2, <3>1, <3>2, <3>3
    <2>4. rest[1] + Len(rest) = n
      <3>1. h + Len(s.heads) = n /\ Len(rest) = Len(s.heads) - 1 /\ Len(s.heads) \in Nat
        <4> HIDE DEF rest, h
        <4> QED
          BY <1>7, <1>8
      <3>2. h \in Nat
        BY <1>11
      <3>3. rest[1] = h + 1
        BY <2>2
      <3> DEFINE few == Len(rest)
                 all == Len(s.heads)
                 first == rest[1]
      <3>4. h + all = n /\ few = all - 1 /\ all \in Nat /\ first = h + 1
        BY <3>1, <3>3
      <3> HIDE DEF rest, h, few, all, first
      <3>5. first + few = n
        BY <3>2, <3>4
      <3> QED
        BY <3>5 DEF first, few
    <2>5. stage = "block"
      BY <1>10
    <2> HIDE DEF stage
    <2>6. HeadsTo(rest, n)
      BY <1>8, <1>10, <2>3, <2>4 DEF HeadsTo
    <2> HIDE DEF rest
    <2>7. \E k \in {t.at, t.end} : k <= t.end /\ HeadsTo(t.heads, k)
      BY <1>2, <1>4, <2>6
    <2>8. SeenBelow(g, t.heads[1])
      BY <1>4, <1>6, <2>2
    <2> QED
      BY <1>3, <1>4, <2>5, <2>7, <2>8 DEF SyncKept, t
  <1> QED
    BY <1>9, <1>10

\* A transaction that the wallet looks at: it is kept, at whatever height it is then.
LEMMA ReadKept ==
    ASSUME NEW w, NEW f, WalletKept(w, f), NEW tx, NEW h \in DaemonHeights, SeenBelow(f, h)
    PROVE  /\ WalletKept([ProcessTransaction(w, tx) EXCEPT !.height = h], f)
           /\ KeepsListed(w, [ProcessTransaction(w, tx) EXCEPT !.height = h])
           /\ w.kind # "full" => Lists([ProcessTransaction(w, tx) EXCEPT !.height = h], tx)
  <1> DEFINE v == ProcessTransaction(w, tx)
             u == [v EXCEPT !.height = h]
  <1>1. WalletKept(v, f) /\ KeepsListed(w, v) /\ (w.kind # "full" => Lists(v, tx))
    BY ProcessKept
  <1> HIDE DEF v
  <1>2. v = [kind |-> v.kind, height |-> v.height, utxos |-> v.utxos, spent |-> v.spent,
             syncing |-> v.syncing, calls |-> v.calls, begun |-> v.begun, uses |-> v.uses]
    BY <1>1 DEF WalletKept
  <1>3. u = [kind |-> v.kind, height |-> h, utxos |-> v.utxos, spent |-> v.spent,
             syncing |-> v.syncing, calls |-> v.calls, begun |-> v.begun, uses |-> v.uses]
    BY <1>2
  <1> HIDE DEF u
  <1>4. \A t : Lists(v, t) => Lists(u, t)
    BY <1>3 DEF Lists
  <1>5. WalletKept(u, f)
    BY <1>1, <1>3, <1>4 DEF WalletKept
  <1>6. KeepsListed(w, u)
    BY <1>1, <1>3 DEF KeepsListed
  <1> QED
    BY <1>1, <1>4, <1>5, <1>6 DEF u, v

\* A block passed over, because the daemon refused it: it is no longer unseen.
LEMMA PassOne ==
    ASSUME fate \in [DaemonHeights -> Fates], NEW h \in DaemonHeights, h \in Nat,
           fate' = PassedOver(h, h + 1)
    PROVE  Grows(fate, fate') /\ ReadsNoMore(fate, fate') /\ fate'[h] # "unseen" /\ fate' \in [DaemonHeights -> Fates]
  <1>1. h \in h .. (h + 1) - 1
    OBVIOUS
  <1> QED
    BY <1>1, PassedGrows DEF Grows

\* getBlock answers, or does not.
LEMMA BlockKept ==
    ASSUME PlainKept, NEW s \in syncs, BlockAnswers(s)
    PROVE  PlainKept'
  <1> DEFINE h == s.heads[1]
  <1>0. /\ WalletKept(plain, fate) /\ served.blocks \in Nat /\ KeepsListed(plain, plain)
        /\ SyncsKept(syncs, plain, fate, served.blocks) /\ Grows(fate, fate)
        /\ fate \in [DaemonHeights -> Fates]
    BY KeptNumbers DEF PlainKept, KeepsListed
  <1>1. s.stage = "block" /\ UNCHANGED subs
    BY DEF BlockAnswers
  <1>2. /\ Head(s.heads) = h /\ h \in DaemonHeights /\ h \in Nat /\ SeenBelow(fate, h)
        /\ s = [id |-> s.id, at |-> s.at, end |-> s.end, heads |-> s.heads,
                stage |-> s.stage, first |-> s.first]
        /\ SyncKept(s, plain, fate, served.blocks)
    BY <1>1, AtBlock
  <1>3. \/ /\ plain' = ProcessTransaction(plain, DaemonBlock(h).miner)
           /\ Move(s, [s EXCEPT !.stage = "txs"]) /\ UNCHANGED <<served, timers, fate>>
        \/ Over(s) /\ UNCHANGED <<plain, served, fate>>
        \/ Refuse /\ Move(s, NextHead(s)) /\ fate' = PassedOver(h, h + 1) /\ UNCHANGED <<plain, timers>>
    BY <1>2 DEF BlockAnswers
  <1> HIDE DEF h
  <1>4. CASE /\ plain' = ProcessTransaction(plain, DaemonBlock(h).miner)
             /\ Move(s, [s EXCEPT !.stage = "txs"]) /\ UNCHANGED <<served, timers, fate>>
    <2> DEFINE t == [s EXCEPT !.stage = "txs"]
    <2>1. /\ WalletKept(plain', fate) /\ KeepsListed(plain, plain')
          /\ plain.kind # "full" => Lists(plain', DaemonBlock(h).miner)
      BY <1>0, <1>4, ProcessKept
    <2>2. t = [id |-> s.id, at |-> s.at, end |-> s.end, heads |-> s.heads, stage |-> "txs",
               first |-> s.first]
      BY <1>2
    <2> HIDE DEF t
    <2>3. plain'.kind = "view_only" => Lists(plain', DaemonBlock(t.heads[1]).miner)
      BY <2>1, <2>2 DEF KeepsListed, h
    <2>4. SyncKept(t, plain', fate, served.blocks)
      BY <1>1, <1>2, <2>2, <2>3 DEF SyncKept, h
    <2>5. Move(s, t)
      BY <1>4 DEF t
    <2>6. SyncsKept(syncs', plain', fate, served.blocks)
      BY <1>0, <2>1, <2>4, <2>5, MoveKept
    <2> QED
      BY <1>0, <1>1, <1>4, <2>1, <2>6, StepKept
  <1>5. CASE Over(s) /\ UNCHANGED <<plain, served, fate>>
    <2>1. SyncsKept(syncs', plain, fate, served.blocks)
      BY <1>0, <1>5, OverKept
    <2> QED
      BY <1>0, <1>1, <1>5, <2>1, StepKept
  <1>6. CASE /\ Refuse /\ Move(s, NextHead(s)) /\ fate' = PassedOver(h, h + 1)
             /\ UNCHANGED <<plain, timers>>
    <2>1. /\ Grows(fate, fate') /\ ReadsNoMore(fate, fate')
          /\ fate'[h] # "unseen" /\ fate' \in [DaemonHeights -> Fates]
      BY <1>0, <1>2, <1>6, PassOne
    <2>2. SyncKept(NextHead(s), plain, fate', served.blocks)
      BY <1>1, <2>1, NextHeadKept DEF h
    <2>3. SyncsKept(syncs', plain, fate', served.blocks)
      BY <1>0, <1>6, <2>1, <2>2, MoveKept
    <2>4. WalletKept(plain, fate')
      BY <1>0, <2>1, WalletStays
    <2> QED
      BY <1>1, <1>6, <2>1, <2>3, <2>4, StepKept
  <1> QED
    BY <1>3, <1>4, <1>5, <1>6

\* getTransactions answers, or does not: the wallet's height is the block's then.
LEMMA TransactionsKept ==
    ASSUME PlainKept, NEW s \in syncs, TransactionsAnswer(s)
    PROVE  PlainKept'
  <1> DEFINE h == s.heads[1]
             tx == DaemonBlock(h).tx
             read == [fate EXCEPT ![h] = "read"]
  <1>0. /\ WalletKept(plain, fate) /\ served.blocks \in Nat /\ KeepsListed(plain, plain)
        /\ SyncsKept(syncs, plain, fate, served.blocks) /\ Grows(fate, fate)
        /\ fate \in [DaemonHeights -> Fates]
    BY KeptNumbers DEF PlainKept, KeepsListed
  <1>1. s.stage = "txs" /\ UNCHANGED subs
    BY DEF TransactionsAnswer
  <1>2. /\ Head(s.heads) = h /\ h \in DaemonHeights /\ h \in Nat /\ SeenBelow(fate, h)
        /\ SyncKept(s, plain, fate, served.blocks)
    BY <1>1, AtBlock
  <1>3. \/ /\ plain' = [ProcessTransaction(plain, tx) EXCEPT !.height = h]
           /\ fate' = read /\ Move(s, NextHead(s)) /\ UNCHANGED <<served, timers>>
        \/ Over(s) /\ UNCHANGED <<plain, served, fate>>
        \/ /\ Refuse /\ plain' = [plain EXCEPT !.height = h]
           /\ fate' = PassedOver(h, h + 1) /\ Move(s, NextHead(s)) /\ UNCHANGED timers
    BY <1>2 DEF TransactionsAnswer
  <1>4. plain.kind = "view_only" => Lists(plain, DaemonBlock(h).miner)
    BY <1>1, <1>2 DEF SyncKept
  <1> HIDE DEF h, tx
  <1>5. CASE /\ plain' = [ProcessTransaction(plain, tx) EXCEPT !.height = h]
             /\ fate' = read /\ Move(s, NextHead(s)) /\ UNCHANGED <<served, timers>>
    <2>1. /\ WalletKept(plain', fate) /\ KeepsListed(plain, plain')
          /\ plain.kind # "full" => Lists(plain', tx)
      BY <1>0, <1>2, <1>5, ReadKept
    <2>2. /\ fate' \in [DaemonHeights -> Fates] /\ fate'[h] = "read"
          /\ \A k \in DaemonHeights : k # h => fate'[k] = fate[k]
      BY <1>0, <1>2, <1>5 DEF Fates
    <2>3. SeenBelow(fate', plain'.height)
      BY <1>2, <2>1, <2>2 DEF SeenBelow, WalletKept
    <2>4. plain'.kind = "view_only" => Lists(plain', DaemonBlock(h).miner) /\ Lists(plain', tx)
      BY <1>4, <2>1, ListsStay DEF KeepsListed
    <2>5. WalletKept(plain', fate')
      <3>1. \A k \in DaemonHeights : fate'[k] = "read" /\ plain'.kind = "view_only" =>
                Lists(plain', DaemonBlock(k).miner) /\ Lists(plain', DaemonBlock(k).tx)
        BY <2>1, <2>2, <2>4 DEF WalletKept, tx
      <3> QED
        BY <2>1, <2>3, <3>1 DEF WalletKept
    <2>6. Grows(fate, fate') /\ fate'[h] # "unseen"
      BY <2>2 DEF Grows
    <2>7. SyncKept(NextHead(s), plain', fate', served.blocks)
      BY <1>1, <2>6, NextHeadKept DEF h
    <2>8. SyncsKept(syncs', plain', fate', served.blocks)
      BY <1>0, <1>5, <2>1, <2>6, <2>7, MoveKept
    <2> QED
      BY <1>1, <1>5, <2>2, <2>5, <2>8, StepKept
  <1>6. CASE Over(s) /\ UNCHANGED <<plain, served, fate>>
    <2>1. SyncsKept(syncs', plain, fate, served.blocks)
      BY <1>0, <1>6, OverKept
    <2> QED
      BY <1>0, <1>1, <1>6, <2>1, StepKept
  <1>7. CASE /\ Refuse /\ plain' = [plain EXCEPT !.height = h]
             /\ fate' = PassedOver(h, h + 1) /\ Move(s, NextHead(s)) /\ UNCHANGED timers
    <2>1. /\ Grows(fate, fate') /\ ReadsNoMore(fate, fate')
          /\ fate'[h] # "unseen" /\ fate' \in [DaemonHeights -> Fates]
      BY <1>0, <1>2, <1>7, PassOne
    <2>2. plain' = [kind |-> plain.kind, height |-> h, utxos |-> plain.utxos,
                    spent |-> plain.spent, syncing |-> plain.syncing, calls |-> plain.calls,
                    begun |-> plain.begun, uses |-> plain.uses]
      <3>1. plain = [kind |-> plain.kind, height |-> plain.height, utxos |-> plain.utxos,
                     spent |-> plain.spent, syncing |-> plain.syncing, calls |-> plain.calls,
                     begun |-> plain.begun, uses |-> plain.uses]
        BY <1>0 DEF WalletKept
      <3> QED
        BY <1>7, <3>1
    <2>3. KeepsListed(plain, plain')
      BY <2>2 DEF KeepsListed
    <2>4. WalletKept(plain', fate)
      BY <1>0, <1>2, <2>2 DEF WalletKept, Lists
    <2>5. WalletKept(plain', fate')
      BY <2>1, <2>4, WalletStays
    <2>6. SyncKept(NextHead(s), plain', fate', served.blocks)
      BY <1>1, <2>1, NextHeadKept DEF h
    <2>7. SyncsKept(syncs', plain', fate', served.blocks)
      BY <1>0, <1>7, <2>1, <2>3, <2>6, MoveKept
    <2> QED
      BY <1>1, <1>7, <2>1, <2>5, <2>7, StepKept
  <1> QED
    BY <1>3, <1>5, <1>6, <1>7

\* Accounts and subaddresses: the rest of the wallet is as it was.
LEMMA SubsKept ==
    ASSUME PlainKept, GoodBook(subs), AskSubaddress \/ CreateAccount \/ CreateSubaddress
    PROVE  PlainKept'
  <1>0. /\ WalletKept(plain, fate) /\ served.blocks \in Nat /\ Grows(fate, fate)
        /\ SyncsKept(syncs, plain, fate, served.blocks)
    BY KeptNumbers
  <1>1. UNCHANGED <<syncs, timers, served, fate>>
    BY DEF AskSubaddress, CreateAccount, CreateSubaddress
  <1>2. \E method : Calls(method, plain)
    BY DEF AskSubaddress, CreateAccount, CreateSubaddress
  <1>3. WalletKept(plain', fate) /\ KeepsListed(plain, plain')
    BY <1>0, <1>2, CallKept
  <1>4. SyncsKept(syncs, plain', fate, served.blocks)
    BY <1>0, <1>3, OthersStay
  <1>5. subs = [accounts |-> subs.accounts, next |-> subs.next, cached |-> subs.cached,
                given |-> subs.given, again |-> subs.again, early |-> subs.early]
    BY DEF GoodBook, Books
  <1>6. ASSUME NEW major, NEW minor
        PROVE  \E next, cached :
                  GetSubaddress(subs, major, minor) =
                     [accounts |-> subs.accounts, next |-> next, cached |-> cached,
                      given |-> subs.given, again |-> subs.again, early |-> subs.early]
    <2> DEFINE book == GetSubaddress(subs, major, minor)
               cached == subs.cached \union {<<major, minor>>}
               next == IF minor >= NextIndex(major) THEN SetNext(subs.next, major, minor + 1)
                       ELSE subs.next
    <2>1. CASE book = subs
      BY <1>5, <2>1
    <2>2. CASE book # subs
      <3>1. book = [subs EXCEPT !.cached = cached, !.next = next]
        BY <2>2 DEF GetSubaddress
      <3> HIDE DEF book, cached, next
      <3>2. book = [accounts |-> subs.accounts, next |-> next, cached |-> cached,
                    given |-> subs.given, again |-> subs.again, early |-> subs.early]
        BY <1>5, <3>1
      <3> QED
        BY <3>2 DEF book
    <2> QED
      BY <2>1, <2>2
  <1>7. subs'.accounts \in 1 .. MostAccounts
    <2>0. subs.accounts \in 1 .. MostAccounts /\ MostAccounts \in Nat
      BY PlainAssumption DEF PlainKept, PlainAssumption
    <2>1. CASE AskSubaddress
      <3>1. PICK major \in 0 .. MostAccounts - 1, minor \in AskedMinors :
               subs' = [GetSubaddress(subs, major, minor) EXCEPT
                          !.early = IF major >= subs.accounts THEN @ \union {major} ELSE @]
        BY <2>1 DEF AskSubaddress
      <3> QED
        BY <1>6, <2>0, <3>1
    <2>2. CASE CreateAccount
      BY <1>5, <2>0, <2>2 DEF CreateAccount
    <2>3. CASE CreateSubaddress
      <3>1. PICK a \in 0 .. subs.accounts - 1 :
               subs' = [GetSubaddress(subs, a, NextIndex(a)) EXCEPT
                          !.given = @ \union {<<a, NextIndex(a)>>},
                          !.again = IF <<a, NextIndex(a)>> \in subs.given THEN @ \union {a} ELSE @]
        BY <2>3 DEF CreateSubaddress
      <3> QED
        BY <1>6, <2>0, <3>1
    <2> QED
      BY <2>1, <2>2, <2>3
  <1> QED
    BY <1>1, <1>3, <1>4, <1>7 DEF PlainKept, SyncsKept

\* The invariant holds at first.
LEMMA PlainKeptInit ==
    ASSUME PlainInit
    PROVE  PlainKept
  <1>1. PICK kind \in WalletKinds, uses \in Programs : plain = NewWallet(kind, uses)
    BY DEF PlainInit
  <1>2. plain = [kind |-> kind, height |-> 0, utxos |-> {}, spent |-> {}, syncing |-> FALSE,
                 calls |-> 0, begun |-> 0, uses |-> uses]
    BY <1>1 DEF NewWallet
  <1>3. Len(DaemonBlocks) \in Nat /\ FirstBlocks \in 1 .. Len(DaemonBlocks) /\ MostAccounts \in Nat \ {0}
    BY PlainAssumption DEF PlainAssumption
  <1>4. fate = [h \in DaemonHeights |-> "unseen"] /\ syncs = {}
        /\ served = [blocks |-> FirstBlocks, refused |-> 0] /\ subs.accounts = 1
    BY DEF PlainInit
  <1>5. fate \in [DaemonHeights -> Fates] /\ \A h \in DaemonHeights : fate[h] = "unseen"
    BY <1>4 DEF Fates
  <1>6. 0 \in DaemonHeights /\ SeenBelow(fate, 0)
    BY <1>3 DEF DaemonHeights, SeenBelow
  <1>7. WalletKept(plain, fate)
    BY <1>2, <1>5, <1>6 DEF WalletKept
  <1> QED
    BY <1>3, <1>4, <1>5, <1>7 DEF PlainKept

\* Whatever the program calls, the daemon answers or refuses, and the intervals
\* start, in whatever order and with however many syncs at once: what the wallet
\* knows as spent it does not list, below its height it has passed over nothing
\* unless the daemon refused or somebody chose to, and it lists what it read.
THEOREM PlainWalletHolds == PlainInit /\ [][PlainNext]_plainVars => [](PlainTypeOK /\ PlainHolds)
  <1>1. PlainInit => PlainKept
    BY PlainKeptInit
  <1>2. PlainKept /\ GoodBook(subs) /\ [PlainNext]_plainVars => PlainKept'
    <2> SUFFICES ASSUME PlainKept, GoodBook(subs), [PlainNext]_plainVars PROVE PlainKept'
      OBVIOUS
    <2>1. ASSUME NEW s \in syncs,
                 InfoAnswers(s) \/ HeadersAnswer(s) \/ BlockAnswers(s) \/ TransactionsAnswer(s)
          PROVE  PlainKept'
      BY <2>1, InfoKept, HeadersKept, BlockKept, TransactionsKept
    <2>2. CASE UNCHANGED plainVars
      BY <2>2 DEF PlainKept, plainVars
    <2>3. CASE UserAddsOutput \/ UserMarksSpent
      BY <2>3, UserOutputsKept
    <2>4. CASE UserSyncs
      BY <2>4, UserSyncsKept
    <2>5. CASE StartSyncing \/ StopSyncing \/ Tick
      BY <2>5, IntervalsKept
    <2>6. CASE BlockComes
      BY <2>6, BlockComesKept
    <2>7. CASE AskSubaddress \/ CreateAccount \/ CreateSubaddress
      BY <2>7, SubsKept
    <2>8. CASE Restore
      BY <2>8, RestoreKept
    <2> QED
      BY <2>1, <2>2, <2>3, <2>4, <2>5, <2>6, <2>7, <2>8 DEF PlainNext
  <1>3. PlainKept => PlainTypeOK /\ SpentIsNotListed /\ NothingPassedOver
    <2> SUFFICES ASSUME PlainKept PROVE PlainTypeOK /\ SpentIsNotListed /\ NothingPassedOver
      OBVIOUS
    <2>1. /\ plain.height \in DaemonHeights /\ DaemonHeights = 0 .. Len(DaemonBlocks) - 1
          /\ Len(DaemonBlocks) \in Nat /\ WalletKept(plain, fate)
      BY KeptNumbers
    <2>2. PlainTypeOK
      BY <2>1 DEF PlainTypeOK, PlainKept, SyncKept, HeadsTo
    <2>3. SpentIsNotListed
      BY <2>1 DEF SpentIsNotListed, WalletKept
    <2>4. \A h \in 0 .. plain.height - 1 : h \in DaemonHeights /\ h < plain.height
      BY <2>1
    <2>5. NothingPassedOver
      BY <2>1, <2>4 DEF NothingPassedOver, WalletKept, SeenBelow, Lists
    <2> QED
      BY <2>2, <2>3, <2>5
  <1>4. PlainInit => GoodBook(subs)
    BY BookInit
  <1>5. GoodBook(subs) /\ [PlainNext]_plainVars => GoodBook(subs')
    BY BookStep
  <1>6. GoodBook(subs) => FreshIndices
    BY DEF GoodBook, FreshIndices
  <1>7. (GoodBook(subs))' <=> GoodBook(subs')
    BY DEF GoodBook, NextIn
  <1> QED
    BY <1>1, <1>2, <1>3, <1>4, <1>5, <1>6, <1>7, PTL DEF PlainHolds

-----------------------------------------------------------------------------
(***************************************************************************)
(* The node of the testnet                                                  *)
(***************************************************************************)
\* The key images that a list of transfers spends, whatever the list of those
\* built is.
SpentBy(tx) == {OutputImage(o) : o \in ToSet(tx.ins)}
ImagesIn(built, txs) == UNION {SpentBy(built[n]) : n \in ToSet(txs)}

\* The inductive invariant: blocks and mempool hold transfers that were built; what
\* a block spends is recorded, and what the mempool spends is not recorded yet.
NodeInv ==
    /\ \E S : transfers \in Seq(S)
    /\ blocks \in Seq(Seq(Nat)) /\ mempool \in Seq(Nat)
    /\ \A h \in DOMAIN blocks : ToSet(blocks[h]) \subseteq DOMAIN transfers
    /\ ToSet(mempool) \subseteq DOMAIN transfers
    /\ \A h \in DOMAIN blocks : ImagesOf(blocks[h]) \subseteq spentImages
    /\ ImagesOf(mempool) \intersect spentImages = {}
    /\ SpentInOneBlock

\* Two lists of transfers that agree on what is named spend the same.
LEMMA ImagesAgree ==
    ASSUME NEW built, NEW later, NEW txs, \A n \in ToSet(txs) : later[n] = built[n]
    PROVE  ImagesIn(later, txs) = ImagesIn(built, txs)
  BY DEF ImagesIn

\* A list with one more transfer names that one too.
LEMMA NamedAfter ==
    ASSUME NEW txs \in Seq(Nat), NEW n \in Nat
    PROVE  ToSet(Append(txs, n)) = ToSet(txs) \union {n}
  BY AppendProperties DEF ToSet

\* An empty list of transfers names none and spends nothing.
LEMMA NothingNamed ==
    ASSUME NEW built
    PROVE  ToSet(<<>>) = {} /\ ImagesIn(built, <<>>) = {}
  BY DEF ToSet, ImagesIn

\* A block takes the mempool, whose images become recorded.
LEMMA MineSpends ==
    ASSUME NodeInv, Mine
    PROVE  NodeInv'
  <1>1. /\ blocks' = Append(blocks, mempool) /\ mempool' = <<>>
        /\ spentImages' = spentImages \union ImagesOf(mempool) /\ transfers' = transfers
    BY DEF Mine
  <1>2. /\ blocks \in Seq(Seq(Nat)) /\ mempool \in Seq(Nat)
        /\ \A h \in DOMAIN blocks : ToSet(blocks[h]) \subseteq DOMAIN transfers
        /\ ToSet(mempool) \subseteq DOMAIN transfers
        /\ \A h \in DOMAIN blocks : ImagesOf(blocks[h]) \subseteq spentImages
        /\ ImagesOf(mempool) \intersect spentImages = {}
        /\ SpentInOneBlock
    BY DEF NodeInv
  <1>3. /\ blocks' \in Seq(Seq(Nat)) /\ Len(blocks') = Len(blocks) + 1
        /\ DOMAIN blocks' = 1 .. Len(blocks) + 1 /\ DOMAIN blocks = 1 .. Len(blocks)
        /\ Len(blocks) \in Nat
        /\ \A h \in 1 .. Len(blocks) : blocks'[h] = blocks[h]
        /\ blocks'[Len(blocks) + 1] = mempool
    BY <1>1, <1>2, AppendProperties
  <1>4. \A txs : ImagesIn(transfers', txs) = ImagesIn(transfers, txs)
    BY <1>1
  <1>5. \A h \in DOMAIN blocks' :
           \/ h \in DOMAIN blocks /\ blocks'[h] = blocks[h]
           \/ h = Len(blocks) + 1 /\ blocks'[h] = mempool
    BY <1>3
  <1>6. \A h \in DOMAIN blocks' : ToSet(blocks'[h]) \subseteq DOMAIN transfers'
    BY <1>1, <1>2, <1>5
  <1>7. mempool' \in Seq(Nat) /\ ToSet(mempool') = {} /\ ImagesIn(transfers', mempool') = {}
    BY <1>1, NothingNamed, EmptySeq
  <1>8. \A h \in DOMAIN blocks' : ImagesIn(transfers', blocks'[h]) \subseteq spentImages'
    <2>1. \A h \in DOMAIN blocks : ImagesIn(transfers, blocks[h]) \subseteq spentImages
      BY <1>2 DEF ImagesOf, ImagesIn, SpentBy
    <2>2. spentImages' = spentImages \union ImagesIn(transfers, mempool)
      BY <1>1 DEF ImagesOf, ImagesIn, SpentBy
    <2> QED
      BY <1>4, <1>5, <2>1, <2>2
  <1>9. ASSUME NEW h \in DOMAIN blocks', NEW k \in DOMAIN blocks', h # k
        PROVE  ImagesIn(transfers', blocks'[h]) \intersect ImagesIn(transfers', blocks'[k]) = {}
    <2>1. /\ \A i \in DOMAIN blocks : ImagesIn(transfers, blocks[i]) \subseteq spentImages
          /\ ImagesIn(transfers, mempool) \intersect spentImages = {}
          /\ \A i, j \in DOMAIN blocks : i # j =>
                ImagesIn(transfers, blocks[i]) \intersect ImagesIn(transfers, blocks[j]) = {}
      BY <1>2 DEF ImagesOf, ImagesIn, SpentBy, SpentInOneBlock
    <2>2. CASE h \in DOMAIN blocks /\ k \in DOMAIN blocks
      BY <1>3, <1>4, <1>9, <2>1, <2>2
    <2>3. CASE h \in DOMAIN blocks /\ k = Len(blocks) + 1
      BY <1>3, <1>4, <2>1, <2>3
    <2>4. CASE h = Len(blocks) + 1 /\ k \in DOMAIN blocks
      BY <1>3, <1>4, <2>1, <2>4
    <2> QED
      BY <1>5, <1>9, <2>2, <2>3, <2>4
  <1>10. \E S : transfers' \in Seq(S)
    BY <1>1 DEF NodeInv
  <1>11. SpentInOneBlock'
    BY <1>9 DEF SpentInOneBlock, ImagesOf, ImagesIn, SpentBy
  <1>12. \A h \in DOMAIN blocks' : ImagesOf(blocks[h])' \subseteq spentImages'
    BY <1>8 DEF ImagesOf, ImagesIn, SpentBy
  <1>13. ImagesOf(mempool)' = {}
    BY <1>7 DEF ImagesOf, ImagesIn, SpentBy
  <1> QED
    BY <1>3, <1>6, <1>7, <1>10, <1>11, <1>12, <1>13 DEF NodeInv

\* The mempool takes transfer n, which is built by then, when no block spends what
\* it spends; the list of those built may have grown.
LEMMA AcceptKeeps ==
    ASSUME NodeInv, UNCHANGED <<blocks, spentImages>>,
           \E S : transfers' \in Seq(S), Len(transfers') \in Nat,
           Len(transfers) <= Len(transfers'),
           \A i \in DOMAIN transfers : transfers'[i] = transfers[i],
           \/ mempool' = mempool
           \/ \E n \in DOMAIN transfers' :
                 mempool' = Append(mempool, n) /\ Accepts(transfers'[n].ins)
    PROVE  NodeInv'
  <1>1. /\ blocks \in Seq(Seq(Nat)) /\ mempool \in Seq(Nat)
        /\ \A h \in DOMAIN blocks : ToSet(blocks[h]) \subseteq DOMAIN transfers
        /\ ToSet(mempool) \subseteq DOMAIN transfers
        /\ \A h \in DOMAIN blocks : ImagesIn(transfers, blocks[h]) \subseteq spentImages
        /\ ImagesIn(transfers, mempool) \intersect spentImages = {}
        /\ \A h, k \in DOMAIN blocks :
              h # k => ImagesIn(transfers, blocks[h]) \intersect ImagesIn(transfers, blocks[k]) = {}
    <2>1. \A txs : ImagesOf(txs) = ImagesIn(transfers, txs)
      BY DEF ImagesOf, ImagesIn, SpentBy
    <2> QED
      BY <2>1 DEF NodeInv, SpentInOneBlock
  <1>2. DOMAIN transfers \subseteq DOMAIN transfers' /\ DOMAIN transfers' \subseteq Nat
    <2>1. DOMAIN transfers = 1 .. Len(transfers) /\ Len(transfers) \in Nat
      BY DEF NodeInv
    <2>2. DOMAIN transfers' = 1 .. Len(transfers')
      OBVIOUS
    <2> QED
      BY <2>1, <2>2
  <1>3. \A h \in DOMAIN blocks : ImagesIn(transfers', blocks[h]) = ImagesIn(transfers, blocks[h])
    <2> SUFFICES ASSUME NEW h \in DOMAIN blocks
                 PROVE  ImagesIn(transfers', blocks[h]) = ImagesIn(transfers, blocks[h])
      OBVIOUS
    <2>1. \A n \in ToSet(blocks[h]) : transfers'[n] = transfers[n]
      BY <1>1
    <2> QED
      BY <2>1, ImagesAgree
  <1>4. ImagesIn(transfers', mempool) = ImagesIn(transfers, mempool)
    <2>1. \A n \in ToSet(mempool) : transfers'[n] = transfers[n]
      BY <1>1
    <2> QED
      BY <2>1, ImagesAgree
  <1>5. /\ mempool' \in Seq(Nat) /\ ToSet(mempool') \subseteq DOMAIN transfers'
        /\ ImagesIn(transfers', mempool') \intersect spentImages = {}
    <2>1. CASE mempool' = mempool
      BY <1>1, <1>2, <1>4, <2>1
    <2>2. CASE \E n \in DOMAIN transfers' :
                  mempool' = Append(mempool, n) /\ Accepts(transfers'[n].ins)
      <3>1. PICK n \in DOMAIN transfers' :
               mempool' = Append(mempool, n) /\ Accepts(transfers'[n].ins)
        BY <2>2
      <3>2. n \in Nat
        BY <1>2
      <3>3. SpentBy(transfers'[n]) \intersect spentImages = {}
        BY <3>1 DEF Accepts, SpentBy
      <3>4. /\ mempool' \in Seq(Nat) /\ ToSet(mempool') = ToSet(mempool) \union {n}
            /\ ImagesIn(transfers', mempool') =
                  ImagesIn(transfers', mempool)
                    \union SpentBy(transfers'[n])
        <4>1. Append(mempool, n) \in Seq(Nat)
          BY <1>1, <3>2, AppendProperties
        <4>2. ToSet(Append(mempool, n)) = ToSet(mempool) \union {n}
          BY <1>1, <3>2, NamedAfter
        <4>3. ImagesIn(transfers', Append(mempool, n)) =
                 ImagesIn(transfers', mempool) \union SpentBy(transfers'[n])
          BY <4>2 DEF ImagesIn
        <4> QED
          BY <3>1, <4>1, <4>2, <4>3
      <3> QED
        BY <1>1, <1>2, <1>4, <3>3, <3>4
    <2> QED
      BY <2>1, <2>2
  <1>6. \A h \in DOMAIN blocks' : ToSet(blocks'[h]) \subseteq DOMAIN transfers'
    BY <1>1, <1>2
  <1>7. \A h \in DOMAIN blocks' : ImagesIn(transfers', blocks'[h]) \subseteq spentImages'
    BY <1>1, <1>3
  <1>8. \A h, k \in DOMAIN blocks' :
           h # k => ImagesIn(transfers', blocks'[h]) \intersect ImagesIn(transfers', blocks'[k]) = {}
    BY <1>1, <1>3
  <1>9. /\ \A h \in DOMAIN blocks' : ImagesOf(blocks[h])' \subseteq spentImages'
        /\ ImagesOf(mempool)' \intersect spentImages' = {}
        /\ SpentInOneBlock'
    BY <1>5, <1>7, <1>8 DEF SpentInOneBlock, ImagesOf, ImagesIn, SpentBy
  <1> QED
    BY <1>1, <1>5, <1>6, <1>9 DEF NodeInv

\* The end of a transfer: nothing is built, or one transfer is, which the mempool
\* takes when the node accepts it.
LEMMA SendsKeeps ==
    ASSUME NodeInv, NEW w \in Callers, TransferSends(w)
    PROVE  NodeInv'
  <1>1. UNCHANGED <<blocks, spentImages>>
    BY DEF TransferSends
  <1>2. PICK S : transfers \in Seq(S)
    BY DEF NodeInv
  <1>3. \/ UNCHANGED <<transfers, mempool>>
        \/ \E r : /\ transfers' = Append(transfers, r)
                  /\ r.ins = calls[w].ins
                  /\ \/ mempool' = mempool
                     \/ Accepts(calls[w].ins) /\ mempool' = Append(mempool, Len(transfers) + 1)
    BY DEF TransferSends
  <1>4. CASE UNCHANGED <<transfers, mempool>>
    BY <1>1, <1>2, <1>4, AcceptKeeps
  <1>5. ASSUME NEW r, transfers' = Append(transfers, r), r.ins = calls[w].ins,
               \/ mempool' = mempool
               \/ Accepts(calls[w].ins) /\ mempool' = Append(mempool, Len(transfers) + 1)
        PROVE  NodeInv'
    <2>1. transfers \in Seq(S \union {r}) /\ r \in S \union {r}
      BY <1>2
    <2>2. /\ transfers' \in Seq(S \union {r}) /\ Len(transfers') = Len(transfers) + 1
          /\ Len(transfers) \in Nat /\ DOMAIN transfers = 1 .. Len(transfers)
          /\ \A i \in 1 .. Len(transfers) : transfers'[i] = transfers[i]
          /\ transfers'[Len(transfers) + 1] = r
      BY <1>5, <2>1, AppendProperties
    <2>3. \/ mempool' = mempool
          \/ \E n \in DOMAIN transfers' :
                mempool' = Append(mempool, n) /\ Accepts(transfers'[n].ins)
      BY <1>5, <2>2
    <2> QED
      BY <1>1, <2>2, <2>3, AcceptKeeps
  <1> QED
    BY <1>3, <1>4, <1>5

\* What is sent again is accepted only while no block spends the same.
LEMMA SendAgainKeeps ==
    ASSUME NodeInv, NEW n \in DOMAIN transfers, SendRawTransaction(n)
    PROVE  NodeInv'
  <1>1. /\ UNCHANGED <<blocks, spentImages>> /\ transfers' = transfers
        /\ mempool' = Append(mempool, n) /\ Accepts(transfers'[n].ins)
    BY DEF SendRawTransaction
  <1>2. /\ \E S : transfers' \in Seq(S)
        /\ Len(transfers') \in Nat /\ Len(transfers) <= Len(transfers')
    BY <1>1 DEF NodeInv
  <1>3. n \in DOMAIN transfers' /\ \A i \in DOMAIN transfers : transfers'[i] = transfers[i]
    BY <1>1
  <1> QED
    BY <1>1, <1>2, <1>3, AcceptKeeps

\* Whatever does not touch the lists of the node keeps the invariant.
LEMMA NodeStutters ==
    ASSUME NodeInv, UNCHANGED <<blocks, mempool, spentImages, transfers>>
    PROVE  NodeInv'
  <1>1. /\ blocks' = blocks /\ mempool' = mempool /\ spentImages' = spentImages
        /\ transfers' = transfers
    OBVIOUS
  <1>2. /\ \A h \in DOMAIN blocks : ImagesIn(transfers, blocks[h]) \subseteq spentImages
        /\ ImagesIn(transfers, mempool) \intersect spentImages = {}
        /\ \A h, k \in DOMAIN blocks :
              h # k => ImagesIn(transfers, blocks[h]) \intersect ImagesIn(transfers, blocks[k]) = {}
    <2>1. \A txs : ImagesOf(txs) = ImagesIn(transfers, txs)
      BY DEF ImagesOf, ImagesIn, SpentBy
    <2> QED
      BY <2>1 DEF NodeInv, SpentInOneBlock
  <1>3. /\ \A h \in DOMAIN blocks' : ImagesOf(blocks[h])' \subseteq spentImages'
        /\ ImagesOf(mempool)' \intersect spentImages' = {}
        /\ SpentInOneBlock'
    BY <1>1, <1>2 DEF SpentInOneBlock, ImagesOf, ImagesIn, SpentBy
  <1>4. /\ \E S : transfers' \in Seq(S)
        /\ blocks' \in Seq(Seq(Nat)) /\ mempool' \in Seq(Nat)
        /\ \A h \in DOMAIN blocks' : ToSet(blocks'[h]) \subseteq DOMAIN transfers'
        /\ ToSet(mempool') \subseteq DOMAIN transfers'
    BY <1>1 DEF NodeInv
  <1> QED
    BY <1>3, <1>4 DEF NodeInv

\* No output is spent in two blocks, although every transfer offers again
\* what others spent, whatever calls select at once, whatever is sent again, and
\* whenever a block is mined in between.
THEOREM NoOutputTwice ==
    TestnetInit /\ [][TestnetNext]_testnetVars => []SpentInOneBlock
  <1>1. TestnetInit => NodeInv
    <2> SUFFICES ASSUME TestnetInit PROVE NodeInv
      OBVIOUS
    <2>1. blocks = <<>> /\ mempool = <<>> /\ transfers = <<>> /\ spentImages = {}
      BY DEF TestnetInit
    <2>2. transfers \in Seq(Nat)
      BY <2>1
    <2>3. ImagesOf(mempool) = {} /\ ToSet(mempool) = {}
      BY <2>1 DEF ImagesOf, ToSet
    <2> QED
      BY <2>1, <2>2, <2>3 DEF NodeInv, SpentInOneBlock
  <1>2. NodeInv /\ [TestnetNext]_testnetVars => NodeInv'
    <2> SUFFICES ASSUME NodeInv, [TestnetNext]_testnetVars PROVE NodeInv'
      OBVIOUS
    <2>1. CASE MineBlock
      BY <2>1, MineSpends DEF MineBlock
    <2>2. CASE \E k \in Callers, w, to \in Wallets, amount \in Amounts : TransferSelects(k, w, to, amount)
      BY <2>2, NodeStutters DEF TransferSelects
    <2>3. CASE \E w \in Callers : TransferSends(w)
      BY <2>3, SendsKeeps
    <2>4. CASE \E w \in Callers : TransferMines(w)
      BY <2>4, MineSpends, NodeStutters DEF TransferMines
    <2>5. CASE \E n \in DOMAIN transfers : SendRawTransaction(n)
      BY <2>5, SendAgainKeeps
    <2>6. CASE UNCHANGED testnetVars
      BY <2>6, NodeStutters DEF testnetVars
    <2> QED
      BY <2>1, <2>2, <2>3, <2>4, <2>5, <2>6 DEF TestnetNext
  <1>3. NodeInv => SpentInOneBlock
    BY DEF NodeInv
  <1> QED
    BY <1>1, <1>2, <1>3, PTL

-----------------------------------------------------------------------------
(***************************************************************************)
(* The manager of connections                                               *)
(***************************************************************************)
\* A set that holds 0 and the successor of each of its naturals holds them all.
LEMMA InductiveSet ==
    ASSUME NEW T, 0 \in T, \A n \in Nat : n \in T => n + 1 \in T
    PROVE  Nat \subseteq T
  <1> DEFINE Missing == Nat \ T
  <1> SUFFICES ASSUME Missing # {} PROVE FALSE
    OBVIOUS
  <1>1. PICK n \in Missing : \A m \in Missing : ~(<<m, n>> \in OpToRel(<, Nat))
    BY NatLessThanWellFounded, WFMin
  <1>2. \A m \in Missing : ~(m < n)
    BY <1>1 DEF OpToRel
  <1>3. n # 0 /\ n \in Nat
    OBVIOUS
  <1>4. n - 1 \in Nat /\ n - 1 < n /\ (n - 1) + 1 = n
    BY <1>3
  <1>5. n - 1 \in T
    BY <1>2, <1>4
  <1> QED
    BY <1>4, <1>5

\* R puts any two elements of S in an order.
Orders(R, S) ==
    /\ \A u, v \in S : u # v => <<u, v>> \in R \/ <<v, u>> \in R
    /\ \A u, v, w \in S : <<u, v>> \in R /\ <<v, w>> \in R => <<u, w>> \in R

\* No place of a list of n elements of S holds what another holds.
Listings(n, S) == {f \in [1 .. n -> S] : \A i, j \in 1 .. n : f[i] = f[j] => i = j}

\* No place of f comes after place k.
IsLast(R, n, f, k) == \A i \in 1 .. n + 1 : f[i] = f[k] \/ <<f[i], f[k]>> \in R

\* A list that is not empty has a last element in the order.
LEMMA LastExists ==
    ASSUME NEW S, NEW R, Orders(R, S), NEW n \in Nat, NEW f \in [1 .. n + 1 -> S]
    PROVE  \E k \in 1 .. n + 1 : IsLast(R, n, f, k)
  <1> DEFINE HasLast(g, m) ==
               \E k \in 1 .. m + 1 : \A i \in 1 .. m + 1 : g[i] = g[k] \/ <<g[i], g[k]>> \in R
             T == {m \in Nat : \A g \in [1 .. m + 1 -> S] : HasLast(g, m)}
  <1>1. 0 \in T
    <2>1. ASSUME NEW g \in [1 .. 0 + 1 -> S] PROVE HasLast(g, 0)
      <3>1. 1 \in 1 .. 0 + 1 /\ \A i \in 1 .. 0 + 1 : i = 1
        OBVIOUS
      <3> QED
        BY <3>1
    <2> QED
      BY <2>1
  <1>2. ASSUME NEW m \in Nat, m \in T PROVE m + 1 \in T
    <2>1. ASSUME NEW g \in [1 .. (m + 1) + 1 -> S] PROVE HasLast(g, m + 1)
      <3> DEFINE short == [i \in 1 .. m + 1 |-> g[i]]
                 top == (m + 1) + 1
      <3>1. short \in [1 .. m + 1 -> S] /\ \A i \in 1 .. m + 1 : short[i] = g[i]
        OBVIOUS
      <3>2. PICK k \in 1 .. m + 1 :
               \A i \in 1 .. m + 1 : short[i] = short[k] \/ <<short[i], short[k]>> \in R
        <4> HIDE DEF short
        <4> QED
          BY <1>2, <3>1
      <3>3. \A i \in 1 .. m + 1 : g[i] = g[k] \/ <<g[i], g[k]>> \in R
        BY <3>1, <3>2
      <3>4. \A i \in 1 .. top : i \in 1 .. m + 1 \/ i = top
        OBVIOUS
      <3>5. k \in 1 .. top /\ top \in 1 .. top /\ \A i \in 1 .. top : g[i] \in S
        OBVIOUS
      <3> HIDE DEF top
      <3>6. CASE g[top] = g[k] \/ <<g[top], g[k]>> \in R
        <4>1. \A i \in 1 .. top : g[i] = g[k] \/ <<g[i], g[k]>> \in R
          BY <3>3, <3>4, <3>6
        <4> QED
          BY <3>5, <4>1 DEF top
      <3>7. CASE <<g[k], g[top]>> \in R
        <4>1. ASSUME NEW i \in 1 .. top PROVE g[i] = g[top] \/ <<g[i], g[top]>> \in R
          <5>1. CASE i = top
            BY <5>1
          <5>2. CASE i \in 1 .. m + 1 /\ g[i] = g[k]
            BY <3>7, <5>2
          <5>3. CASE i \in 1 .. m + 1 /\ <<g[i], g[k]>> \in R
            BY <3>5, <3>7, <5>3 DEF Orders
          <5> QED
            BY <3>3, <3>4, <5>1, <5>2, <5>3
        <4> QED
          BY <3>5, <4>1 DEF top
      <3> QED
        BY <3>5, <3>6, <3>7 DEF Orders
    <2> HIDE DEF HasLast
    <2> QED
      BY <2>1
  <1> HIDE DEF T
  <1>3. n \in T
    BY <1>1, <1>2, InductiveSet
  <1> QED
    BY <1>3 DEF T, IsLast

\* s holds what the first n places of f hold, in the order.
OrderedBy(R, n, f, s) ==
    /\ \A i \in 1 .. n : \E j \in 1 .. n : s[j] = f[i]
    /\ \A j \in 1 .. n : \E i \in 1 .. n : s[j] = f[i]
    /\ \A i, j \in 1 .. n : i < j => <<s[i], s[j]>> \in R

\* Any list can be put in the order.
LEMMA OrderedExists ==
    ASSUME NEW S, NEW R, Orders(R, S), NEW n \in Nat, NEW f \in Listings(n, S)
    PROVE  \E s \in [1 .. n -> S] : OrderedBy(R, n, f, s)
  <1> DEFINE T == {m \in Nat : \A g \in Listings(m, S) : \E s \in [1 .. m -> S] : OrderedBy(R, m, g, s)}
  <1>1. 0 \in T
    <2>1. ASSUME NEW g \in Listings(0, S) PROVE g \in [1 .. 0 -> S] /\ OrderedBy(R, 0, g, g)
      BY DEF Listings, OrderedBy
    <2> QED
      BY <2>1
  <1>2. ASSUME NEW m \in Nat, m \in T PROVE m + 1 \in T
    <2>1. ASSUME NEW g \in Listings(m + 1, S)
          PROVE  \E s \in [1 .. m + 1 -> S] : OrderedBy(R, m + 1, g, s)
      <3>1. g \in [1 .. m + 1 -> S] /\ \A i, j \in 1 .. m + 1 : g[i] = g[j] => i = j
        BY DEF Listings
      <3>2. PICK k \in 1 .. m + 1 :
               \A i \in 1 .. m + 1 : g[i] = g[k] \/ <<g[i], g[k]>> \in R
        <4>1. \E k \in 1 .. m + 1 : IsLast(R, m, g, k)
          BY <3>1, LastExists
        <4> QED
          BY <4>1 DEF IsLast
      <3> DEFINE rest == [i \in 1 .. m |-> IF i < k THEN g[i] ELSE g[i + 1]]
      <3>3. ASSUME NEW i \in 1 .. m
            PROVE  \E at \in 1 .. m + 1 : /\ at # k /\ rest[i] = g[at]
                                         /\ at = IF i < k THEN i ELSE i + 1
        OBVIOUS
      <3>4. rest \in Listings(m, S)
        <4>1. rest \in [1 .. m -> S]
          BY <3>1, <3>3
        <4>2. ASSUME NEW i \in 1 .. m, NEW j \in 1 .. m, rest[i] = rest[j] PROVE i = j
          <5>1. PICK a \in 1 .. m + 1 : rest[i] = g[a] /\ a = IF i < k THEN i ELSE i + 1
            BY <3>3
          <5>2. PICK b \in 1 .. m + 1 : rest[j] = g[b] /\ b = IF j < k THEN j ELSE j + 1
            BY <3>3
          <5> HIDE DEF rest
          <5>3. a = b
            BY <3>1, <4>2, <5>1, <5>2
          <5> QED
            BY <5>1, <5>2, <5>3
        <4> QED
          BY <4>1, <4>2 DEF Listings
      <3>5. ASSUME NEW at \in 1 .. m + 1, at # k PROVE \E i \in 1 .. m : rest[i] = g[at]
        <4>1. CASE at < k
          <5>1. at \in 1 .. m /\ rest[at] = g[at]
            BY <4>1
          <5> QED
            BY <5>1
        <4>2. CASE at > k
          <5>1. at - 1 \in 1 .. m /\ ~(at - 1 < k) /\ (at - 1) + 1 = at
            BY <4>2
          <5>2. rest[at - 1] = g[at]
            BY <5>1
          <5> QED
            BY <5>1, <5>2
        <4> QED
          BY <3>5, <4>1, <4>2
      <3> HIDE DEF rest
      <3>6. PICK t \in [1 .. m -> S] : OrderedBy(R, m, rest, t)
        BY <1>2, <3>4
      <3> DEFINE s == [i \in 1 .. m + 1 |-> IF i <= m THEN t[i] ELSE g[k]]
      <3>7. /\ s \in [1 .. m + 1 -> S]
            /\ \A i \in 1 .. m : i \in 1 .. m + 1 /\ s[i] = t[i]
            /\ m + 1 \in 1 .. m + 1 /\ s[m + 1] = g[k]
            /\ \A i \in 1 .. m + 1 : i \in 1 .. m \/ i = m + 1
        BY <3>1
      <3> HIDE DEF s
      <3>8. ASSUME NEW j \in 1 .. m PROVE \E at \in 1 .. m + 1 : at # k /\ t[j] = g[at]
        <4>1. PICK x \in 1 .. m : t[j] = rest[x]
          BY <3>6 DEF OrderedBy
        <4>2. PICK at \in 1 .. m + 1 : at # k /\ rest[x] = g[at]
          BY <3>3
        <4> QED
          BY <4>1, <4>2
      <3>9. \A i \in 1 .. m + 1 : \E j \in 1 .. m + 1 : s[j] = g[i]
        <4> SUFFICES ASSUME NEW i \in 1 .. m + 1 PROVE \E j \in 1 .. m + 1 : s[j] = g[i]
          OBVIOUS
        <4>1. CASE i = k
          BY <3>7, <4>1
        <4>2. CASE i # k
          <5>1. PICK x \in 1 .. m : rest[x] = g[i]
            BY <3>5, <4>2
          <5>2. PICK j \in 1 .. m : t[j] = rest[x]
            BY <3>6 DEF OrderedBy
          <5> QED
            BY <3>7, <5>1, <5>2
        <4> QED
          BY <4>1, <4>2
      <3>10. \A j \in 1 .. m + 1 : \E i \in 1 .. m + 1 : s[j] = g[i]
        BY <3>7, <3>8
      <3>11. ASSUME NEW i \in 1 .. m + 1, NEW j \in 1 .. m + 1, i < j
             PROVE  <<s[i], s[j]>> \in R
        <4>1. i \in 1 .. m
          BY <3>11
        <4>2. CASE j \in 1 .. m
          BY <3>6, <3>7, <3>11, <4>1, <4>2 DEF OrderedBy
        <4>3. CASE j = m + 1
          <5>1. PICK at \in 1 .. m + 1 : at # k /\ t[i] = g[at]
            BY <3>8, <4>1
          <5>2. g[at] # g[k] /\ <<g[at], g[k]>> \in R
            BY <3>1, <3>2, <5>1
          <5> QED
            BY <3>7, <4>1, <4>3, <5>1, <5>2
        <4> QED
          BY <3>7, <4>2, <4>3
      <3> QED
        BY <3>7, <3>9, <3>10, <3>11 DEF OrderedBy
    <2> QED
      BY <2>1
  <1> HIDE DEF T
  <1>3. n \in T
    BY <1>1, <1>2, InductiveSet
  <1> QED
    BY <1>3 DEF T

\* The first place of an element of a list.
FirstAt(list, u) == CHOOSE i \in 1 .. Len(list) : list[i] = u

\* R puts any two elements of S in an order, and none before itself.
StrictlyOrders(R, S) == Orders(R, S) /\ \A u \in S : <<u, u>> \notin R

\* R compares by three numbers one after the other, of which the last are all
\* different.
ByNumbers(R, S, first, second, third) ==
    /\ first \in [S -> Nat] /\ second \in [S -> Nat] /\ third \in [S -> Nat]
    /\ \A u, v \in S : third[u] = third[v] => u = v
    /\ \A u, v \in S : <<u, v>> \in R <=>
          \/ first[u] < first[v] \/ (first[u] = first[v] /\ second[u] < second[v])
          \/ /\ ~(first[v] < first[u] \/ (first[v] = first[u] /\ second[v] < second[u]))
             /\ third[u] < third[v]

\* To compare by numbers is a strict order.
LEMMA NumbersOrder ==
    ASSUME NEW R, NEW S, NEW first, NEW second, NEW third, ByNumbers(R, S, first, second, third)
    PROVE  StrictlyOrders(R, S)
  <1> USE DEF ByNumbers
  <1>1. \A u, v \in S : <<u, v>> \in R <=>
           \/ first[u] < first[v]
           \/ first[u] = first[v] /\ second[u] < second[v]
           \/ first[u] = first[v] /\ second[u] = second[v] /\ third[u] < third[v]
    <2> SUFFICES ASSUME NEW u \in S, NEW v \in S
                 PROVE  <<u, v>> \in R <=>
                           \/ first[u] < first[v]
                           \/ first[u] = first[v] /\ second[u] < second[v]
                           \/ /\ first[u] = first[v] /\ second[u] = second[v]
                              /\ third[u] < third[v]
      OBVIOUS
    <2>1. first[u] \in Nat /\ first[v] \in Nat /\ second[u] \in Nat /\ second[v] \in Nat
      OBVIOUS
    <2>2. ~(first[v] < first[u] \/ (first[v] = first[u] /\ second[v] < second[u])) <=>
             \/ first[u] < first[v]
             \/ first[u] = first[v] /\ second[u] < second[v]
             \/ first[u] = first[v] /\ second[u] = second[v]
      BY <2>1
    <2>3. <<u, v>> \in R <=>
             \/ first[u] < first[v] \/ (first[u] = first[v] /\ second[u] < second[v])
             \/ /\ ~(first[v] < first[u] \/ (first[v] = first[u] /\ second[v] < second[u]))
                /\ third[u] < third[v]
      OBVIOUS
    <2> QED
      BY <2>2, <2>3
  <1>2. ASSUME NEW u \in S, NEW v \in S, u # v PROVE <<u, v>> \in R \/ <<v, u>> \in R
    <2>1. third[u] # third[v]
      BY <1>2
    <2> QED
      BY <1>1, <2>1
  <1>3. ASSUME NEW u \in S, NEW v \in S, NEW w \in S, <<u, v>> \in R, <<v, w>> \in R
        PROVE  <<u, w>> \in R
    BY <1>1, <1>3
  <1>4. \A u \in S : <<u, u>> \notin R
    BY <1>1
  <1> QED
    BY <1>2, <1>3, <1>4 DEF Orders, StrictlyOrders

\* What _sortByPriority compares by, and what it compares.
Precedence(list, known) ==
    {p \in Connections \X Connections : ComesBefore(list, known, p[1], p[2])}
Members(list) == {list[i] : i \in 1 .. Len(list)}

\* What _sortByPriority orders by is a strict order of a list's members.
LEMMA PrecedenceOrders ==
    ASSUME FailoverAssumption, NEW list, NEW known, Len(list) \in Nat,
           Members(list) \subseteq Connections
    PROVE  /\ StrictlyOrders(Precedence(list, known), Members(list))
           /\ \A u, v \in Members(list) :
                 <<u, v>> \in Precedence(list, known) <=> ComesBefore(list, known, u, v)
  <1> DEFINE R == Precedence(list, known)
             S == Members(list)
             first == [u \in S |-> Priority[u]]
             second == [u \in S |-> TimeRank(known[u].time)]
             third == [u \in S |-> FirstAt(list, u)]
  <1>1. \A u \in S : FirstAt(list, u) \in Nat /\ list[FirstAt(list, u)] = u
    BY DEF FirstAt, Members
  <1>2. first \in [S -> Nat]
    BY DEF FailoverAssumption
  <1>3. second \in [S -> Nat]
    BY DEF TimeRank
  <1>4. third \in [S -> Nat] /\ \A u, v \in S : third[u] = third[v] => u = v
    BY <1>1
  <1>5. \A u, v \in S : ComesBefore(list, known, u, v) <=>
           \/ first[u] < first[v] \/ (first[u] = first[v] /\ second[u] < second[v])
           \/ /\ ~(first[v] < first[u] \/ (first[v] = first[u] /\ second[v] < second[u]))
              /\ third[u] < third[v]
    BY DEF ComesBefore, Before, FirstAt
  <1>6. \A u, v \in S : <<u, v>> \in R <=> ComesBefore(list, known, u, v)
    <2> SUFFICES ASSUME NEW u \in S, NEW v \in S
                 PROVE  <<u, v>> \in R <=> ComesBefore(list, known, u, v)
      OBVIOUS
    <2> DEFINE p == <<u, v>>
    <2>1. p \in Connections \X Connections /\ p[1] = u /\ p[2] = v
      OBVIOUS
    <2> HIDE DEF p, S
    <2>2. p \in R <=> ComesBefore(list, known, p[1], p[2])
      BY <2>1 DEF Precedence
    <2> QED
      BY <2>1, <2>2 DEF p
  <1> HIDE DEF first, second, third, R, S
  <1>7. ByNumbers(R, S, first, second, third)
    BY <1>2, <1>3, <1>4, <1>5, <1>6 DEF ByNumbers
  <1>8. StrictlyOrders(R, S)
    BY <1>7, NumbersOrder
  <1> QED
    BY <1>6, <1>8 DEF R, S

\* _sortByPriority loses no connection, doubles none and adds none.
LEMMA SortedKeeps ==
    ASSUME FailoverAssumption, NEW list, NEW known, NEW n \in Nat, Len(list) = n,
           list \in Listings(n, Connections)
    PROVE  Sorted(list, known) \in Listings(n, Connections)
  <1> DEFINE S == Members(list)
             R == Precedence(list, known)
             s == Sorted(list, known)
  <1>1. S \subseteq Connections /\ list \in Listings(n, S) /\ S = {list[i] : i \in 1 .. n}
    BY DEF Listings, Members
  <1>2. StrictlyOrders(R, S) /\ \A u, v \in S : <<u, v>> \in R <=> ComesBefore(list, known, u, v)
    BY <1>1, PrecedenceOrders
  <1> HIDE DEF R, S
  <1>3. Orders(R, S) /\ \A u \in S : <<u, u>> \notin R
    BY <1>2 DEF StrictlyOrders
  <1>4. PICK t \in [1 .. n -> S] : OrderedBy(R, n, list, t)
    BY <1>1, <1>3, OrderedExists
  <1>5. \A u \in S : \E j \in 1 .. n : t[j] = u
    BY <1>1, <1>4 DEF OrderedBy
  <1>6. \A i, j \in 1 .. n : i < j => ComesBefore(list, known, t[i], t[j])
    BY <1>2, <1>4 DEF OrderedBy
  <1>7. s = CHOOSE x \in [1 .. n -> S] :
               /\ \A u \in S : \E i \in 1 .. n : x[i] = u
               /\ \A i, j \in 1 .. n : i < j => ComesBefore(list, known, x[i], x[j])
    BY <1>1 DEF Sorted
  <1> HIDE DEF s
  <1>8. s \in [1 .. n -> S] /\ \A i, j \in 1 .. n : i < j => ComesBefore(list, known, s[i], s[j])
    BY <1>5, <1>6, <1>7
  <1>9. ASSUME NEW i \in 1 .. n, NEW j \in 1 .. n, s[i] = s[j] PROVE i = j
    <2>1. s[i] \in S /\ <<s[i], s[i]>> \notin R
      BY <1>3, <1>8
    <2>2. ~(i < j) /\ ~(j < i)
      BY <1>2, <1>8, <1>9, <2>1
    <2> QED
      BY <2>2
  <1>10. s \in [1 .. n -> Connections]
    BY <1>1, <1>8
  <1> QED
    BY <1>9, <1>10 DEF Listings, s

\* The inductive invariant: no connection is listed twice, and the index names a
\* connection while there is one.
ListInv ==
    \E n \in Nat :
       /\ connections \in Listings(n, Connections)
       /\ currentIndex \in Nat \ {0}
       /\ currentIndex <= n \/ (n = 0 /\ currentIndex = 1)

\* A list of n connections has n places.
LEMMA ListLength ==
    ASSUME NEW n \in Nat, NEW list \in Listings(n, Connections)
    PROVE  Len(list) = n /\ list \in Seq(Connections)
  <1>1. list \in [1 .. n -> Connections]
    BY DEF Listings
  <1> QED
    BY <1>1, LenProperties, IsASeq

\* A connection that is added comes after the others, before the sort.
LEMMA AddKeeps ==
    ASSUME FailoverAssumption, ListInv, NEW u \in Connections, AddConnection(u)
    PROVE  ListInv'
  <1>1. PICK n \in Nat : /\ connections \in Listings(n, Connections)
                         /\ currentIndex \in Nat \ {0}
                         /\ currentIndex <= n \/ (n = 0 /\ currentIndex = 1)
    BY DEF ListInv
  <1>2. Len(connections) = n /\ connections \in Seq(Connections)
    BY <1>1, ListLength
  <1> DEFINE longer == Append(connections, u)
  <1>3. /\ longer \in Seq(Connections) /\ Len(longer) = n + 1
        /\ \A i \in 1 .. n : longer[i] = connections[i]
        /\ longer[n + 1] = u
    BY <1>2, AppendProperties
  <1> HIDE DEF longer
  <1>4. longer \in [1 .. n + 1 -> Connections]
    BY <1>3
  <1>5. \A i \in 1 .. n : connections[i] # u
    BY <1>2 DEF AddConnection, Listed
  <1>6. ASSUME NEW i \in 1 .. n + 1, NEW j \in 1 .. n + 1, longer[i] = longer[j] PROVE i = j
    <2>1. CASE i \in 1 .. n /\ j \in 1 .. n
      BY <1>1, <1>3, <1>6, <2>1 DEF Listings
    <2>2. CASE i = n + 1
      <3>1. ~(j \in 1 .. n)
        BY <1>3, <1>5, <1>6, <2>2
      <3> QED
        BY <2>2, <3>1
    <2>3. CASE j = n + 1
      <3>1. ~(i \in 1 .. n)
        BY <1>3, <1>5, <1>6, <2>3
      <3> QED
        BY <2>3, <3>1
    <2> QED
      BY <2>1, <2>2, <2>3
  <1>7. longer \in Listings(n + 1, Connections)
    BY <1>4, <1>6 DEF Listings
  <1>8. connections' \in Listings(n + 1, Connections) /\ currentIndex' = currentIndex
    <2>1. \A known : Sorted(longer, known) \in Listings(n + 1, Connections)
      BY <1>3, <1>7, SortedKeeps
    <2> QED
      BY <2>1 DEF AddConnection, longer
  <1>9. currentIndex <= n + 1
    BY <1>1
  <1> QED
    BY <1>1, <1>8, <1>9 DEF ListInv

\* A connection that is listed has one place.
LEMMA PlaceOf ==
    ASSUME NEW n \in Nat, connections \in Listings(n, Connections), NEW u \in Listed
    PROVE  Place(u) \in 1 .. n /\ connections[Place(u)] = u
  <1>1. Len(connections) = n
    BY ListLength
  <1>2. \E i \in 1 .. Len(connections) : connections[i] = u
    BY DEF Listed
  <1> QED
    BY <1>1, <1>2 DEF Place

\* Without one connection the others stay, and the index follows the current one.
LEMMA RemoveKeeps ==
    ASSUME ListInv, NEW u, RemoveConnection(u)
    PROVE  /\ ListInv'
           /\ u # Current => Current' = Current
  <1>1. PICK n \in Nat : /\ connections \in Listings(n, Connections)
                         /\ currentIndex \in Nat \ {0}
                         /\ currentIndex <= n \/ (n = 0 /\ currentIndex = 1)
    BY DEF ListInv
  <1> DEFINE k == Place(u)
             fewer == Without(connections, k)
  <1>2. Len(connections) = n
    BY <1>1, ListLength
  <1>3. k \in 1 .. n /\ connections[k] = u
    BY <1>1, PlaceOf DEF RemoveConnection
  <1>4. /\ connections' = fewer
        /\ currentIndex' = IF currentIndex >= k /\ currentIndex > 1
                           THEN currentIndex - 1 ELSE currentIndex
    BY DEF RemoveConnection
  <1>5. n - 1 \in Nat /\ fewer = [i \in 1 .. n - 1 |-> IF i < k THEN connections[i]
                                                      ELSE connections[i + 1]]
    BY <1>2, <1>3 DEF Without
  <1> HIDE DEF k, fewer
  <1>6. connections \in [1 .. n -> Connections]
        /\ \A i, j \in 1 .. n : connections[i] = connections[j] => i = j
    BY <1>1 DEF Listings
  <1>7. fewer \in Listings(n - 1, Connections)
    <2>1. fewer \in [1 .. n - 1 -> Connections]
      BY <1>5, <1>6
    <2>2. ASSUME NEW i \in 1 .. n - 1, NEW j \in 1 .. n - 1, fewer[i] = fewer[j] PROVE i = j
      <3> DEFINE at(x) == IF x < k THEN x ELSE x + 1
      <3>1. /\ at(i) \in 1 .. n /\ at(j) \in 1 .. n
            /\ fewer[i] = connections[at(i)] /\ fewer[j] = connections[at(j)]
        BY <1>5
      <3>2. at(i) = at(j)
        BY <1>6, <2>2, <3>1
      <3> QED
        BY <1>3, <3>2
    <2> QED
      BY <2>1, <2>2 DEF Listings
  <1>8. currentIndex' \in Nat \ {0} /\ (currentIndex' <= n - 1 \/ (n - 1 = 0 /\ currentIndex' = 1))
    BY <1>1, <1>3, <1>4
  <1>9. ListInv'
    BY <1>4, <1>5, <1>7, <1>8 DEF ListInv
  <1>10. ASSUME u # Current PROVE Current' = Current
    <2>1. currentIndex \in 1 .. n /\ Current = connections[currentIndex] /\ currentIndex # k
      BY <1>1, <1>2, <1>3, <1>10 DEF Current
    <2>2. Len(connections') = n - 1
      BY <1>4, <1>5, <1>7, ListLength
    <2>3. CASE currentIndex < k
      <3>1. currentIndex' = currentIndex /\ currentIndex \in 1 .. n - 1
        BY <1>3, <1>4, <2>1, <2>3
      <3>2. fewer[currentIndex] = connections[currentIndex]
        BY <1>5, <2>3, <3>1
      <3> QED
        BY <1>4, <2>1, <2>2, <3>1, <3>2 DEF Current
    <2>4. CASE currentIndex > k
      <3>1. /\ currentIndex' = currentIndex - 1 /\ currentIndex - 1 \in 1 .. n - 1
            /\ ~(currentIndex - 1 < k) /\ (currentIndex - 1) + 1 = currentIndex
        BY <1>3, <1>4, <2>1, <2>4
      <3>2. fewer[currentIndex - 1] = connections[currentIndex]
        BY <1>5, <3>1
      <3> QED
        BY <1>4, <2>1, <2>2, <3>1, <3>2 DEF Current
    <2> QED
      BY <1>3, <2>1, <2>3, <2>4
  <1> QED
    BY <1>9, <1>10

\* Every step of the manager keeps the list and the index.
LEMMA ManagerStep ==
    ASSUME FailoverAssumption, ListInv, [ManagerNext]_managerState
    PROVE  ListInv'
  <1>1. PICK n \in Nat : /\ connections \in Listings(n, Connections)
                         /\ currentIndex \in Nat \ {0}
                         /\ currentIndex <= n \/ (n = 0 /\ currentIndex = 1)
    BY DEF ListInv
  <1>2. ASSUME UNCHANGED <<connections, currentIndex>> PROVE ListInv'
    BY <1>1, <1>2 DEF ListInv
  <1>3. CASE \E u \in Connections : AddConnection(u)
    BY <1>3, AddKeeps
  <1>4. CASE \E u \in Connections : RemoveConnection(u)
    BY <1>4, RemoveKeeps
  <1>5. CASE \E u \in Connections : SwitchTo(u)
    <2>1. PICK u \in Listed : currentIndex' = Place(u) /\ connections' = connections
      BY <1>5 DEF SwitchTo
    <2>2. Place(u) \in 1 .. n
      BY <1>1, PlaceOf
    <2> QED
      BY <1>1, <2>1, <2>2 DEF ListInv
  <1>6. CASE \E r \in Rounds, u \in Connections : CheckReturns(r, u)
    <2>1. currentIndex' = currentIndex
          /\ (connections' = connections \/ \E known : connections' = Sorted(connections, known))
      BY <1>6 DEF CheckReturns
    <2>2. \A known : Sorted(connections, known) \in Listings(n, Connections)
      BY <1>1, ListLength, SortedKeeps
    <2>3. connections' \in Listings(n, Connections)
      BY <1>1, <2>1, <2>2
    <2> QED
      BY <1>1, <2>1, <2>3 DEF ListInv
  <1>7. CASE GetClient
    BY <1>2, <1>7 DEF GetClient
  <1>8. CASE \E ok \in BOOLEAN : CallReturns(ok)
    BY <1>2, <1>8 DEF CallReturns
  <1>9. CASE StartChecking \/ CheckAgain \/ StopChecking
    BY <1>2, <1>9 DEF StartChecking, CheckAgain, StopChecking
  <1>10. CASE ResetFailed \/ DisconnectManager
    BY <1>2, <1>10 DEF ResetFailed, DisconnectManager
  <1>11. CASE UNCHANGED managerState
    BY <1>2, <1>11 DEF managerState
  <1> QED
    BY <1>3, <1>4, <1>5, <1>6, <1>7, <1>8, <1>9, <1>10, <1>11 DEF ManagerNext

\* There is a current connection while there is any, through every addition,
\* removal, switch and sort, and removing another connection does not change which
\* one is current (addConnection, removeConnection, switchTo and _sortByPriority of
\* connection-manager.js).
THEOREM CurrentIsKept == ManagerSpec => KeepsCurrent
  <1>1. ManagerInit => ListInv
    <2> SUFFICES ASSUME ManagerInit PROVE ListInv
      OBVIOUS
    <2>1. connections \in Listings(0, Connections) /\ currentIndex = 1
      BY DEF ManagerInit, Listings
    <2> QED
      BY <2>1 DEF ListInv
  <1>2. ListInv /\ [ManagerNext]_managerState => ListInv'
    BY FailoverAssumption, ManagerStep
  <1>3. ListInv /\ ListInv' =>
           [/\ connections' # <<>> => Current' # NoClient
            /\ \A u \in Connections :
                  RemoveConnection(u) /\ u # Current => Current' = Current]_managerState
    <2> SUFFICES ASSUME ListInv, ListInv'
                 PROVE  /\ connections' # <<>> => Current' # NoClient
                        /\ \A u \in Connections :
                              RemoveConnection(u) /\ u # Current => Current' = Current
      OBVIOUS
    <2>1. connections' # <<>> => Current' # NoClient
      <3> SUFFICES ASSUME connections' # <<>> PROVE Current' # NoClient
        OBVIOUS
      <3>1. PICK n \in Nat : /\ connections' \in Listings(n, Connections)
                             /\ currentIndex' \in Nat \ {0}
                             /\ currentIndex' <= n \/ (n = 0 /\ currentIndex' = 1)
        BY DEF ListInv
      <3>2. Len(connections') = n /\ connections' \in Seq(Connections)
        BY <3>1, ListLength
      <3>3. n # 0
        BY <3>2, EmptySeq
      <3>4. currentIndex' \in 1 .. n
        BY <3>1, <3>3
      <3>5. connections'[currentIndex'] \in Connections
        BY <3>2, <3>4
      <3> QED
        BY FailoverAssumption, <3>2, <3>4, <3>5 DEF Current, FailoverAssumption
    <2>2. ASSUME NEW u \in Connections, RemoveConnection(u), u # Current
          PROVE  Current' = Current
      BY <2>2, RemoveKeeps
    <2> QED
      BY <2>1, <2>2
  <1> QED
    BY <1>1, <1>2, <1>3, PTL DEF ManagerSpec, KeepsCurrent

-----------------------------------------------------------------------------
(***************************************************************************)
(* The failover of the RPC client                                           *)
(***************************************************************************)
\* The requests that try again on another server only.
FailoverKinds == {"get", "postBinary"}

\* One call at a time and no races beside it, servers that are as fast as they were
\* when the active one was chosen, one of them alive, and an attempt for each.
EnoughServers(c) ==
    /\ RpcCalls = {c} /\ RacesBy = {} /\ Alive # {}
    /\ \A l, b \in Latencies : l <= b * Degradation
    /\ Cardinality(Servers) <= Attempts

\* The servers that have failed since they last answered.
FailedServers == {s \in Servers : latencies[s] = Infinity}

\* A ranking holds every server, and nothing else.
RanksAll(list) ==
    /\ Len(list) \in Nat /\ \A i \in 1 .. Len(list) : list[i] \in Servers
    /\ \A s \in Servers : \E i \in 1 .. Len(list) : list[i] = s

\* What the manager knows: an alive server has not failed.
ManagerKept ==
    /\ active \in Servers /\ clientUrl = active /\ baseline \in Latencies \union {0}
    /\ latencies \in [Servers -> Latencies \union {Unknown, Infinity}]
    /\ result \in [Servers -> Latencies \union {Unknown, Infinity}]
    /\ RanksAll(ranked) /\ raceTimer = FALSE
    /\ \A s \in Alive : latencies[s] # Infinity

\* The call: it asks the active server, and before attempt n all but one of n
\* servers have failed, the one that it asks not among them.
CallKeeps(call) ==
    /\ call = [pc |-> call.pc, kind |-> call.kind, attempt |-> call.attempt,
               server |-> call.server, outcome |-> call.outcome]
    /\ call.pc \in {"idle", "racing", "asking", "sleeping"}
    /\ call.attempt \in Nat
    /\ call.pc = "racing" => call.attempt = 0
    /\ call.pc = "asking" => call.attempt >= 1 /\ call.server = active
    /\ call.kind \in FailoverKinds =>
          /\ call.outcome # "exhausted" /\ call.pc # "sleeping"
          /\ call.pc = "asking" =>
                /\ Cardinality(FailedServers) >= call.attempt - 1
                /\ call.attempt > 1 => active \notin FailedServers

\* The inductive invariant.
RpcKept(c) ==
    /\ ManagerKept
    /\ rcall = [x \in RpcCalls |-> rcall[x]] /\ CallKeeps(rcall[c])
    /\ racer \in {Nobody, c} /\ (racer = c => rcall[c].pc = "racing")

\* There are finitely many servers, and the first one is one of them.
LEMMA ServersAre ==
    ASSUME RpcAssumption
    PROVE  /\ IsFiniteSet(Servers) /\ Cardinality(Servers) \in Nat
           /\ Len(Urls) \in Nat /\ Len(Urls) >= 1 /\ Urls[1] \in Servers
           /\ Urls \in Listings(Len(Urls), Servers) /\ RanksAll(Urls)
  <1>1. Urls \in Seq(Servers) /\ Len(Urls) > 0 /\ Len(Urls) \in Nat
    BY DEF RpcAssumption
  <1>2. Urls \in [1 .. Len(Urls) -> Servers]
    BY <1>1
  <1>3. IsFiniteSet(1 .. Len(Urls))
    BY <1>1, FS_Interval
  <1>4. Servers = {Urls[i] : i \in 1 .. Len(Urls)}
    BY DEF Servers
  <1>5. IsFiniteSet(Servers)
    <2> DEFINE D == 1 .. Len(Urls)
    <2>1. Urls \in Surjection(D, Servers)
      BY <1>2, <1>4 DEF Surjection
    <2> HIDE DEF D
    <2> QED
      BY <1>3, <2>1, FS_Surjection DEF D
  <1>6. Cardinality(Servers) \in Nat
    BY <1>5, FS_CardinalityType
  <1>7. Urls \in Listings(Len(Urls), Servers)
    BY <1>2 DEF Listings, RpcAssumption
  <1>8. RanksAll(Urls)
    BY <1>1, <1>2, <1>4 DEF RanksAll
  <1> QED
    BY <1>1, <1>2, <1>5, <1>6, <1>7, <1>8

\* What the servers are ranked by puts them in an order.
LEMMA FasterOrders ==
    ASSUME RpcAssumption, latencies \in [Servers -> Latencies \union {Unknown, Infinity}]
    PROVE  \E R : Orders(R, Servers) /\ \A s, t \in Servers : <<s, t>> \in R <=> Faster(s, t)
  <1> DEFINE R == {p \in Servers \X Servers : Faster(p[1], p[2])}
             lat == [s \in Servers |-> LatencyOf(s)]
             at == [s \in Servers |-> UrlAt(s)]
  <1>1. lat \in [Servers -> Nat]
    <2>1. \A s \in Servers : LatencyOf(s) \in Nat
      BY DEF LatencyOf, RpcAssumption
    <2> QED
      BY <2>1
  <1>2. at \in [Servers -> Nat] /\ \A s, t \in Servers : at[s] = at[t] => s = t
    <2>1. \A s \in Servers : UrlAt(s) \in 1 .. Len(Urls) /\ Urls[UrlAt(s)] = s
      BY DEF UrlAt, Servers
    <2> QED
      BY <2>1, ServersAre
  <1>3. \A s, t \in Servers : Faster(s, t) <=> lat[s] < lat[t] \/ (lat[s] = lat[t] /\ at[s] < at[t])
    BY DEF Faster
  <1>4. \A s, t \in Servers : <<s, t>> \in R <=> Faster(s, t)
    <2> SUFFICES ASSUME NEW s \in Servers, NEW t \in Servers
                 PROVE  <<s, t>> \in R <=> Faster(s, t)
      OBVIOUS
    <2> DEFINE p == <<s, t>>
    <2>1. p \in Servers \X Servers /\ p[1] = s /\ p[2] = t
      OBVIOUS
    <2> HIDE DEF p
    <2>2. p \in R <=> Faster(p[1], p[2])
      BY <2>1
    <2> QED
      BY <2>1, <2>2 DEF p
  <1> HIDE DEF R, lat, at
  <1>5. ASSUME NEW s \in Servers, NEW t \in Servers, s # t
        PROVE  <<s, t>> \in R \/ <<t, s>> \in R
    <2>1. lat[s] \in Nat /\ lat[t] \in Nat /\ at[s] \in Nat /\ at[t] \in Nat /\ at[s] # at[t]
      BY <1>1, <1>2, <1>5
    <2>2. \/ lat[s] < lat[t] \/ (lat[s] = lat[t] /\ at[s] < at[t])
          \/ lat[t] < lat[s] \/ (lat[t] = lat[s] /\ at[t] < at[s])
      BY <2>1
    <2> QED
      BY <1>3, <1>4, <2>2
  <1>6. ASSUME NEW s \in Servers, NEW t \in Servers, NEW u \in Servers,
               <<s, t>> \in R, <<t, u>> \in R
        PROVE  <<s, u>> \in R
    <2>1. /\ lat[s] \in Nat /\ lat[t] \in Nat /\ lat[u] \in Nat
          /\ at[s] \in Nat /\ at[t] \in Nat /\ at[u] \in Nat
      BY <1>1, <1>2
    <2>2. /\ lat[s] < lat[t] \/ (lat[s] = lat[t] /\ at[s] < at[t])
          /\ lat[t] < lat[u] \/ (lat[t] = lat[u] /\ at[t] < at[u])
      BY <1>3, <1>4, <1>6
    <2>3. lat[s] < lat[u] \/ (lat[s] = lat[u] /\ at[s] < at[u])
      BY <2>1, <2>2
    <2> QED
      BY <1>3, <1>4, <2>3
  <1> QED
    BY <1>4, <1>5, <1>6 DEF Orders

\* The ranking after a race holds every server.
LEMMA RankingAll ==
    ASSUME RpcAssumption, latencies \in [Servers -> Latencies \union {Unknown, Infinity}]
    PROVE  RanksAll(Ranking)
  <1> DEFINE n == Len(Urls)
             Good(x) == /\ \A s \in Servers : \E i \in 1 .. n : x[i] = s
                        /\ \A i, j \in 1 .. n : i < j => Faster(x[i], x[j])
  <1>1. PICK R : Orders(R, Servers) /\ \A s, t \in Servers : <<s, t>> \in R <=> Faster(s, t)
    BY FasterOrders
  <1>2. n \in Nat /\ Urls \in Listings(n, Servers)
    BY ServersAre
  <1>3. PICK t \in [1 .. n -> Servers] : OrderedBy(R, n, Urls, t)
    BY <1>1, <1>2, OrderedExists
  <1>4. \A s \in Servers : \E i \in 1 .. n : t[i] = s
    <2> SUFFICES ASSUME NEW s \in Servers PROVE \E i \in 1 .. n : t[i] = s
      OBVIOUS
    <2>1. PICK k \in 1 .. n : Urls[k] = s
      BY DEF Servers
    <2> QED
      BY <1>3, <2>1 DEF OrderedBy
  <1>5. \A i, j \in 1 .. n : i < j => Faster(t[i], t[j])
    BY <1>1, <1>3 DEF OrderedBy
  <1>6. Good(t)
    BY <1>4, <1>5
  <1>7. Ranking = CHOOSE x \in [1 .. n -> Servers] : Good(x)
    BY DEF Ranking
  <1> HIDE DEF Good
  <1>8. Ranking \in [1 .. n -> Servers] /\ Good(Ranking)
    BY <1>3, <1>6, <1>7
  <1>9. Len(Ranking) = n
    BY <1>2, <1>8, LenProperties, IsASeq
  <1> QED
    BY <1>2, <1>8, <1>9 DEF RanksAll, Good

\* A set of numbers has a least one.
LEMMA LeastOf ==
    ASSUME NEW T, T \subseteq Nat, T # {}
    PROVE  \E n \in T : \A m \in T : n <= m
  <1>1. PICK n \in T : \A m \in T : ~(<<m, n>> \in OpToRel(<, Nat))
    BY NatLessThanWellFounded, WFMin
  <1>2. \A m \in T : ~(m < n)
    BY <1>1 DEF OpToRel
  <1> QED
    BY <1>2

\* The winner of a race is a server that answered.
LEMMA BestResponds ==
    ASSUME RpcAssumption, Responding # {}
    PROVE  Best \in Responding
  <1> DEFINE times == {result[s] : s \in Responding}
             fastest == {s \in Responding : \A t \in Responding : result[s] <= result[t]}
             places == {i \in 1 .. Len(Urls) : Urls[i] \in fastest}
  <1>1. times \subseteq Nat /\ times # {}
    <2>1. \A s \in Responding : result[s] \in Nat
      BY DEF Responding
    <2>2. PICK s \in Responding : TRUE
      OBVIOUS
    <2> HIDE DEF Responding
    <2>3. result[s] \in times
      BY <2>2
    <2> QED
      BY <2>1, <2>3
  <1>2. PICK n \in times : \A m \in times : n <= m
    BY <1>1, LeastOf
  <1>3. PICK s \in Responding : result[s] = n
    OBVIOUS
  <1>4. s \in fastest /\ s \in Servers
    BY <1>2, <1>3 DEF Responding
  <1> HIDE DEF times, fastest
  <1>5. places \subseteq Nat /\ places # {}
    <2>1. PICK i \in 1 .. Len(Urls) : Urls[i] = s
      BY <1>4 DEF Servers
    <2>2. i \in places
      BY <1>4, <2>1
    <2>3. Len(Urls) \in Nat
      BY ServersAre
    <2> QED
      BY <2>2, <2>3
  <1>6. PICK k \in places : \A m \in places : k <= m
    BY <1>5, LeastOf
  <1>7. k \in 1 .. Len(Urls) /\ Urls[k] \in fastest /\ \A j \in 1 .. k - 1 : Urls[j] \notin fastest
    <2>1. k \in 1 .. Len(Urls) /\ Len(Urls) \in Nat
      BY ServersAre
    <2>2. \A j \in 1 .. k - 1 : j \in 1 .. Len(Urls) /\ j < k
      BY <2>1
    <2>3. \A j \in 1 .. k - 1 : j \notin places
      BY <1>6, <2>1, <2>2
    <2> QED
      BY <2>1, <2>2, <2>3
  <1> DEFINE First(i) == Urls[i] \in fastest /\ \A j \in 1 .. i - 1 : Urls[j] \notin fastest
             first == CHOOSE i \in 1 .. Len(Urls) : First(i)
  <1>8. Best = Urls[first]
    BY DEF Best, fastest
  <1>9. First(k)
    BY <1>7
  <1> HIDE DEF First
  <1>10. First(first)
    BY <1>7, <1>9
  <1>11. Urls[first] \in fastest
    BY <1>10 DEF First
  <1> QED
    BY <1>8, <1>11 DEF fastest

\* An entry of a table of calls is what it was set to.
LEMMA CallSet ==
    ASSUME NEW c, NEW call, RpcCalls = {c}, rcall = [x \in RpcCalls |-> rcall[x]],
           rcall' = [rcall EXCEPT ![c] = call]
    PROVE  rcall' = [x \in RpcCalls |-> rcall'[x]] /\ rcall'[c] = call
  OBVIOUS

\* What the proofs use of the constants.
LEMMA RpcNumbers ==
    ASSUME RpcAssumption, NEW c, EnoughServers(c)
    PROVE  /\ c # Nobody /\ c # "background" /\ c # "user" /\ RpcCalls = {c}
           /\ Attempts \in Nat /\ Attempts >= 1 /\ Cardinality(Servers) <= Attempts
           /\ Latencies \subseteq Nat /\ Infinity \in Nat /\ Unknown \in Int /\ Unknown < 0
           /\ \A l \in Latencies : l # Infinity /\ l < Infinity
           /\ Unknown < Infinity /\ Unknown # Infinity /\ Alive \subseteq Servers
  <1>1. /\ Latencies \subseteq Nat /\ Infinity \in Nat /\ Unknown \in Int /\ Unknown < 0
        /\ \A l \in Latencies : l < Infinity
        /\ Retries \in Nat /\ RpcCalls \intersect {Nobody, "background", "user"} = {}
        /\ Alive \subseteq Servers
    BY DEF RpcAssumption
  <1>2. RpcCalls = {c} /\ Cardinality(Servers) <= Attempts
    BY DEF EnoughServers
  <1>3. c # Nobody /\ c # "background" /\ c # "user"
    BY <1>1, <1>2
  <1>4. Attempts \in Nat /\ Attempts >= 1
    BY <1>1 DEF Attempts
  <1>5. \A l \in Latencies : l # Infinity /\ l < Infinity
    BY <1>1
  <1>6. Unknown < Infinity /\ Unknown # Infinity
    BY <1>1
  <1> QED
    BY <1>1, <1>2, <1>3, <1>4, <1>5, <1>6

\* At first.
LEMMA RpcKeptInit ==
    ASSUME RpcAssumption, NEW c, EnoughServers(c), RpcInit
    PROVE  RpcKept(c)
  <1>1. /\ active = Urls[1] /\ clientUrl = Urls[1] /\ baseline = 0 /\ ranked = Urls
        /\ latencies = [s \in Servers |-> Unknown] /\ result = [s \in Servers |-> Unknown]
        /\ racer = Nobody /\ raceTimer = FALSE /\ rcall = [x \in RpcCalls |-> NoCall]
    BY DEF RpcInit
  <1>2. ManagerKept
    <2>1. \A s \in Alive : latencies[s] # Infinity
      BY <1>1, RpcNumbers
    <2> QED
      BY <1>1, <2>1, ServersAre DEF ManagerKept
  <1>3. rcall[c] = [pc |-> "idle", kind |-> "get", attempt |-> 0, server |-> Urls[1],
                    outcome |-> "none"]
    BY <1>1, RpcNumbers DEF NoCall
  <1>4. CallKeeps(rcall[c])
    BY <1>3 DEF CallKeeps
  <1>5. racer # c
    BY <1>1, RpcNumbers
  <1>6. rcall = [x \in RpcCalls |-> rcall[x]]
    BY <1>1
  <1> QED
    BY <1>1, <1>2, <1>4, <1>5, <1>6 DEF RpcKept

\* The time of a response counts for a server that did not fail.
LEMMA RecordedKept ==
    ASSUME RpcAssumption, NEW c, EnoughServers(c), ManagerKept, NEW l \in Latencies
    PROVE  /\ Recorded(l) \in [Servers -> Latencies \union {Unknown, Infinity}]
           /\ \A s \in Servers : Recorded(l)[s] \in {latencies[s], l}
           /\ \A s \in Servers : s # active => Recorded(l)[s] = latencies[s]
           /\ ~Degraded(l)
  <1>1. latencies \in [Servers -> Latencies \union {Unknown, Infinity}] /\ active \in Servers
        /\ baseline \in Latencies \union {0}
    BY DEF ManagerKept
  <1>2. Degradation \in Nat /\ Latencies \subseteq Nat
    BY DEF RpcAssumption
  <1>3. CASE baseline \in Latencies
    <2> DEFINE most == baseline * Degradation
    <2>1. l <= most
      BY <1>3 DEF EnoughServers
    <2>2. most \in Nat /\ l \in Nat
      BY <1>2, <1>3
    <2> HIDE DEF most
    <2>3. ~(l > most)
      BY <2>1, <2>2
    <2> QED
      BY <1>1, <2>3 DEF Recorded, Degraded, most
  <1>4. CASE baseline = 0
    BY <1>1, <1>4 DEF Recorded, Degraded
  <1> QED
    BY <1>1, <1>3, <1>4

\* A probe returns.
LEMMA ProbeKept ==
    ASSUME RpcAssumption, NEW c, EnoughServers(c), RpcKept(c), NEW s \in Servers, ProbeReturns(s)
    PROVE  RpcKept(c)'
  <1>1. racer = c /\ rcall[c].pc = "racing" /\ ManagerKept /\ CallKeeps(rcall[c])
    BY DEF RpcKept, ProbeReturns, Racing
  <1>2. PICK l \in Latencies \union {Infinity} :
           /\ l = Infinity => s \notin Alive
           /\ result' = [result EXCEPT ![s] = l]
           /\ latencies' = [latencies EXCEPT ![s] = l]
    BY DEF ProbeReturns
  <1>3. UNCHANGED <<active, baseline, ranked, initialized, raceTimer, clientUrl, racer, rcall, down>>
    BY DEF ProbeReturns
  <1>4. /\ latencies' \in [Servers -> Latencies \union {Unknown, Infinity}]
        /\ result' \in [Servers -> Latencies \union {Unknown, Infinity}]
    BY <1>1, <1>2 DEF ManagerKept
  <1>5. \A t \in Alive : latencies'[t] # Infinity
    BY <1>1, <1>2, RpcNumbers DEF ManagerKept
  <1>6. ManagerKept'
    BY <1>1, <1>3, <1>4, <1>5 DEF ManagerKept, RanksAll
  <1>7. CallKeeps(rcall[c])'
    BY <1>1, <1>3 DEF CallKeeps
  <1> QED
    BY <1>3, <1>6, <1>7 DEF RpcKept

\* A race ends: the call asks the best server, or the active one if none responds.
LEMMA RaceKept ==
    ASSUME RpcAssumption, NEW c, EnoughServers(c), RpcKept(c), RaceEnds
    PROVE  RpcKept(c)'
  <1>1. racer = c /\ rcall[c].pc = "racing" /\ ManagerKept /\ CallKeeps(rcall[c])
    BY DEF RpcKept, RaceEnds, Racing
  <1>2. active' \in Servers /\ baseline' \in Latencies \union {0}
    <2>1. CASE Responding = {}
      BY <1>1, <2>1 DEF RaceEnds, ManagerKept
    <2>2. CASE Responding # {}
      <3>1. Best \in Responding
        BY <2>2, BestResponds
      <3>2. Best \in Servers /\ result[Best] \in Nat /\ result[Best] < Infinity
        BY <3>1 DEF Responding
      <3>3. result[Best] \in Latencies
        BY <1>1, <3>2, RpcNumbers DEF ManagerKept
      <3> QED
        BY <2>2, <3>2, <3>3 DEF RaceEnds
    <2> QED
      BY <2>1, <2>2
  <1>3. /\ ranked' = Ranking /\ racer' = Nobody /\ UNCHANGED <<latencies, result, down>>
        /\ raceTimer' = (raceTimer \/ "interval" \in RacesBy)
        /\ clientUrl' = active' /\ Ask(c, rcall[c].attempt + 1, active')
    BY <1>1, RpcNumbers DEF RaceEnds
  <1>4. raceTimer' = FALSE
    BY <1>1, <1>3 DEF ManagerKept, EnoughServers
  <1>5. RanksAll(ranked')
    BY <1>1, <1>3, RankingAll DEF ManagerKept
  <1>6. ManagerKept'
    BY <1>1, <1>2, <1>3, <1>4, <1>5 DEF ManagerKept, RanksAll
  <1> DEFINE call == [rcall[c] EXCEPT !.pc = "asking", !.attempt = 1, !.server = active']
  <1>7. rcall' = [rcall EXCEPT ![c] = call]
    <2>1. rcall[c].attempt + 1 = 1 /\ 1 <= Attempts
      BY <1>1, RpcNumbers DEF CallKeeps
    <2> QED
      BY <1>3, <2>1 DEF Ask
  <1>8. call = [pc |-> "asking", kind |-> rcall[c].kind, attempt |-> 1, server |-> active',
                outcome |-> rcall[c].outcome]
    <2> DEFINE old == rcall[c]
               new == active'
    <2>1. old = [pc |-> old.pc, kind |-> old.kind, attempt |-> old.attempt,
                 server |-> old.server, outcome |-> old.outcome]
      BY <1>1 DEF CallKeeps
    <2>2. call = [old EXCEPT !.pc = "asking", !.attempt = 1, !.server = new]
      OBVIOUS
    <2> HIDE DEF old, new, call
    <2>3. call = [pc |-> "asking", kind |-> old.kind, attempt |-> 1, server |-> new,
                  outcome |-> old.outcome]
      BY <2>1, <2>2
    <2> QED
      BY <2>3 DEF old, new
  <1> HIDE DEF call
  <1>9. rcall' = [x \in RpcCalls |-> rcall'[x]] /\ rcall'[c] = call
    BY <1>7, CallSet, RpcNumbers DEF RpcKept
  <1>10. Cardinality(FailedServers)' >= 0
    BY <1>3, ServersAre, FS_Subset, FS_CardinalityType DEF FailedServers
  <1>11. call.kind \in FailoverKinds => call.outcome # "exhausted"
    BY <1>1, <1>8 DEF CallKeeps
  <1>12. CallKeeps(rcall[c])'
    BY <1>8, <1>9, <1>10, <1>11 DEF CallKeeps
  <1>13. racer' # c
    BY <1>3, RpcNumbers
  <1> QED
    BY <1>3, <1>6, <1>9, <1>12, <1>13 DEF RpcKept

\* A call begins: it races the servers, or asks the active one.
LEMMA BeginCallKept ==
    ASSUME RpcAssumption, NEW c, EnoughServers(c), RpcKept(c), NEW kind, BeginCall(c, kind)
    PROVE  RpcKept(c)'
  <1> DEFINE begun == [NoCall EXCEPT !.kind = kind]
  <1>1. /\ ManagerKept /\ rcall[c].pc = "idle" /\ racer = Nobody
        /\ rcall = [x \in RpcCalls |-> rcall[x]]
    BY DEF RpcKept, BeginCall
  <1>2. UNCHANGED <<active, baseline, latencies, ranked, raceTimer, down>>
    BY DEF BeginCall
  <1>3. begun = [pc |-> "idle", kind |-> kind, attempt |-> 0, server |-> Urls[1],
                 outcome |-> "none"]
    BY DEF NoCall
  <1>4. CASE initialized \/ Racing \/ ~IsMultiServer
    <2> DEFINE call == [begun EXCEPT !.pc = "asking", !.attempt = 1, !.server = active]
    <2>1. clientUrl' = active /\ rcall' = [rcall EXCEPT ![c] = call] /\ UNCHANGED <<racer, result>>
      BY <1>4 DEF BeginCall
    <2>2. call = [pc |-> "asking", kind |-> kind, attempt |-> 1, server |-> active,
                  outcome |-> "none"]
      <3> DEFINE now == active
      <3>1. call = [begun EXCEPT !.pc = "asking", !.attempt = 1, !.server = now]
        OBVIOUS
      <3> HIDE DEF begun, call, now
      <3>2. call = [pc |-> "asking", kind |-> kind, attempt |-> 1, server |-> now,
                    outcome |-> "none"]
        BY <1>3, <3>1
      <3> QED
        BY <3>2 DEF now
    <2> HIDE DEF call
    <2>3. rcall' = [x \in RpcCalls |-> rcall'[x]] /\ rcall'[c] = call
      BY <1>1, <2>1, CallSet, RpcNumbers
    <2>4. Cardinality(FailedServers)' >= 0
      BY <1>2, ServersAre, FS_Subset, FS_CardinalityType DEF FailedServers
    <2>5. CallKeeps(rcall[c])'
      BY <1>2, <2>2, <2>3, <2>4 DEF CallKeeps
    <2>6. ManagerKept'
      BY <1>1, <1>2, <2>1 DEF ManagerKept, RanksAll
    <2> QED
      BY <1>1, <2>1, <2>3, <2>5, <2>6, RpcNumbers DEF RpcKept
  <1>5. CASE ~(initialized \/ Racing \/ ~IsMultiServer)
    <2> DEFINE call == [begun EXCEPT !.pc = "racing"]
    <2>1. /\ rcall' = [rcall EXCEPT ![c] = call] /\ UNCHANGED clientUrl
          /\ racer' = c /\ result' = [s \in Servers |-> Unknown]
      BY <1>5 DEF BeginCall, StartRace
    <2>2. call = [pc |-> "racing", kind |-> kind, attempt |-> 0, server |-> Urls[1],
                  outcome |-> "none"]
      <3> DEFINE first == Urls[1]
      <3>1. /\ begun = [pc |-> "idle", kind |-> kind, attempt |-> 0, server |-> first,
                        outcome |-> "none"]
            /\ call = [begun EXCEPT !.pc = "racing"]
        BY <1>3
      <3> HIDE DEF begun, call, first
      <3>2. call = [pc |-> "racing", kind |-> kind, attempt |-> 0, server |-> first,
                    outcome |-> "none"]
        BY <3>1
      <3> QED
        BY <3>2 DEF first
    <2> HIDE DEF call
    <2>3. rcall' = [x \in RpcCalls |-> rcall'[x]] /\ rcall'[c] = call
      BY <1>1, <2>1, CallSet, RpcNumbers
    <2>4. CallKeeps(rcall[c])'
      BY <2>2, <2>3 DEF CallKeeps
    <2>5. result' \in [Servers -> Latencies \union {Unknown, Infinity}]
      BY <2>1
    <2>6. ManagerKept'
      BY <1>1, <1>2, <2>1, <2>5 DEF ManagerKept, RanksAll
    <2> QED
      BY <2>1, <2>2, <2>3, <2>4, <2>6 DEF RpcKept
  <1> QED
    BY <1>4, <1>5

\* What the responses to requests of these kinds lead to.
LEMMA ResponseEnds ==
    ASSUME NEW kind \in FailoverKinds, NEW answer \in DOMAIN On(kind), answer \notin {"none", "http"}
    PROVE  On(kind)[answer] \in {"done", "refused"}
  <1>1. CASE kind = "get"
    <2>1. On(kind) = [ok |-> "done", auth |-> "refused", http |-> "failover", none |-> "failover"]
      BY <1>1 DEF On, GetOn
    <2> QED
      BY <2>1
  <1>2. CASE kind = "postBinary"
    <2>1. On(kind) = [ok |-> "done", auth |-> "refused", http |-> "failover", none |-> "failover"]
      BY <1>2 DEF On, PostBinaryOn
    <2> QED
      BY <2>1
  <1> QED
    BY <1>1, <1>2 DEF FailoverKinds

\* What a call becomes when it sleeps, ends or is over: it asks nothing.
LEMMA RestsKept ==
    ASSUME NEW old, NEW call, NEW pc \in {"idle", "sleeping"}, NEW outcome, CallKeeps(old),
           call = [pc |-> pc, kind |-> old.kind, attempt |-> old.attempt,
                   server |-> old.server, outcome |-> outcome],
           old.kind \in FailoverKinds => outcome # "exhausted" /\ pc # "sleeping"
    PROVE  CallKeeps(call)
  BY DEF CallKeeps

\* A record of a call with another state and outcome, with another state, and for
\* another attempt.
LEMMA CallSetTo ==
    ASSUME NEW old, NEW pc, NEW outcome, NEW e,
           old = [pc |-> old.pc, kind |-> old.kind, attempt |-> old.attempt,
                  server |-> old.server, outcome |-> old.outcome],
           e = [old EXCEPT !.pc = pc, !.outcome = outcome]
    PROVE  e = [pc |-> pc, kind |-> old.kind, attempt |-> old.attempt, server |-> old.server,
                outcome |-> outcome]
  OBVIOUS

LEMMA CallSetPc ==
    ASSUME NEW old, NEW pc, NEW e,
           old = [pc |-> old.pc, kind |-> old.kind, attempt |-> old.attempt,
                  server |-> old.server, outcome |-> old.outcome],
           e = [old EXCEPT !.pc = pc]
    PROVE  e = [pc |-> pc, kind |-> old.kind, attempt |-> old.attempt, server |-> old.server,
                outcome |-> old.outcome]
  OBVIOUS

LEMMA CallAsks ==
    ASSUME NEW old, NEW n, NEW server, NEW e,
           old = [pc |-> old.pc, kind |-> old.kind, attempt |-> old.attempt,
                  server |-> old.server, outcome |-> old.outcome],
           e = [old EXCEPT !.pc = "asking", !.attempt = n, !.server = server]
    PROVE  e = [pc |-> "asking", kind |-> old.kind, attempt |-> n, server |-> server,
                outcome |-> old.outcome]
  OBVIOUS

\* A response: the request ends, or is made again later.
LEMMA RespondsKept ==
    ASSUME RpcAssumption, NEW c, EnoughServers(c), RpcKept(c),
           NEW answer, NEW l \in Latencies, Responds(c, answer, l)
    PROVE  RpcKept(c)'
  <1> DEFINE old == rcall[c]
             then == On(old.kind)[answer]
  <1>1. /\ ManagerKept /\ old.pc = "asking" /\ CallKeeps(old) /\ racer \in {Nobody, c}
        /\ rcall = [x \in RpcCalls |-> rcall[x]] /\ racer # c
    BY DEF RpcKept, Responds
  <1>2. /\ answer \notin {"none", "http"} /\ answer \in DOMAIN On(old.kind)
        /\ latencies' = Recorded(l) /\ clientUrl' = active
        /\ UNCHANGED <<active, baseline, ranked, initialized, raceTimer, down>>
    BY DEF Responds
  <1>3. ~Degraded(l) /\ Recorded(l) \in [Servers -> Latencies \union {Unknown, Infinity}]
        /\ \A s \in Servers : Recorded(l)[s] \in {latencies[s], l}
    BY <1>1, RecordedKept
  <1>4. UNCHANGED <<racer, result>>
    BY <1>3 DEF Responds
  <1>5. \A s \in Alive : latencies'[s] # Infinity
    BY <1>1, <1>2, <1>3, RpcNumbers DEF ManagerKept
  <1>6. ManagerKept'
    BY <1>1, <1>2, <1>3, <1>4, <1>5 DEF ManagerKept, RanksAll
  <1>11. old = [pc |-> old.pc, kind |-> old.kind, attempt |-> old.attempt,
                server |-> old.server, outcome |-> old.outcome]
    BY <1>1 DEF CallKeeps
  <1>7. PICK pc \in {"idle", "sleeping"}, outcome \in {"done", "refused", "failover", old.outcome, then} :
           /\ rcall' = [rcall EXCEPT ![c] =
                 [pc |-> pc, kind |-> old.kind, attempt |-> old.attempt, server |-> old.server,
                  outcome |-> outcome]]
           /\ old.kind \in FailoverKinds => outcome # "exhausted" /\ pc # "sleeping"
    <2>1. CASE then = "again"
      <3>1. old.kind \notin FailoverKinds
        BY <1>2, <2>1, ResponseEnds
      <3>2. Sleep(c, "done")
        BY <2>1 DEF Responds
      <3>3. PICK e :
               /\ rcall' = [rcall EXCEPT ![c] = e]
               /\ e = [old EXCEPT !.pc = "sleeping"] \/ e = [old EXCEPT !.pc = "idle", !.outcome = "done"]
        BY <3>2 DEF Sleep
      <3>4. CASE e = [old EXCEPT !.pc = "sleeping"]
        <4>1. e = [pc |-> "sleeping", kind |-> old.kind, attempt |-> old.attempt,
                   server |-> old.server, outcome |-> old.outcome]
          BY <1>11, <3>4, CallSetPc
        <4> QED
          BY <3>1, <3>3, <4>1
      <3>5. CASE e = [old EXCEPT !.pc = "idle", !.outcome = "done"]
        <4>1. e = [pc |-> "idle", kind |-> old.kind, attempt |-> old.attempt,
                   server |-> old.server, outcome |-> "done"]
          BY <1>11, <3>5, CallSetTo
        <4> QED
          BY <3>1, <3>3, <4>1
      <3> QED
        BY <3>3, <3>4, <3>5
    <2>2. CASE then # "again"
      <3>1. CallEnds(c, then)
        BY <2>2 DEF Responds
      <3>2. PICK e : /\ rcall' = [rcall EXCEPT ![c] = e]
                     /\ e = [old EXCEPT !.pc = "idle", !.outcome = then]
        BY <3>1 DEF CallEnds
      <3>3. old.kind \in FailoverKinds => then # "exhausted"
        BY <1>2, ResponseEnds
      <3>4. e = [pc |-> "idle", kind |-> old.kind, attempt |-> old.attempt,
                 server |-> old.server, outcome |-> then]
        BY <1>11, <3>2, CallSetTo
      <3> QED
        BY <3>2, <3>3, <3>4
    <2> QED
      BY <2>1, <2>2
  <1> DEFINE call == [pc |-> pc, kind |-> old.kind, attempt |-> old.attempt,
                      server |-> old.server, outcome |-> outcome]
  <1>8. rcall' = [x \in RpcCalls |-> rcall'[x]] /\ rcall'[c] = call
    BY <1>1, <1>7, CallSet, RpcNumbers
  <1>9. CallKeeps(rcall'[c])
    BY <1>1, <1>7, <1>8, RestsKept
  <1>10. CallKeeps(rcall[c])'
    <2>1. rcall'[c].pc # "asking"
      BY <1>8
    <2> QED
      BY <1>9, <2>1 DEF CallKeeps
  <1> QED
    BY <1>1, <1>4, <1>6, <1>8, <1>10 DEF RpcKept

\* A request fails: the active server counts as failed, another one takes over.
LEMMA FailsKept ==
    ASSUME RpcAssumption, NEW c, EnoughServers(c), RpcKept(c),
           NEW answer, NEW l \in Latencies, Fails(c, answer, l)
    PROVE  RpcKept(c)'
  <1> DEFINE old == rcall[c]
             known == [latencies EXCEPT ![active] = Infinity]
             left == NextServers(known)
             next == old.attempt + 1
  <1>1. /\ ManagerKept /\ old.pc = "asking" /\ CallKeeps(old) /\ racer \in {Nobody, c}
        /\ rcall = [x \in RpcCalls |-> rcall[x]] /\ racer # c
    BY DEF RpcKept, Fails
  <1>2. old.server = active /\ old.attempt \in Nat /\ old.attempt >= 1
    BY <1>1 DEF CallKeeps
  <1>3. active \in Servers /\ latencies \in [Servers -> Latencies \union {Unknown, Infinity}]
        /\ RanksAll(ranked)
    BY <1>1 DEF ManagerKept
  <1>4. active \notin Alive
    BY <1>2 DEF Fails, Answers
  <1>5. PICK a \in Alive : a \in Servers /\ a # active
    BY <1>4, RpcNumbers DEF EnoughServers
  <1>6. IsMultiServer
    <2>1. CASE Len(Urls) = 1
      <3>1. Servers = {Urls[1]}
        BY <2>1 DEF Servers
      <3> QED
        BY <1>3, <1>5, <3>1
    <2>2. Len(Urls) \in Nat /\ Len(Urls) >= 1
      BY ServersAre
    <2>3. CASE Len(Urls) # 1
      <3> DEFINE n == Len(Urls)
      <3>1. n \in Nat /\ n >= 1 /\ n # 1
        BY <2>2, <2>3
      <3> HIDE DEF n
      <3>2. n > 1
        BY <3>1
      <3> QED
        BY <3>2 DEF IsMultiServer, n
    <2> QED
      BY <2>1, <2>3
  <1>7. HandleFailure(c, Recorded(l), FALSE) \/ HandleFailure(c, latencies, FALSE)
    <2>1. ~Degraded(l)
      BY <1>1, RecordedKept
    <2> QED
      BY <1>6, <2>1 DEF Fails
  <1>8. [Recorded(l) EXCEPT ![active] = Infinity] = known
    <2>1. /\ Recorded(l) \in [Servers -> Latencies \union {Unknown, Infinity}]
          /\ \A s \in Servers : s # active => Recorded(l)[s] = latencies[s]
      BY <1>1, RecordedKept
    <2> QED
      BY <1>3, <2>1
  <1>9. \A s \in Servers : known[s] = IF s = active THEN Infinity ELSE latencies[s]
    BY <1>3
  <1>10. known \in [Servers -> Latencies \union {Unknown, Infinity}]
    BY <1>3
  <1>11. left # {} /\ left \subseteq Nat
    <2>1. PICK i \in 1 .. Len(ranked) : ranked[i] = a
      BY <1>3, <1>5 DEF RanksAll
    <2>2. latencies[a] # Infinity /\ known[a] = latencies[a]
      BY <1>1, <1>5, <1>9 DEF ManagerKept
    <2>3. known[a] < Infinity
      BY <1>3, <1>5, <2>2, RpcNumbers
    <2> HIDE DEF known
    <2>4. i \in left
      BY <1>5, <2>1, <2>3 DEF NextServers
    <2>5. Len(ranked) \in Nat
      BY <1>3 DEF RanksAll
    <2>6. left \subseteq 1 .. Len(ranked)
      BY DEF NextServers
    <2> QED
      BY <2>4, <2>5, <2>6
  <1> DEFINE first == CHOOSE i \in left : \A j \in left : i <= j
             url == ranked[first]
  <1>12. first \in left
    <2>1. \E i \in left : \A j \in left : i <= j
      BY <1>11, LeastOf
    <2> HIDE DEF left
    <2> QED
      BY <2>1
  <1>13. url \in Servers /\ url # active /\ known[url] < Infinity
    <2> HIDE DEF known, first
    <2> QED
      BY <1>3, <1>12 DEF NextServers, RanksAll
  <1>14. /\ latencies' = known /\ active' = url /\ clientUrl' = active' /\ Ask(c, next, active')
         /\ UNCHANGED <<baseline, ranked, initialized, raceTimer, down, racer, result>>
    <2>1. ASSUME NEW recorded, HandleFailure(c, recorded, FALSE),
                 [recorded EXCEPT ![active] = Infinity] = known
          PROVE  /\ latencies' = known /\ active' = url /\ clientUrl' = active'
                 /\ Ask(c, next, active')
                 /\ UNCHANGED <<baseline, ranked, initialized, raceTimer, down, racer, result>>
      <3> HIDE DEF known, next
      <3> QED
        BY <1>11, <2>1 DEF HandleFailure, next
    <2> QED
      BY <1>7, <1>8, <2>1
  <1> HIDE DEF left, first, url
  <1>15. \A s \in Alive : latencies'[s] # Infinity
    BY <1>1, <1>4, <1>9, <1>14, RpcNumbers DEF ManagerKept
  <1>16. ManagerKept'
    BY <1>1, <1>10, <1>13, <1>14, <1>15 DEF ManagerKept, RanksAll
  <1>17. FailedServers' = FailedServers \union {active}
    BY <1>3, <1>9, <1>14 DEF FailedServers
  <1> HIDE DEF known
  <1>18. active' \notin FailedServers'
    <2>1. latencies'[url] # Infinity
      BY <1>13, <1>14, RpcNumbers
    <2> QED
      BY <1>14, <2>1 DEF FailedServers
  <1>19. /\ IsFiniteSet(FailedServers) /\ Cardinality(FailedServers) \in Nat
         /\ Cardinality(FailedServers') \in Nat /\ IsFiniteSet(FailedServers')
    <2>1. FailedServers \subseteq Servers /\ FailedServers' \subseteq Servers
      BY DEF FailedServers
    <2> QED
      BY <2>1, ServersAre, FS_Subset, FS_CardinalityType
  <1>20. Cardinality(FailedServers') + 1 <= Cardinality(Servers)
    <2> DEFINE all == FailedServers' \union {url}
    <2>1. all \in SUBSET Servers
      BY <1>13 DEF FailedServers
    <2>2. Cardinality(all) = Cardinality(FailedServers') + 1
      BY <1>14, <1>18, <1>19, FS_AddElement
    <2> HIDE DEF all
    <2>3. Cardinality(all) <= Cardinality(Servers)
      BY <2>1, ServersAre, FS_Subset
    <2> QED
      BY <2>2, <2>3
  <1>21. old.kind \in FailoverKinds => Cardinality(FailedServers') >= old.attempt
    <2>1. CASE active \in FailedServers
      <3>1. FailedServers' = (FailedServers \ {active}) \union {active}
        BY <1>17, <2>1
      <3>2. /\ IsFiniteSet(FailedServers \ {active})
            /\ Cardinality(FailedServers \ {active}) \in Nat
        BY <1>19, FS_Subset, FS_CardinalityType
      <3>3. Cardinality(FailedServers') = Cardinality(FailedServers \ {active}) + 1
        BY <3>1, <3>2, FS_AddElement
      <3>4. old.kind \in FailoverKinds => old.attempt = 1
        BY <1>1, <1>2, <2>1 DEF CallKeeps
      <3> QED
        BY <1>2, <3>2, <3>3, <3>4
    <2>2. CASE active \notin FailedServers
      <3>1. Cardinality(FailedServers') = Cardinality(FailedServers) + 1
        BY <1>17, <1>19, <2>2, FS_AddElement
      <3>2. old.kind \in FailoverKinds => Cardinality(FailedServers) >= old.attempt - 1
        BY <1>1 DEF CallKeeps
      <3> DEFINE x == Cardinality(FailedServers)
                 y == Cardinality(FailedServers')
      <3>3. x \in Nat /\ y = x + 1 /\ (old.kind \in FailoverKinds => x >= old.attempt - 1)
        BY <1>19, <3>1, <3>2
      <3>4. old.attempt \in Int
        BY <1>2
      <3> HIDE DEF x, y
      <3>5. old.kind \in FailoverKinds => y >= old.attempt
        BY <3>3, <3>4
      <3> QED
        BY <3>5 DEF y
    <2> QED
      BY <2>1, <2>2
  <1>22. old.kind \in FailoverKinds => next <= Attempts
    BY <1>2, <1>19, <1>20, <1>21, RpcNumbers, ServersAre
  <1> DEFINE asks == [pc |-> "asking", kind |-> old.kind, attempt |-> next, server |-> url,
                      outcome |-> old.outcome]
             ends == [pc |-> "idle", kind |-> old.kind, attempt |-> old.attempt,
                      server |-> old.server, outcome |-> "exhausted"]
  <1>23. \/ next <= Attempts /\ rcall' = [rcall EXCEPT ![c] = asks]
         \/ ~(next <= Attempts) /\ rcall' = [rcall EXCEPT ![c] = ends]
    <2>1. old = [pc |-> old.pc, kind |-> old.kind, attempt |-> old.attempt,
                 server |-> old.server, outcome |-> old.outcome]
      BY <1>1 DEF CallKeeps
    <2>2. Ask(c, next, url)
      BY <1>14
    <2> HIDE DEF next
    <2>3. CASE next <= Attempts
      <3>1. PICK e : /\ rcall' = [rcall EXCEPT ![c] = e]
                     /\ e = [old EXCEPT !.pc = "asking", !.attempt = next, !.server = url]
        BY <2>2, <2>3 DEF Ask
      <3>2. e = asks
        BY <2>1, <3>1, CallAsks
      <3> QED
        BY <2>3, <3>1, <3>2
    <2>4. CASE ~(next <= Attempts)
      <3>1. PICK e : /\ rcall' = [rcall EXCEPT ![c] = e]
                     /\ e = [old EXCEPT !.pc = "idle", !.outcome = "exhausted"]
        BY <2>2, <2>4 DEF Ask
      <3>2. e = ends
        BY <2>1, <3>1, CallSetTo
      <3> QED
        BY <2>4, <3>1, <3>2
    <2> QED
      BY <2>3, <2>4
  <1>24. rcall' = [x \in RpcCalls |-> rcall'[x]] /\ CallKeeps(rcall[c])'
    <2>1. CASE next <= Attempts
      <3>1. rcall' = [x \in RpcCalls |-> rcall'[x]] /\ rcall'[c] = asks
        BY <1>1, <1>23, <2>1, CallSet, RpcNumbers
      <3>2. old.kind \in FailoverKinds => old.outcome # "exhausted"
        BY <1>1 DEF CallKeeps
      <3>3. next \in Nat /\ next >= 1 /\ next - 1 = old.attempt
        BY <1>2
      <3> HIDE DEF old, next
      <3> QED
        BY <1>14, <1>18, <1>21, <3>1, <3>2, <3>3 DEF CallKeeps
    <2>2. CASE ~(next <= Attempts)
      <3>1. rcall' = [x \in RpcCalls |-> rcall'[x]] /\ rcall'[c] = ends
        BY <1>1, <1>23, <2>2, CallSet, RpcNumbers
      <3>2. old.kind \notin FailoverKinds
        BY <1>22, <2>2
      <3> QED
        BY <1>2, <3>1, <3>2 DEF CallKeeps
    <2> QED
      BY <2>1, <2>2
  <1> QED
    BY <1>1, <1>14, <1>16, <1>24 DEF RpcKept

\* The delay of a call is over: only calls of other kinds sleep.
LEMMA WakesKept ==
    ASSUME RpcAssumption, NEW c, EnoughServers(c), RpcKept(c), Wakes(c)
    PROVE  RpcKept(c)'
  <1> DEFINE old == rcall[c]
             next == old.attempt + 1
  <1>1. /\ ManagerKept /\ old.pc = "sleeping" /\ CallKeeps(old) /\ racer \in {Nobody, c}
        /\ rcall = [x \in RpcCalls |-> rcall[x]] /\ racer # c
    BY DEF RpcKept, Wakes
  <1>2. /\ Ask(c, next, active)
        /\ UNCHANGED <<active, baseline, latencies, ranked, initialized, raceTimer, clientUrl,
                       racer, result, down>>
    BY <1>1 DEF Wakes, managerVars, ManagerKept
  <1>3. old.kind \notin FailoverKinds /\ old.attempt \in Nat
    BY <1>1 DEF CallKeeps
  <1>4. PICK call :
           /\ rcall' = [rcall EXCEPT ![c] = call]
           /\ \/ call = [pc |-> "asking", kind |-> old.kind, attempt |-> next,
                         server |-> active, outcome |-> old.outcome]
              \/ call = [pc |-> "idle", kind |-> old.kind, attempt |-> old.attempt,
                         server |-> old.server, outcome |-> "exhausted"]
    <2>1. old = [pc |-> old.pc, kind |-> old.kind, attempt |-> old.attempt,
                 server |-> old.server, outcome |-> old.outcome]
      BY <1>1 DEF CallKeeps
    <2> HIDE DEF next
    <2>2. PICK e : /\ rcall' = [rcall EXCEPT ![c] = e]
                   /\ \/ e = [old EXCEPT !.pc = "asking", !.attempt = next, !.server = active]
                      \/ e = [old EXCEPT !.pc = "idle", !.outcome = "exhausted"]
      BY <1>2 DEF Ask
    <2>3. CASE e = [old EXCEPT !.pc = "asking", !.attempt = next, !.server = active]
      <3>1. e = [pc |-> "asking", kind |-> old.kind, attempt |-> next, server |-> active,
                 outcome |-> old.outcome]
        BY <2>1, <2>3, CallAsks
      <3> QED
        BY <2>2, <3>1
    <2>4. CASE e = [old EXCEPT !.pc = "idle", !.outcome = "exhausted"]
      <3>1. e = [pc |-> "idle", kind |-> old.kind, attempt |-> old.attempt,
                 server |-> old.server, outcome |-> "exhausted"]
        BY <2>1, <2>4, CallSetTo
      <3> QED
        BY <2>2, <3>1
    <2> QED
      BY <2>2, <2>3, <2>4
  <1>5. rcall' = [x \in RpcCalls |-> rcall'[x]] /\ rcall'[c] = call
    BY <1>1, <1>4, CallSet, RpcNumbers
  <1>6. next \in Nat /\ next >= 1
    BY <1>3
  <1>7. CallKeeps(rcall[c])'
    BY <1>2, <1>3, <1>4, <1>5, <1>6 DEF CallKeeps
  <1>8. ManagerKept'
    BY <1>1, <1>2 DEF ManagerKept, RanksAll
  <1> QED
    BY <1>1, <1>2, <1>5, <1>7, <1>8 DEF RpcKept

\* For any number of servers of which one always answers, in whatever order races,
\* probes, answers and failures come and whatever servers die meanwhile: a call that
\* is alone, and may try as often as there are servers, gets an answer before its
\* attempts are used up.
THEOREM OneCallIsAnswered ==
    ASSUME NEW c, EnoughServers(c)
    PROVE  RpcSpec => []EnoughRetries
  <1>1. RpcInit => RpcKept(c)
    BY RpcAssumption, RpcKeptInit
  <1>2. RpcKept(c) /\ [RpcNext]_rpcVars => RpcKept(c)'
    <2> SUFFICES ASSUME RpcKept(c), [RpcNext]_rpcVars PROVE RpcKept(c)'
      OBVIOUS
    <2> USE RpcAssumption
    <2>1. CASE ServersDie
      <3>1. UNCHANGED <<managerVars, clientUrl, racer, result, rcall>>
        BY <2>1 DEF ServersDie
      <3> QED
        BY <3>1 DEF RpcKept, ManagerKept, CallKeeps, RanksAll, FailedServers, managerVars
    <2>2. CASE RaceAgain
      BY <2>2 DEF RaceAgain, RpcKept, ManagerKept, EnoughServers
    <2>3. CASE RaceEnds
      BY <2>3, RaceKept
    <2>4. ASSUME NEW s \in Servers, ProbeReturns(s) PROVE RpcKept(c)'
      BY <2>4, ProbeKept
    <2>5. ASSUME NEW d \in RpcCalls, RpcStep(d) PROVE RpcKept(c)'
      <3>1. d = c
        BY RpcNumbers
      <3>2. CASE Wakes(c)
        BY <3>2, WakesKept
      <3>3. ASSUME NEW l \in Latencies, NEW answer \in DOMAIN CallOn,
                   Responds(c, answer, l) \/ Fails(c, answer, l)
            PROVE  RpcKept(c)'
        BY <3>3, RespondsKept, FailsKept
      <3> QED
        BY <2>5, <3>1, <3>2, <3>3 DEF RpcStep
    <2>6. ASSUME NEW d \in RpcCalls, NEW kind, BeginCall(d, kind) PROVE RpcKept(c)'
      <3>1. d = c
        BY RpcNumbers
      <3> QED
        BY <2>6, <3>1, BeginCallKept
    <2>7. CASE UNCHANGED rpcVars
      <3>1. UNCHANGED <<managerVars, clientUrl, racer, result, rcall>>
        BY <2>7 DEF rpcVars
      <3> QED
        BY <3>1 DEF RpcKept, ManagerKept, CallKeeps, RanksAll, FailedServers, managerVars
    <2> QED
      BY <2>1, <2>2, <2>3, <2>4, <2>5, <2>6, <2>7 DEF RpcNext
  <1>3. RpcKept(c) => EnoughRetries
    BY RpcAssumption, RpcNumbers DEF RpcKept, CallKeeps, EnoughRetries, FailoverKinds
  <1> QED
    BY <1>1, <1>2, <1>3, PTL DEF RpcSpec

-----------------------------------------------------------------------------
(***************************************************************************)
(* The rings of the testnet's transfers                                     *)
(***************************************************************************)
\* A finite set of numbers has an ascending sequence, and it is what Ascending is.
LEMMA AscendingLists ==
    ASSUME NEW S, S \subseteq Nat, IsFiniteSet(S)
    PROVE  /\ Cardinality(S) \in Nat
           /\ Ascending(S) \in [1 .. Cardinality(S) -> S]
           /\ \A x \in S : \E j \in 1 .. Cardinality(S) : Ascending(S)[j] = x
  <1> DEFINE k == Cardinality(S)
             R == {p \in Nat \X Nat : p[1] < p[2]}
  <1>1. k \in Nat /\ ExistsBijection(1 .. k, S)
    BY FS_CardinalityType
  <1>2. PICK f \in [1 .. k -> S] : /\ \A i, j \in 1 .. k : f[i] = f[j] => i = j
                                   /\ \A x \in S : \E i \in 1 .. k : f[i] = x
    BY <1>1 DEF ExistsBijection, Bijection, Injection, Surjection, IsInjective
  <1>3. \A u, v \in S : <<u, v>> \in R <=> u < v
    OBVIOUS
  <1>4. Orders(R, S)
    <2>1. \A u, v \in S : u # v => <<u, v>> \in R \/ <<v, u>> \in R
      BY <1>3
    <2>2. \A u, v, w \in S : <<u, v>> \in R /\ <<v, w>> \in R => <<u, w>> \in R
      BY <1>3
    <2> HIDE DEF R
    <2> QED
      BY <2>1, <2>2 DEF Orders
  <1>5. f \in Listings(k, S)
    BY <1>2 DEF Listings
  <1> HIDE DEF k, R
  <1>6. PICK s \in [1 .. k -> S] : OrderedBy(R, k, f, s)
    BY <1>1, <1>4, <1>5, OrderedExists
  <1>7. \A i, j \in DOMAIN s : i < j => s[i] < s[j]
    BY <1>3, <1>6 DEF OrderedBy
  <1> DEFINE a == Ascending(S)
  <1>8. a \in [1 .. k -> S] /\ \A i, j \in DOMAIN a : i < j => a[i] < a[j]
    BY <1>6, <1>7 DEF Ascending, k
  <1>9. ASSUME NEW x \in S PROVE \E j \in 1 .. k : a[j] = x
    <2> HIDE DEF a
    <2>1. \A i, j \in 1 .. k : a[i] = a[j] => i = j
      <3> SUFFICES ASSUME NEW i \in 1 .. k, NEW j \in 1 .. k, a[i] = a[j], i # j PROVE FALSE
        OBVIOUS
      <3>1. i < j \/ j < i
        OBVIOUS
      <3>2. a[i] \in Nat /\ a[j] \in Nat
        BY <1>8
      <3> QED
        BY <1>8, <3>1, <3>2
    <2> DEFINE held == {a[i] : i \in 1 .. k}
    <2>2. a \in Bijection(1 .. k, held)
      BY <1>8, <2>1 DEF Bijection, Injection, Surjection, IsInjective
    <2>3. held \in SUBSET S
      BY <1>8
    <2>4. Cardinality(held) = k
      BY <1>1, <2>2, FS_CountingElements DEF ExistsBijection
    <2>5. held = S
      BY <2>3, <2>4, FS_Subset DEF k
    <2> QED
      BY <2>5
  <1> QED
    BY <1>1, <1>8, <1>9 DEF k

\* What is written down as offsets is read back: the running sum undoes the
\* differences.
LEMMA OffsetsReadBack ==
    ASSUME NEW n \in Nat, NEW s \in [1 .. n -> Nat]
    PROVE  Indices(Offsets(s)) = s
  <1> DEFINE o == Offsets(s)
             Sums(f) == f = [i \in 1 .. n |-> IF i = 1 THEN o[1] ELSE f[i - 1] + o[i]]
             c == CHOOSE f : Sums(f)
  <1>1. DOMAIN s = 1 .. n /\ s \in Seq(Nat) /\ Len(s) = n
    OBVIOUS
  <1>2. o = [i \in 1 .. n |-> IF i = 1 THEN s[1] ELSE s[i] - s[i - 1]]
    BY <1>1 DEF Offsets
  <1>3. \A i \in 1 .. n : s[i] \in Nat /\ (i # 1 => i - 1 \in 1 .. n /\ s[i - 1] \in Nat)
    OBVIOUS
  <1>4. o \in [1 .. n -> Int] /\ o \in Seq(Int) /\ Len(o) = n
    <2>1. o \in [1 .. n -> Int]
      BY <1>2, <1>3
    <2> HIDE DEF o
    <2> QED
      BY <2>1
  <1>5. Sums(s)
    <2>1. \A i \in 1 .. n : s[i] = IF i = 1 THEN o[1] ELSE s[i - 1] + o[i]
      BY <1>2, <1>3
    <2>2. s = [i \in 1 .. n |-> s[i]]
      OBVIOUS
    <2> HIDE DEF o
    <2> QED
      BY <2>1, <2>2
  <1>6. Sums(c)
    BY <1>5
  <1>7. Indices(o) = [i \in 1 .. n |-> c[i]]
    BY <1>4 DEF Indices
  <1> HIDE DEF o, c
  <1>8. ASSUME NEW i \in 1 .. n PROVE c[i] = s[i]
    <2> DEFINE T == {m \in Nat : m + 1 \in 1 .. n => c[m + 1] = s[m + 1]}
    <2>1. 0 \in T
      <3>1. 1 \in 1 .. n => c[1] = o[1] /\ s[1] = o[1]
        BY <1>5, <1>6
      <3> QED
        BY <3>1
    <2>2. ASSUME NEW m \in Nat, m \in T PROVE m + 1 \in T
      <3> SUFFICES ASSUME (m + 1) + 1 \in 1 .. n PROVE c[(m + 1) + 1] = s[(m + 1) + 1]
        OBVIOUS
      <3> DEFINE p == (m + 1) + 1
      <3>1. p \in 1 .. n /\ p # 1 /\ p - 1 = m + 1 /\ m + 1 \in 1 .. n
        OBVIOUS
      <3>2. c[m + 1] = s[m + 1]
        BY <2>2, <3>1
      <3> HIDE DEF p
      <3>3. c[p] = c[p - 1] + o[p] /\ s[p] = s[p - 1] + o[p]
        BY <1>5, <1>6, <3>1
      <3>4. c[p] = s[p]
        BY <3>1, <3>2, <3>3
      <3> QED
        BY <3>4 DEF p
    <2> HIDE DEF T
    <2>3. Nat \subseteq T
      BY <2>1, <2>2, InductiveSet
    <2>4. i - 1 \in Nat /\ (i - 1) + 1 = i
      OBVIOUS
    <2> QED
      BY <2>3, <2>4 DEF T
  <1>9. [i \in 1 .. n |-> c[i]] = s
    BY <1>8
  <1> QED
    BY <1>7, <1>9 DEF o

\* What the node's list of outputs holds.
Placed == [tx : Int, place : Nat, height : Nat]

\* The list of outputs is in the order of the blocks.
ChainKept ==
    /\ globalOutputs \in Seq(Placed)
    /\ Len(blocks) \in Nat
    /\ \A i \in DOMAIN globalOutputs : globalOutputs[i].height < Len(blocks)
    /\ \A i, j \in DOMAIN globalOutputs :
          i <= j => globalOutputs[i].height <= globalOutputs[j].height

\* What a transfer has selected is in the list.
SelectedIsListed(c) ==
    c.at = "preparing" => \E k \in Nat : c.ins \in [1 .. k -> ToSet(globalOutputs)]

\* A ring names outputs of the list: the real one, and others that are old enough.
RingHolds(real, at, ring) ==
    /\ \A j \in DOMAIN ring : ring[j] + 1 \in DOMAIN globalOutputs
    /\ \E j \in DOMAIN ring : OutputImage(OutAt(ring[j])) = OutputImage(real)
    /\ \A j \in DOMAIN ring :
          \/ OutputImage(OutAt(ring[j])) = OutputImage(real)
          \/ OutAt(ring[j]).height <= at - SpendableAge

\* The outputs and the rings of a transfer that was built.
TransferHolds(t) ==
    /\ Len(t.outs) \in Nat
    /\ \A i \in DOMAIN t.ins : RingHolds(t.ins[i], t.at, Indices(t.offsets[i]))

\* The inductive invariant.
RingsKept ==
    /\ NodeInv /\ ChainKept
    /\ calls = [w \in Callers |-> calls[w]]
    /\ \A w \in Callers : SelectedIsListed(calls[w])
    /\ \A n \in DOMAIN transfers : TransferHolds(transfers[n])

\* The count of the outputs up to a height names none that is higher.
LEMMA CountsFromTheStart ==
    ASSUME ChainKept, NEW h \in Int, NEW j \in Nat, j < OutputsUpTo(h)
    PROVE  j + 1 \in DOMAIN globalOutputs /\ OutAt(j).height <= h
  <1> DEFINE g == globalOutputs
             D == {i \in DOMAIN g : g[i].height <= h}
  <1>1. /\ g \in Seq(Placed) /\ Len(g) \in Nat /\ DOMAIN g = 1 .. Len(g)
        /\ \A i \in 1 .. Len(g) : g[i].height \in Nat
    <2>1. g \in Seq(Placed)
      BY DEF ChainKept
    <2>2. \A i \in 1 .. Len(g) : g[i] \in Placed
      BY <2>1
    <2> QED
      BY <2>1, <2>2 DEF Placed
  <1>2. D \in SUBSET (1 .. Len(g)) /\ IsFiniteSet(1 .. Len(g))
    BY <1>1, FS_Interval
  <1>3. IsFiniteSet(D) /\ Cardinality(D) \in Nat
    BY <1>2, FS_Subset, FS_CardinalityType
  <1>4. j < Cardinality(D)
    BY DEF OutputsUpTo
  <1>5. \A i, k \in DOMAIN g : i <= k /\ k \in D => i \in D
    <2> SUFFICES ASSUME NEW i \in DOMAIN g, NEW k \in DOMAIN g, i <= k, k \in D PROVE i \in D
      OBVIOUS
    <2>1. g[i].height <= g[k].height /\ g[k].height <= h
      BY DEF ChainKept
    <2>2. g[i].height \in Nat /\ g[k].height \in Nat
      BY <1>1
    <2> QED
      BY <2>1, <2>2
  <1>6. j + 1 \in D
    <2> SUFFICES ASSUME j + 1 \notin D PROVE FALSE
      OBVIOUS
    <2> HIDE DEF D, g
    <2>1. \A k \in D : k <= j
      <3> SUFFICES ASSUME NEW k \in D, ~(k <= j) PROVE FALSE
        OBVIOUS
      <3>1. k \in 1 .. Len(g) /\ j + 1 \in 1 .. Len(g) /\ j + 1 <= k
        BY <1>1, <1>2
      <3> QED
        BY <1>1, <1>5, <3>1
    <2>2. D \in SUBSET (1 .. j)
      BY <1>1, <1>2, <2>1
    <2>3. IsFiniteSet(1 .. j) /\ Cardinality(1 .. j) = j
      BY FS_Interval
    <2>4. Cardinality(D) <= j
      BY <2>2, <2>3, FS_Subset
    <2> QED
      BY <1>3, <1>4, <2>4
  <1> QED
    BY <1>6 DEF OutAt

\* The node finds the place of an output that is in its list.
LEMMA IndexFinds ==
    ASSUME ChainKept, NEW o \in ToSet(globalOutputs)
    PROVE  /\ GlobalIndex(o) \in Nat /\ GlobalIndex(o) + 1 \in DOMAIN globalOutputs
           /\ OutputImage(OutAt(GlobalIndex(o))) = OutputImage(o)
  <1> DEFINE At == {i \in DOMAIN globalOutputs :
                      globalOutputs[i].tx = o.tx /\ globalOutputs[i].place = o.place}
             m == CHOOSE i \in At : \A j \in At : i <= j
  <1>1. globalOutputs \in Seq(Placed) /\ DOMAIN globalOutputs \subseteq Nat \ {0}
    BY DEF ChainKept
  <1>2. At # {} /\ At \subseteq Nat
    BY <1>1 DEF ToSet
  <1> HIDE DEF At
  <1>3. m \in At
    BY <1>2, LeastOf
  <1>4. GlobalIndex(o) = m - 1
    BY <1>2 DEF GlobalIndex, At
  <1> HIDE DEF m
  <1>5. m \in Nat \ {0} /\ m \in DOMAIN globalOutputs
    BY <1>1, <1>3 DEF At
  <1>6. globalOutputs[m].tx = o.tx /\ globalOutputs[m].place = o.place
    BY <1>3 DEF At
  <1>7. m - 1 \in Nat /\ (m - 1) + 1 = m
    BY <1>5
  <1>8. OutAt(m - 1) = globalOutputs[m]
    BY <1>7 DEF OutAt
  <1> QED
    BY <1>4, <1>5, <1>6, <1>7, <1>8 DEF OutputImage

\* The ring that is written down for an output of the list holds.
LEMMA WrittenRingHolds ==
    ASSUME TestnetAssumption, ChainKept, NEW real \in ToSet(globalOutputs),
           NEW r \in Rings(GlobalIndex(real))
    PROVE  RingHolds(real, Len(blocks), Indices(Offsets(Ascending(r))))
  <1> DEFINE p == GlobalIndex(real)
             top == OutputsUpTo(Len(blocks) - SpendableAge)
             a == Ascending(r)
             k == Cardinality(r)
  <1>1. /\ p \in Nat /\ p + 1 \in DOMAIN globalOutputs
        /\ OutputImage(OutAt(p)) = OutputImage(real)
    BY IndexFinds
  <1>2. r \subseteq (0 .. top - 1) \union {p} /\ p \in r
    BY DEF Rings, Pickable
  <1>3. Len(blocks) - SpendableAge \in Int
    BY DEF ChainKept, TestnetAssumption
  <1>4. top \in Nat
    <2>1. globalOutputs \in Seq(Placed)
      BY DEF ChainKept
    <2>2. IsFiniteSet(DOMAIN globalOutputs)
      BY <2>1, FS_Interval
    <2>3. {i \in DOMAIN globalOutputs : globalOutputs[i].height <= Len(blocks) - SpendableAge}
            \in SUBSET DOMAIN globalOutputs
      OBVIOUS
    <2> QED
      BY <2>2, <2>3, FS_Subset, FS_CardinalityType DEF OutputsUpTo
  <1> HIDE DEF p, top
  <1>5. \A x \in r : x \in Nat /\ (x = p \/ x < top)
    BY <1>1, <1>2, <1>4
  <1>6. IsFiniteSet(r) /\ r \subseteq Nat
    <2>1. 0 \in Int /\ top - 1 \in Int
      BY <1>4
    <2>2. IsFiniteSet(0 .. top - 1)
      BY <2>1, FS_Interval
    <2>3. IsFiniteSet((0 .. top - 1) \union {p})
      BY <2>2, FS_AddElement
    <2> QED
      BY <1>2, <1>5, <2>3, FS_Subset
  <1>7. /\ k \in Nat /\ a \in [1 .. k -> r]
        /\ \A x \in r : \E j \in 1 .. k : a[j] = x
    BY <1>6, AscendingLists
  <1> HIDE DEF a, k
  <1>8. a \in [1 .. k -> Nat]
    BY <1>6, <1>7
  <1>9. Indices(Offsets(a)) = a
    BY <1>7, <1>8, OffsetsReadBack
  <1>10. ASSUME NEW x \in r, x # p
         PROVE  x + 1 \in DOMAIN globalOutputs /\ OutAt(x).height <= Len(blocks) - SpendableAge
    BY <1>3, <1>5, <1>10, CountsFromTheStart DEF top
  <1>11. RingHolds(real, Len(blocks), a)
    <2>1. DOMAIN a = 1 .. k /\ \A j \in 1 .. k : a[j] \in r
      BY <1>7
    <2>2. \A j \in DOMAIN a : a[j] + 1 \in DOMAIN globalOutputs
      BY <1>1, <1>10, <2>1
    <2>3. \E j \in DOMAIN a : OutputImage(OutAt(a[j])) = OutputImage(real)
      BY <1>1, <1>2, <1>7, <2>1
    <2>4. \A j \in DOMAIN a : \/ OutputImage(OutAt(a[j])) = OutputImage(real)
                              \/ OutAt(a[j]).height <= Len(blocks) - SpendableAge
      BY <1>1, <1>10, <2>1
    <2> QED
      BY <2>2, <2>3, <2>4 DEF RingHolds
  <1> QED
    BY <1>9, <1>11 DEF a

\* A longer list of outputs keeps the rings and the selections, if the chain is kept.
LEMMA LongerListKeeps ==
    ASSUME RingsKept, NodeInv', ChainKept',
           Len(globalOutputs) <= Len(globalOutputs'),
           \A i \in DOMAIN globalOutputs : globalOutputs'[i] = globalOutputs[i],
           calls' = [w \in Callers |-> calls'[w]],
           \A w \in Callers : \/ calls'[w] = calls[w] \/ calls'[w].at # "preparing"
                             \/ \E k \in Nat : calls'[w].ins \in [1 .. k -> ToSet(globalOutputs)],
           transfers' = transfers
    PROVE  RingsKept'
  <1>1. ChainKept /\ globalOutputs \in Seq(Placed) /\ globalOutputs' \in Seq(Placed)
    BY DEF RingsKept, ChainKept
  <1>2. ToSet(globalOutputs) \subseteq ToSet(globalOutputs')
    <2>1. DOMAIN globalOutputs \subseteq DOMAIN globalOutputs'
      BY <1>1
    <2> QED
      BY <2>1 DEF ToSet
  <1>3. ASSUME NEW w \in Callers PROVE SelectedIsListed(calls[w])'
    <2> SUFFICES ASSUME calls'[w].at = "preparing"
                 PROVE  \E k \in Nat : calls'[w].ins \in [1 .. k -> ToSet(globalOutputs')]
      BY DEF SelectedIsListed
    <2>1. SelectedIsListed(calls[w])
      BY DEF RingsKept
    <2>2. PICK k \in Nat : calls'[w].ins \in [1 .. k -> ToSet(globalOutputs)]
      BY <2>1 DEF SelectedIsListed
    <2> QED
      BY <1>2, <2>2
  <1>4. ASSUME NEW n \in DOMAIN transfers PROVE TransferHolds(transfers[n])'
    <2>1. TransferHolds(transfers[n])
      BY DEF RingsKept
    <2>2. ASSUME NEW i \in DOMAIN transfers[n].ins
          PROVE  RingHolds(transfers[n].ins[i], transfers[n].at, Indices(transfers[n].offsets[i]))'
      <3> DEFINE real == transfers[n].ins[i]
                 at == transfers[n].at
                 ring == Indices(transfers[n].offsets[i])
      <3>1. RingHolds(real, at, ring)
        BY <2>1 DEF TransferHolds
      <3>2. real' = real /\ at' = at /\ ring' = ring
        BY DEF Indices
      <3> HIDE DEF real, at, ring
      <3>3. /\ \A j \in DOMAIN ring : ring[j] + 1 \in DOMAIN globalOutputs'
            /\ \E j \in DOMAIN ring : OutputImage(globalOutputs'[ring[j] + 1]) = OutputImage(real)
            /\ \A j \in DOMAIN ring :
                  \/ OutputImage(globalOutputs'[ring[j] + 1]) = OutputImage(real)
                  \/ globalOutputs'[ring[j] + 1].height <= at - SpendableAge
        <4>1. /\ \A j \in DOMAIN ring : ring[j] + 1 \in DOMAIN globalOutputs
              /\ DOMAIN globalOutputs \subseteq DOMAIN globalOutputs'
          BY <1>1, <3>1 DEF RingHolds
        <4> QED
          BY <3>1, <4>1 DEF RingHolds, OutAt
      <3>4. RingHolds(real, at, ring)'
        BY <3>2, <3>3 DEF RingHolds, OutAt, OutputImage
      <3> QED
        BY <3>4 DEF real, at, ring
    <2> QED
      BY <2>1, <2>2 DEF TransferHolds
  <1>5. \A n \in DOMAIN transfers' : TransferHolds(transfers[n])'
    BY <1>4
  <1> QED
    BY <1>3, <1>5 DEF RingsKept

\* Lists of elements of a set, put one after the other, are a list of them.
LEMMA FlatIsList ==
    ASSUME NEW T, NEW n \in Nat, NEW lists \in [1 .. n -> Seq(T)]
    PROVE  FlattenSeq(lists) \in Seq(T)
  <1> DEFINE Follows(f, m) == \A i \in 1 .. m : f[i] = IF i = 1 THEN lists[i] ELSE f[i - 1] \o lists[i]
             Upto == {m \in Nat : m <= n => \E f \in [1 .. m -> Seq(T)] : Follows(f, m)}
             Flat(f) == f = [i \in 1 .. n |-> IF i = 1 THEN lists[i] ELSE f[i - 1] \o lists[i]]
             c == CHOOSE f : Flat(f)
  <1>1. Len(lists) = n /\ DOMAIN lists = 1 .. n /\ \A i \in 1 .. n : lists[i] \in Seq(T)
    OBVIOUS
  <1>2. n \in Upto
    <2>1. 0 \in Upto
      <3>1. [i \in 1 .. 0 |-> <<>>] \in [1 .. 0 -> Seq(T)] /\ Follows([i \in 1 .. 0 |-> <<>>], 0)
        OBVIOUS
      <3> QED
        BY <3>1
    <2>2. ASSUME NEW m \in Nat, m \in Upto PROVE m + 1 \in Upto
      <3> HIDE DEF Follows
      <3> SUFFICES ASSUME m + 1 <= n
                   PROVE  \E f \in [1 .. m + 1 -> Seq(T)] : Follows(f, m + 1)
        OBVIOUS
      <3>1. PICK f \in [1 .. m -> Seq(T)] : Follows(f, m)
        BY <2>2
      <3> USE DEF Follows
      <3>2. m + 1 \in 1 .. n /\ lists[m + 1] \in Seq(T) /\ (m # 0 => m \in 1 .. m /\ f[m] \in Seq(T))
        BY <1>1
      <3> DEFINE last == IF m = 0 THEN lists[m + 1] ELSE f[m] \o lists[m + 1]
                 e == [i \in 1 .. m + 1 |-> IF i = m + 1 THEN last ELSE f[i]]
      <3>3. last \in Seq(T)
        BY <3>2, ConcatProperties
      <3> HIDE DEF last
      <3>4. \A i \in 1 .. m + 1 : i # m + 1 => i \in 1 .. m /\ f[i] \in Seq(T)
        OBVIOUS
      <3>5. e \in [1 .. m + 1 -> Seq(T)]
        BY <3>3, <3>4
      <3>6. e[m + 1] = last /\ \A i \in 1 .. m : e[i] = f[i]
        OBVIOUS
      <3> HIDE DEF e
      <3>7. ASSUME NEW i \in 1 .. m + 1
            PROVE  e[i] = IF i = 1 THEN lists[i] ELSE e[i - 1] \o lists[i]
        <4>1. CASE i = m + 1 /\ m = 0
          BY <3>6, <4>1 DEF last
        <4>2. CASE i = m + 1 /\ m # 0
          <5>1. i # 1 /\ i - 1 = m /\ m \in 1 .. m
            BY <4>2
          <5>2. e[i] = last /\ e[i - 1] = f[m]
            BY <3>6, <4>2, <5>1
          <5> QED
            BY <4>2, <5>1, <5>2 DEF last
        <4>3. CASE i \in 1 .. m
          <5>1. e[i] = f[i] /\ (i # 1 => i - 1 \in 1 .. m /\ e[i - 1] = f[i - 1])
            BY <3>6, <4>3
          <5>2. f[i] = IF i = 1 THEN lists[i] ELSE f[i - 1] \o lists[i]
            BY <3>1, <4>3
          <5> QED
            BY <5>1, <5>2
        <4> QED
          BY <4>1, <4>2, <4>3
      <3> QED
        BY <3>5, <3>7
    <2> HIDE DEF Upto
    <2> QED
      BY <2>1, <2>2, InductiveSet
  <1>3. Flat(c)
    <2>1. PICK f \in [1 .. n -> Seq(T)] : Follows(f, n)
      BY <1>2
    <2>2. f = [i \in 1 .. n |-> f[i]]
      OBVIOUS
    <2>3. Flat(f)
      BY <2>1, <2>2
    <2> QED
      BY <2>3
  <1> HIDE DEF c
  <1>4. \A i \in 1 .. n : c[i] \in Seq(T)
    <2> DEFINE Good == {m \in Nat : m + 1 \in 1 .. n => c[m + 1] \in Seq(T)}
    <2>1. 0 \in Good
      BY <1>1, <1>3
    <2>2. ASSUME NEW m \in Nat, m \in Good PROVE m + 1 \in Good
      <3> SUFFICES ASSUME (m + 1) + 1 \in 1 .. n PROVE c[(m + 1) + 1] \in Seq(T)
        OBVIOUS
      <3> DEFINE p == (m + 1) + 1
      <3>1. p \in 1 .. n /\ p # 1 /\ p - 1 = m + 1 /\ m + 1 \in 1 .. n
        OBVIOUS
      <3>2. c[m + 1] \in Seq(T)
        BY <2>2, <3>1
      <3> HIDE DEF p
      <3>3. c[p] = c[p - 1] \o lists[p]
        BY <1>3, <3>1
      <3>4. c[p] \in Seq(T)
        BY <1>1, <3>1, <3>2, <3>3, ConcatProperties
      <3> QED
        BY <3>4 DEF p
    <2> HIDE DEF Good
    <2>3. Nat \subseteq Good
      BY <2>1, <2>2, InductiveSet
    <2> SUFFICES ASSUME NEW i \in 1 .. n PROVE c[i] \in Seq(T)
      OBVIOUS
    <2>4. i - 1 \in Nat /\ (i - 1) + 1 = i
      OBVIOUS
    <2> QED
      BY <2>3, <2>4 DEF Good
  <1>5. CASE n = 0
    BY <1>1, <1>5 DEF FlattenSeq
  <1>6. CASE n # 0
    <2>1. FlattenSeq(lists) = c[n]
      BY <1>1, <1>6 DEF FlattenSeq, c
    <2> QED
      BY <1>4, <1>6, <2>1
  <1> QED
    BY <1>5, <1>6

\* The outputs of one block.
OfBlock(h) == {q \in Placed : q.height = h}

\* A transaction with a list of outputs adds outputs of the block it is in.
LEMMA NewOutputsOfBlock ==
    ASSUME NEW h \in Nat, NEW tx \in Int, Len(OutputsOf(tx)) \in Nat
    PROVE  NewOutputs(tx, h) \in Seq(OfBlock(h))
  <1> DEFINE n == Len(OutputsOf(tx))
  <1>1. NewOutputs(tx, h) = [i \in 1 .. n |-> [tx |-> tx, place |-> i - 1, height |-> h]]
    BY DEF NewOutputs
  <1>2. n \in Nat
    OBVIOUS
  <1> HIDE DEF n
  <1>3. \A i \in 1 .. n : [tx |-> tx, place |-> i - 1, height |-> h] \in OfBlock(h)
    BY <1>2 DEF OfBlock, Placed
  <1>4. NewOutputs(tx, h) \in [1 .. n -> OfBlock(h)]
    BY <1>1, <1>3
  <1> QED
    BY <1>2, <1>4

\* Outputs of the new block at the end of the list keep the list in order.
LEMMA BlockKeepsOrder ==
    ASSUME ChainKept, NEW fresh \in Seq(OfBlock(Len(blocks))),
           globalOutputs' = globalOutputs \o fresh, Len(blocks') = Len(blocks) + 1
    PROVE  /\ ChainKept' /\ Len(globalOutputs) <= Len(globalOutputs')
           /\ \A i \in DOMAIN globalOutputs : globalOutputs'[i] = globalOutputs[i]
  <1> DEFINE g == globalOutputs
             h == Len(blocks)
             n == Len(g)
             m == Len(fresh)
             l == globalOutputs'
  <1>1. /\ g \in Seq(Placed) /\ h \in Nat
        /\ \A i \in DOMAIN g : g[i].height < h
        /\ \A i, j \in DOMAIN g : i <= j => g[i].height <= g[j].height
    BY DEF ChainKept
  <1>2. fresh \in Seq(Placed) /\ n \in Nat /\ m \in Nat /\ DOMAIN g = 1 .. n
    <2>1. OfBlock(h) \subseteq Placed
      BY DEF OfBlock
    <2> QED
      BY <1>1, <2>1
  <1>3. \A i \in 1 .. m : fresh[i].height = h
    <2>1. \A i \in 1 .. m : fresh[i] \in OfBlock(h)
      BY <1>2
    <2> QED
      BY <2>1 DEF OfBlock
  <1>4. /\ l \in Seq(Placed) /\ Len(l) = n + m /\ DOMAIN l = 1 .. n + m
        /\ \A i \in 1 .. n + m : l[i] = IF i <= n THEN g[i] ELSE fresh[i - n]
    BY <1>1, <1>2, ConcatProperties
  <1>5. \A i \in 1 .. n : g[i].height \in Nat
    <2>1. \A i \in 1 .. n : g[i] \in Placed
      BY <1>1, <1>2
    <2> QED
      BY <2>1 DEF Placed
  <1> HIDE DEF g, h, n, m, l
  <1>6. \A i \in 1 .. n + m : \/ i \in 1 .. n /\ l[i] = g[i]
                              \/ i > n /\ i - n \in 1 .. m /\ l[i] = fresh[i - n]
    BY <1>2, <1>4
  <1>7. \A i \in 1 .. n + m : \/ i \in 1 .. n /\ l[i].height < h /\ l[i].height \in Nat
                              \/ i > n /\ l[i].height = h
    BY <1>1, <1>2, <1>3, <1>5, <1>6
  <1>8. \A i, j \in 1 .. n + m : i <= j => l[i].height <= l[j].height
    <2> SUFFICES ASSUME NEW i \in 1 .. n + m, NEW j \in 1 .. n + m, i <= j
                 PROVE  l[i].height <= l[j].height
      OBVIOUS
    <2>1. CASE i \in 1 .. n /\ j \in 1 .. n
      <3>1. l[i] = g[i] /\ l[j] = g[j]
        BY <1>2, <1>6, <2>1
      <3> QED
        BY <1>1, <1>2, <2>1, <3>1
    <2>2. CASE j > n
      <3>1. n \in Nat /\ h \in Nat
        BY <1>1, <1>2
      <3>2. l[j].height = h
        BY <1>7, <2>2, <3>1
      <3>3. l[i].height = h \/ (l[i].height \in Nat /\ l[i].height < h)
        BY <1>7
      <3> QED
        BY <3>1, <3>2, <3>3
    <2> QED
      BY <1>2, <2>1, <2>2
  <1>9. \A i \in 1 .. n + m : l[i].height < h + 1
    <2> SUFFICES ASSUME NEW i \in 1 .. n + m PROVE l[i].height < h + 1
      OBVIOUS
    <2>1. l[i].height = h \/ (l[i].height \in Nat /\ l[i].height < h)
      BY <1>7
    <2>2. h \in Nat
      BY <1>1
    <2> QED
      BY <2>1, <2>2
  <1> QED
    BY <1>1, <1>2, <1>4, <1>8, <1>9 DEF ChainKept, g, h, n, l

\* A mined block adds its outputs to the list, and changes nothing else of it.
LEMMA MineLists ==
    ASSUME RingsKept, Mine
    PROVE  /\ ChainKept' /\ Len(globalOutputs) <= Len(globalOutputs')
           /\ \A i \in DOMAIN globalOutputs : globalOutputs'[i] = globalOutputs[i]
  <1> DEFINE h == Len(blocks)
             first == NewOutputs(Coinbase(h), h)
             lists == [i \in DOMAIN mempool |-> NewOutputs(mempool[i], h)]
             rest == FlattenSeq(lists)
             T == OfBlock(h)
  <1>1. /\ ChainKept /\ h \in Nat /\ blocks \in Seq(Seq(Nat)) /\ mempool \in Seq(Nat)
        /\ globalOutputs \in Seq(Placed)
        /\ ToSet(mempool) \subseteq DOMAIN transfers
        /\ \A n \in DOMAIN transfers : Len(transfers[n].outs) \in Nat
    BY DEF RingsKept, ChainKept, NodeInv, TransferHolds
  <1>2. first \in Seq(T)
    <2>1. Coinbase(h) \in Int /\ Coinbase(h) < 0
      BY <1>1 DEF Coinbase
    <2>2. Len(OutputsOf(Coinbase(h))) \in Nat
      BY <2>1 DEF OutputsOf
    <2> QED
      BY <1>1, <2>1, <2>2, NewOutputsOfBlock
  <1>3. lists \in [1 .. Len(mempool) -> Seq(T)]
    <2>1. ASSUME NEW i \in DOMAIN mempool PROVE NewOutputs(mempool[i], h) \in Seq(T)
      <3>1. mempool[i] \in Nat /\ mempool[i] \in DOMAIN transfers
        BY <1>1 DEF ToSet
      <3>2. Len(OutputsOf(mempool[i])) \in Nat
        BY <1>1, <3>1 DEF OutputsOf
      <3> QED
        BY <1>1, <3>1, <3>2, NewOutputsOfBlock
    <2> QED
      BY <1>1, <2>1
  <1>4. rest \in Seq(T)
    <2>1. Len(mempool) \in Nat
      BY <1>1
    <2> HIDE DEF lists, T
    <2> QED
      BY <1>3, <2>1, FlatIsList
  <1>5. globalOutputs' = (globalOutputs \o first) \o rest
    BY DEF Mine
  <1>6. Len(blocks') = Len(blocks) + 1
    BY <1>1, AppendProperties DEF Mine
  <1> HIDE DEF first, rest
  <1>7. first \o rest \in Seq(T)
    BY <1>2, <1>4, ConcatProperties
  <1>8. globalOutputs' = globalOutputs \o (first \o rest)
    <2>1. T \subseteq Placed
      BY DEF OfBlock
    <2>2. first \in Seq(Placed) /\ rest \in Seq(Placed)
      BY <1>2, <1>4, <2>1
    <2> QED
      <3>1. globalOutputs \in Seq(Placed)
        BY <1>1
      <3> QED
        BY <1>5, <2>2, <3>1, ConcatAssociative
  <1> QED
    BY <1>1, <1>6, <1>7, <1>8, BlockKeepsOrder

\* A mined block keeps the invariant.
LEMMA MineKeepsRings ==
    ASSUME RingsKept, Mine, calls' = [w \in Callers |-> calls'[w]],
           \A w \in Callers : calls'[w] = calls[w] \/ calls'[w].at # "preparing"
    PROVE  RingsKept'
  <1>1. NodeInv'
    BY MineSpends DEF RingsKept
  <1>2. transfers' = transfers
    BY DEF Mine
  <1> QED
    BY <1>1, <1>2, MineLists, LongerListKeeps

\* What leaves the blocks and their outputs alone leaves the chain alone.
LEMMA ChainStays ==
    ASSUME ChainKept, blocks' = blocks, globalOutputs' = globalOutputs
    PROVE  /\ ChainKept' /\ Len(globalOutputs) <= Len(globalOutputs')
           /\ \A i \in DOMAIN globalOutputs : globalOutputs'[i] = globalOutputs[i]
  <1>1. Len(globalOutputs) \in Nat
    BY DEF ChainKept
  <1> QED
    BY <1>1 DEF ChainKept

\* A transfer selects what its wallet can spend, which is in the list.
LEMMA SelectsListed ==
    ASSUME RingsKept, NEW w \in Callers, NEW from, NEW to, NEW amount,
           TransferSelects(w, from, to, amount)
    PROVE  RingsKept'
  <1>1. /\ UNCHANGED <<blocks, mempool, globalOutputs, spentImages, transfers>>
        /\ NodeInv /\ ChainKept /\ calls = [v \in Callers |-> calls[v]]
    BY DEF TransferSelects, RingsKept
  <1>2. PICK s \in Selections(from, amount + Fee) :
           calls' = [calls EXCEPT ![w] = [at |-> "preparing", from |-> from, ins |-> s,
                                            to |-> to, amount |-> amount]]
    BY DEF TransferSelects
  <1>3. PICK k \in 1 .. MaxInputs : s \in [1 .. k -> Spendable(from)]
    BY DEF Selections
  <1>4. k \in Nat /\ s \in [1 .. k -> ToSet(globalOutputs)]
    <2>1. k \in Nat
      BY TestnetAssumption DEF TestnetAssumption
    <2>2. Spendable(from) \subseteq ToSet(globalOutputs)
      BY DEF Spendable
    <2> QED
      BY <1>3, <2>1, <2>2
  <1>5. /\ calls' = [v \in Callers |-> calls'[v]]
        /\ calls'[w].ins = s /\ \A v \in Callers \ {w} : calls'[v] = calls[v]
    BY <1>1, <1>2
  <1>6. \A v \in Callers : \/ calls'[v] = calls[v]
                           \/ \E n \in Nat : calls'[v].ins \in [1 .. n -> ToSet(globalOutputs)]
    BY <1>4, <1>5
  <1>7. NodeInv' /\ transfers' = transfers
    BY <1>1, NodeStutters
  <1> QED
    BY <1>1, <1>5, <1>6, <1>7, ChainStays, LongerListKeeps

\* Transfers that hold while the list of outputs stays keep the invariant.
LEMMA BuiltKeeps ==
    ASSUME RingsKept, NodeInv', blocks' = blocks, globalOutputs' = globalOutputs,
           calls' = [w \in Callers |-> calls'[w]],
           \A w \in Callers : calls'[w] = calls[w] \/ calls'[w].at # "preparing",
           \A n \in DOMAIN transfers' : TransferHolds(transfers'[n])
    PROVE  RingsKept'
  <1>1. ChainKept /\ \A w \in Callers : SelectedIsListed(calls[w])
    BY DEF RingsKept
  <1>2. ChainKept'
    BY <1>1, ChainStays
  <1>3. ASSUME NEW w \in Callers PROVE SelectedIsListed(calls[w])'
    <2>1. calls'[w].at = "preparing" => calls'[w] = calls[w]
      OBVIOUS
    <2> QED
      BY <1>1, <2>1 DEF SelectedIsListed
  <1>4. ASSUME NEW n \in DOMAIN transfers' PROVE TransferHolds(transfers[n])'
    <2>1. TransferHolds(transfers'[n])
      OBVIOUS
    <2>2. ASSUME NEW i \in DOMAIN transfers'[n].ins
          PROVE  RingHolds(transfers[n].ins[i], transfers[n].at, Indices(transfers[n].offsets[i]))'
      <3> DEFINE ring == Indices(transfers'[n].offsets[i])
      <3>1. RingHolds(transfers'[n].ins[i], transfers'[n].at, ring)
        BY <2>1 DEF TransferHolds
      <3>2. Indices(transfers[n].offsets[i])' = ring
        BY DEF Indices
      <3> HIDE DEF ring
      <3> QED
        BY <3>1, <3>2 DEF RingHolds, OutAt, OutputImage
    <2> QED
      BY <2>1, <2>2 DEF TransferHolds
  <1> QED
    BY <1>2, <1>3, <1>4 DEF RingsKept

\* The transfer that is built has rings that hold.
LEMMA SendsHold ==
    ASSUME TestnetAssumption, RingsKept, NEW w \in Callers, calls[w].at = "preparing",
           NEW outs, Len(outs) \in Nat, NEW rings,
           \A i \in DOMAIN calls[w].ins : rings[i] \in Rings(GlobalIndex(calls[w].ins[i]))
    PROVE  TransferHolds([ins |-> calls[w].ins, outs |-> outs, at |-> Len(blocks),
                          offsets |-> [i \in DOMAIN calls[w].ins |-> Offsets(Ascending(rings[i]))]])
  <1> DEFINE ins == calls[w].ins
             offsets == [i \in DOMAIN ins |-> Offsets(Ascending(rings[i]))]
  <1>1. ChainKept /\ SelectedIsListed(calls[w])
    BY DEF RingsKept
  <1>2. PICK k \in Nat : ins \in [1 .. k -> ToSet(globalOutputs)]
    BY <1>1 DEF SelectedIsListed
  <1>3. ASSUME NEW i \in DOMAIN ins PROVE RingHolds(ins[i], Len(blocks), Indices(offsets[i]))
    <2>1. ins[i] \in ToSet(globalOutputs) /\ rings[i] \in Rings(GlobalIndex(ins[i]))
      BY <1>2
    <2>2. offsets[i] = Offsets(Ascending(rings[i]))
      OBVIOUS
    <2> HIDE DEF ins, offsets
    <2> QED
      BY <1>1, <2>1, <2>2, WrittenRingHolds
  <1> HIDE DEF ins, offsets
  <1>4. TransferHolds([ins |-> ins, outs |-> outs, at |-> Len(blocks), offsets |-> offsets])
    BY <1>3 DEF TransferHolds
  <1> QED
    BY <1>4 DEF ins, offsets

\* The end of a transfer keeps the invariant.
LEMMA SendsKeepRings ==
    ASSUME TestnetAssumption, RingsKept, NEW w \in Callers, TransferSends(w)
    PROVE  RingsKept'
  <1> DEFINE c == calls[w]
             change == Total(c.ins) - c.amount - Fee
             outs == <<[owner |-> c.to, amount |-> c.amount]>>
                       \o (IF change > 0 THEN <<[owner |-> c.from, amount |-> change]>> ELSE <<>>)
  <1>1. /\ NodeInv' /\ blocks' = blocks /\ globalOutputs' = globalOutputs
        /\ calls = [v \in Callers |-> calls[v]]
        /\ \A n \in DOMAIN transfers : TransferHolds(transfers[n])
        /\ \E S : transfers \in Seq(S)
        /\ c.at = "preparing"
    BY SendsKeeps DEF RingsKept, NodeInv, TransferSends
  <1>2. Len(outs) \in Nat
    OBVIOUS
  <1>3. /\ calls' = [v \in Callers |-> calls'[v]]
        /\ \A v \in Callers : calls'[v] = calls[v] \/ calls'[v].at # "preparing"
    <2>1. \E d : calls' = [calls EXCEPT ![w] = d] /\ d.at # "preparing"
      <3>1. /\ NoTransferCall.at # "preparing"
            /\ [NoTransferCall EXCEPT !.at = "mining"].at # "preparing"
        BY DEF NoTransferCall
      <3> QED
        BY <3>1 DEF TransferSends
    <2> QED
      BY <1>1, <2>1
  <1>4. \/ transfers' = transfers
        \/ \E rings :
              /\ \A i \in DOMAIN c.ins : rings[i] \in Rings(GlobalIndex(c.ins[i]))
              /\ transfers' = Append(transfers,
                    [ins |-> c.ins, outs |-> outs, at |-> Len(blocks),
                     offsets |-> [i \in DOMAIN c.ins |-> Offsets(Ascending(rings[i]))]])
    <2> HIDE DEF outs
    <2>1. outs = <<[owner |-> c.to, amount |-> c.amount]>>
                       \o (IF change > 0 THEN <<[owner |-> c.from, amount |-> change]>> ELSE <<>>)
      BY DEF outs
    <2> QED
      BY DEF TransferSends, outs
  <1> HIDE DEF outs
  <1>5. \A n \in DOMAIN transfers' : TransferHolds(transfers'[n])
    <2>1. CASE transfers' = transfers
      BY <1>1, <2>1
    <2>2. ASSUME NEW t, TransferHolds(t), transfers' = Append(transfers, t)
          PROVE  \A n \in DOMAIN transfers' : TransferHolds(transfers'[n])
      <3>1. PICK S : transfers \in Seq(S)
        BY <1>1
      <3>2. transfers \in Seq(S \union {t})
        BY <3>1
      <3>3. \A n \in DOMAIN transfers' : transfers'[n] = t \/ (n \in DOMAIN transfers /\ transfers'[n] = transfers[n])
        BY <2>2, <3>2, AppendProperties
      <3> HIDE DEF TransferHolds
      <3> QED
        BY <1>1, <2>2, <3>3
    <2> QED
      BY <1>1, <1>2, <1>4, <2>1, <2>2, SendsHold
  <1> QED
    BY <1>1, <1>3, <1>5, BuiltKeeps

\* In every state of the node: no output is spent in two blocks, and the ring of
\* each transfer, read back from its offsets, names outputs of the chain, the one
\* that is spent and others that were old enough when it was built; whatever is
\* selected, sent again and mined in between.
THEOREM TestnetKeepsRings ==
    TestnetInit /\ [][TestnetNext]_testnetVars => []TestnetHolds
  <1>1. TestnetInit => RingsKept
    <2> SUFFICES ASSUME TestnetInit PROVE RingsKept
      OBVIOUS
    <2>1. /\ blocks = <<>> /\ mempool = <<>> /\ transfers = <<>> /\ spentImages = {}
          /\ globalOutputs = <<>> /\ calls = [w \in Callers |-> NoTransferCall]
      BY DEF TestnetInit
    <2>2. NodeInv
      <3>1. transfers \in Seq(Nat)
        BY <2>1
      <3>2. ImagesOf(mempool) = {} /\ ToSet(mempool) = {}
        BY <2>1 DEF ImagesOf, ToSet
      <3> QED
        BY <2>1, <3>1, <3>2 DEF NodeInv, SpentInOneBlock
    <2>3. ChainKept
      BY <2>1 DEF ChainKept
    <2>4. \A w \in Callers : SelectedIsListed(calls[w])
      BY <2>1 DEF SelectedIsListed, NoTransferCall
    <2> QED
      BY <2>1, <2>2, <2>3, <2>4 DEF RingsKept
  <1>2. RingsKept /\ [TestnetNext]_testnetVars => RingsKept'
    <2> SUFFICES ASSUME RingsKept, [TestnetNext]_testnetVars PROVE RingsKept'
      OBVIOUS
    <2>1. calls = [w \in Callers |-> calls[w]] /\ NodeInv /\ ChainKept
      BY DEF RingsKept
    <2>2. CASE MineBlock
      BY <2>1, <2>2, MineKeepsRings DEF MineBlock
    <2>3. CASE \E k \in Callers, w, to \in Wallets, amount \in Amounts : TransferSelects(k, w, to, amount)
      BY <2>3, SelectsListed
    <2>4. CASE \E w \in Callers : TransferSends(w)
      BY <2>4, TestnetAssumption, SendsKeepRings
    <2>5. ASSUME NEW w \in Callers, TransferMines(w) PROVE RingsKept'
      <3>1. /\ calls' = [v \in Callers |-> calls'[v]]
            /\ \A v \in Callers : calls'[v] = calls[v] \/ calls'[v].at # "preparing"
        BY <2>1, <2>5 DEF TransferMines, NoTransferCall
      <3>2. CASE Mine
        BY <3>1, <3>2, MineKeepsRings
      <3>3. CASE UNCHANGED <<blocks, mempool, globalOutputs, spentImages, transfers>>
        BY <2>1, <3>1, <3>3, NodeStutters, ChainStays, LongerListKeeps
      <3> QED
        BY <2>5, <3>2, <3>3 DEF TransferMines
    <2>6. ASSUME NEW n \in DOMAIN transfers, SendRawTransaction(n) PROVE RingsKept'
      <3>1. /\ blocks' = blocks /\ globalOutputs' = globalOutputs /\ transfers' = transfers
            /\ calls' = calls /\ NodeInv'
        BY <2>1, <2>6, SendAgainKeeps DEF SendRawTransaction
      <3> QED
        BY <2>1, <3>1, ChainStays, LongerListKeeps
    <2>7. CASE UNCHANGED testnetVars
      BY <2>1, <2>7, NodeStutters, ChainStays, LongerListKeeps DEF testnetVars
    <2> QED
      BY <2>2, <2>3, <2>4, <2>5, <2>6, <2>7 DEF TestnetNext
  <1>3. RingsKept => TestnetHolds
    BY DEF RingsKept, NodeInv, TransferHolds, RingHolds, TestnetHolds, RingsResolve
  <1> QED
    BY <1>1, <1>2, <1>3, PTL
=============================================================================
