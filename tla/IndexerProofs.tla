--------------------------- MODULE IndexerProofs ---------------------------
(***************************************************************************)
(* Proofs about the indexer, for any chain and any number of runs that     *)
(* overlap, die between two awaits and read stale rows.                    *)
(***************************************************************************)
EXTENDS Indexer, SumsProofs, TLAPS

LOCAL WF == INSTANCE WellFoundedInduction

\* The oldest of the listed transactions.
LEMMA OldestExists ==
  ASSUME NEW S, S \subseteq Nat, S # {}
  PROVE  Min(S) \in S /\ \A i \in S : Min(S) <= i
<1>1. PICK x \in S : \A y \in S : ~(<<y, x>> \in WF!OpToRel(<, Nat))
  BY WF!NatLessThanWellFounded, WF!WFMin
<1>2. WF!OpToRel(<, Nat) = {pair \in Nat \X Nat : pair[1] < pair[2]}
  BY Zenon DEF WF!OpToRel
<1>3. \A y \in S : x <= y
  <2> SUFFICES ASSUME NEW y \in S, y < x PROVE FALSE
    OBVIOUS
  <2>1. <<y, x>> \in {pair \in Nat \X Nat : pair[1] < pair[2]}
    OBVIOUS
  <2>2. QED
    BY <1>1, <1>2, <2>1
<1>4. QED
  BY <1>3 DEF Min

Fields == {"pc", "sigs", "since", "last", "direct", "isNew", "seen", "seenRow"}

Recorded(i) == i \in events \union unread

\* What phase 1, and phase 2, may leave behind.
Past1(n) == \A i \in 1 .. n : chain[i].kind # "direct" => Recorded(i)
Past2(n) == \A i \in 1 .. n : HasTransfer(i) => Recorded(i)

InPhase1(r) == \/ run[r].pc \in {"phase1", "apply"}
               \/ run[r].pc \in {"readDonor", "writeDonor"} /\ ~run[r].direct

InPhase2(r) == \/ run[r].pc \in {"phase2", "readTotal", "writeTotal"}
               \/ run[r].pc \in {"readDonor", "writeDonor"} /\ run[r].direct

AtWork == {"apply", "readDonor", "writeDonor", "readTotal", "writeTotal"}

\* What a run may count on: what it has passed was recorded, what it has not
\* passed is still in its list.
RunOK(r) ==
    /\ DOMAIN run[r] = Fields
    /\ run[r].sigs \subseteq 1 .. Len(chain)
    /\ run[r].since \in 0 .. Len(chain) /\ run[r].last \in 0 .. Len(chain)
    /\ run[r].pc \in {"idle", "list"} => run[r].last = 0
    /\ run[r].pc \in {"idle", "list", "phase1", "apply"} => ~run[r].direct
    /\ run[r].pc \in {"phase2", "readTotal", "writeTotal"} => run[r].direct
    /\ run[r].pc = "list" => Past1(run[r].since)
    /\ run[r].pc = "listDirect" => Past2(run[r].since)
    /\ run[r].pc \in AtWork => run[r].sigs # {} /\ Current(r) \in events
    /\ InPhase1(r) =>
         /\ Past1(run[r].last)
         /\ \A s \in run[r].sigs : \A i \in 1 .. s :
               chain[i].kind # "direct" => Recorded(i) \/ i \in run[r].sigs
    /\ InPhase2(r) =>
         \A i \in 1 .. run[r].last : HasTransfer(i) => Recorded(i) \/ i \in run[r].sigs

\* A jar is created once, and emptied or cancelled; its row knows of nothing
\* that is not on the chain.
HasAt(kind, i) == i \in 1 .. Len(chain) /\ chain[i].kind = kind

ChainOK ==
    /\ \E S : chain \in Seq(S)
    /\ \A i, j : HasAt("create", i) /\ HasAt("create", j) => i = j
    /\ ~(Has("withdraw") /\ Has("cancel"))

RowOK ==
    /\ DOMAIN jarRow = DOMAIN NoJarRow
    /\ jarRow.lastDirectSig \in 0 .. Len(chain)
    /\ jarRow.status # "none" => \E i \in events : HasAt("create", i)
    /\ jarRow.status = "withdrawn" => Has("withdraw")
    /\ jarRow.status = "cancelled" => Has("cancel")

\* The run that is about to apply the creation: it inserted the event.
Creating(r) == run[r].pc = "apply" /\ HasAt("create", Current(r))

OneCreator ==
    /\ \A r \in Runs : Creating(r) => jarRow.status = "none"
    /\ \A r, q \in Runs : Creating(r) /\ Creating(q) => r = q

IndexerInv ==
    /\ ChainOK
    /\ RowOK
    /\ cursor \in 0 .. Len(chain)
    /\ NothingBehindCursors
    /\ run = [r \in Runs |-> run[r]]
    /\ \A r \in Runs : RunOK(r)
    /\ OneCreator

LEMMA IndexerInvInit == Init => IndexerInv
<1> SUFFICES ASSUME Init PROVE IndexerInv
  OBVIOUS
<1>1. chain \in Seq({}) /\ Len(chain) = 0
  BY DEF Init
<1>2. ChainOK
  BY <1>1 DEF Init, ChainOK, HasAt, Has
<1>3. RowOK /\ NothingBehindCursors /\ cursor \in 0 .. Len(chain)
  BY <1>1 DEF Init, RowOK, NoJarRow, NothingBehindCursors
<1>4. \A r \in Runs : RunOK(r) /\ ~Creating(r)
  BY <1>1 DEF Init, IdleRun, RunOK, Fields, AtWork, InPhase1, InPhase2, Creating
<1>5. QED
  BY <1>2, <1>3, <1>4 DEF Init, IndexerInv, OneCreator

\* The chain grows at its end: what was true of it stays true.
LEMMA AppendKeeps ==
  ASSUME NEW S, NEW s \in Seq(S), NEW e
  PROVE  /\ Append(s, e) \in Seq(S \union {e})
         /\ Len(s) \in Nat /\ Len(Append(s, e)) = Len(s) + 1
         /\ DOMAIN s = 1 .. Len(s)
         /\ \A i \in 1 .. Len(s) : Append(s, e)[i] = s[i]
         /\ Append(s, e)[Len(s) + 1] = e
<1>1. s \in Seq(S \union {e})
  OBVIOUS
<1>2. QED
  BY <1>1

\* A direct gift is one more transaction.
LEMMA DirectLands ==
  ASSUME NEW transfers, ChainDirect(transfers)
  PROVE  \E tx : /\ chain' = Append(chain, tx)
                 /\ tx.kind = "direct" /\ tx.transfers = transfers
<1>1. PICK tx :
        tx = [ kind |-> "direct", donor |-> NoDonor, amount |-> 0,
               totalAfter |-> OnChainTotal,
               contributorsAfter |-> OnChainContributors,
               transfers |-> transfers ]
  OBVIOUS
<1>2. tx.kind = "direct" /\ tx.transfers = transfers
  BY <1>1
<1>3. chain' = Append(chain, tx)
  BY <1>1 DEF ChainDirect, Land
<1>4. QED
  BY <1>2, <1>3

LEMMA ChainMoves == ASSUME IndexerInv, ChainNext PROVE IndexerInv'
<1>1. PICK tx :
        /\ chain' = Append(chain, tx)
        /\ tx.kind = "create" => ~Has("create")
        /\ tx.kind = "withdraw" => ~Has("cancel")
        /\ tx.kind = "cancel" => ~Has("withdraw")
  <2>1. ASSUME NEW kind, NEW donor, NEW amount, NEW total, NEW contributors,
               Append1(kind, donor, amount, total, contributors)
        PROVE  \E tx : chain' = Append(chain, tx) /\ tx.kind = kind
    <3>1. PICK tx : tx = [ kind |-> kind, donor |-> donor, amount |-> amount,
                           totalAfter |-> total, contributorsAfter |-> contributors,
                           transfers |-> <<>> ]
      OBVIOUS
    <3>2. tx.kind = kind
      BY <3>1
    <3>3. chain' = Append(chain, tx)
      BY <2>1, <3>1 DEF Append1, Land
    <3>4. QED
      BY <3>2, <3>3
  <2>2. CASE ChainCreate
    BY <2>1, <2>2 DEF ChainCreate
  <2>3. CASE ChainCancel
    BY <2>1, <2>3 DEF ChainCancel
  <2>4. ASSUME NEW amount, ChainWithdraw(amount)
        PROVE  ~Has("cancel") /\ \E tx : chain' = Append(chain, tx) /\ tx.kind = "withdraw"
    BY <2>1, <2>4 DEF ChainWithdraw, JarOpen
  <2>5. ASSUME NEW d, NEW amount, ChainContribute(d, amount)
        PROVE  \E tx : chain' = Append(chain, tx) /\ tx.kind = "contribute"
    BY <2>1, <2>5 DEF ChainContribute
  <2>6. ASSUME NEW transfers, ChainDirect(transfers)
        PROVE  \E tx : chain' = Append(chain, tx) /\ tx.kind = "direct"
    BY <2>6, DirectLands
  <2>7. ASSUME NEW d, ChainRefund(d)
        PROVE  \E tx : chain' = Append(chain, tx) /\ tx.kind = "refund"
    BY <2>1, <2>7 DEF ChainRefund
  <2>8. QED
    BY <2>2, <2>3, <2>4, <2>5, <2>6, <2>7 DEF ChainNext
<1>2. UNCHANGED <<events, cursor, jarRow, run, unread>>
  BY DEF ChainNext, ChainCreate, ChainCancel, ChainWithdraw, ChainContribute,
         ChainDirect, ChainRefund, Append1, Land
<1>3. PICK S : chain \in Seq(S)
  BY DEF IndexerInv, ChainOK
<1>4. /\ chain' \in Seq(S \union {tx})
      /\ Len(chain) \in Nat /\ Len(chain') = Len(chain) + 1
      /\ DOMAIN chain = 1 .. Len(chain) /\ DOMAIN chain' = 1 .. Len(chain')
      /\ \A i \in 1 .. Len(chain) : chain'[i] = chain[i]
      /\ chain'[Len(chain) + 1] = tx
  BY <1>1, <1>3, AppendKeeps
<1>5. \A kind : Has(kind) => Has(kind)'
  BY <1>4 DEF Has
<1>6. \A kind : Has(kind)' => Has(kind) \/ tx.kind = kind
  BY <1>4 DEF Has
<1>7. \A kind, i : HasAt(kind, i) => HasAt(kind, i)'
  BY <1>4 DEF HasAt
<1>8. \A kind, i : HasAt(kind, i)' => HasAt(kind, i) \/ (tx.kind = kind /\ i = Len(chain'))
  BY <1>4 DEF HasAt
<1>9. ChainOK'
  <2>1. ~Has("create") => \A i : ~HasAt("create", i)
    BY <1>4 DEF Has, HasAt
  <2>2. \A i, j : HasAt("create", i)' /\ HasAt("create", j)' => i = j
    BY <1>1, <1>8, <2>1 DEF IndexerInv, ChainOK
  <2>3. ~(Has("withdraw")' /\ Has("cancel")')
    BY <1>1, <1>6 DEF IndexerInv, ChainOK
  <2>4. QED
    BY <1>4, <2>2, <2>3 DEF ChainOK
<1>10. RowOK'
  BY <1>2, <1>4, <1>5, <1>7 DEF IndexerInv, RowOK
<1>11. \A i \in 1 .. Len(chain) : /\ HasTransfer(i)' = HasTransfer(i)
                                  /\ chain'[i].kind = chain[i].kind
  BY <1>4 DEF HasTransfer
<1>12. NothingBehindCursors' /\ cursor' \in 0 .. Len(chain')
  BY <1>2, <1>4, <1>11 DEF IndexerInv, NothingBehindCursors, RowOK
<1>13. ASSUME NEW r \in Runs PROVE RunOK(r)' /\ (Creating(r)' => Creating(r))
  <2>1. RunOK(r)
    BY DEF IndexerInv
  <2>2. \A n \in 0 .. Len(chain) : (Past1(n) => Past1(n)') /\ (Past2(n) => Past2(n)')
    BY <1>2, <1>4, <1>11 DEF Past1, Past2, Recorded
  <2>3. Current(r)' = Current(r) /\ InPhase1(r)' = InPhase1(r)
        /\ InPhase2(r)' = InPhase2(r)
    BY <1>2 DEF Current, InPhase1, InPhase2
  <2>4. RunOK(r)'
    BY <1>2, <1>4, <1>11, <2>1, <2>2, <2>3 DEF RunOK, Recorded
  <2>5. Creating(r)' => Creating(r)
    <3>1. run[r].pc = "apply" => Current(r) \in 1 .. Len(chain)
      BY <1>4, <2>1, OldestExists DEF RunOK, AtWork, Current
    <3>2. QED
      BY <1>2, <1>4, <1>8, <2>3, <3>1 DEF Creating
  <2>6. QED
    BY <2>4, <2>5
<1>14. QED
  BY <1>2, <1>9, <1>10, <1>12, <1>13 DEF IndexerInv, OneCreator

\* One run moves; what the others count on only grows.
LEMMA OneRunMoves ==
  ASSUME IndexerInv, NEW r \in Runs, chain' = chain,
         events \subseteq events', unread \subseteq unread',
         run' = [q \in Runs |-> run'[q]],
         \A q \in Runs \ {r} : run'[q] = run[q],
         RunOK(r)', RowOK', cursor' \in 0 .. Len(chain), NothingBehindCursors',
         OneCreator'
  PROVE  IndexerInv'
<1>1. ChainOK'
  <2>1. ChainOK' <=> ChainOK
    BY DEF ChainOK, HasAt, Has
  <2>2. QED
    BY <2>1 DEF IndexerInv
<1>2. ASSUME NEW q \in Runs, q # r PROVE RunOK(q)'
  <2>1. run'[q] = run[q] /\ RunOK(q)
    BY <1>2 DEF IndexerInv
  <2>2. \A n \in 0 .. Len(chain) : (Past1(n) => Past1(n)') /\ (Past2(n) => Past2(n)')
    BY DEF Past1, Past2, Recorded, HasTransfer
  <2>3. \A i : HasTransfer(i)' = HasTransfer(i) /\ (Recorded(i) => Recorded(i)')
    BY DEF HasTransfer, Recorded
  <2>4. Current(q)' = Current(q) /\ InPhase1(q)' = InPhase1(q)
        /\ InPhase2(q)' = InPhase2(q)
    BY <2>1 DEF Current, InPhase1, InPhase2
  <2>5. QED
    BY <2>1, <2>2, <2>3, <2>4 DEF RunOK
<1>3. QED
  BY <1>1, <1>2 DEF IndexerInv

\* The step of a run that changes no cursor and no row of the jar.
LEMMA QuietRunMoves ==
  ASSUME IndexerInv, NEW r \in Runs, UNCHANGED <<chain, cursor, jarRow>>,
         events \subseteq events', unread \subseteq unread',
         run' = [q \in Runs |-> run'[q]],
         \A q \in Runs \ {r} : run'[q] = run[q],
         RunOK(r)', run'[r].pc # "apply"
  PROVE  IndexerInv'
<1>1. RowOK'
  <2>1. Has("withdraw")' = Has("withdraw") /\ Has("cancel")' = Has("cancel")
    BY DEF Has
  <2>2. QED
    BY <2>1 DEF IndexerInv, RowOK, HasAt
<1>2. cursor' \in 0 .. Len(chain) /\ NothingBehindCursors'
  BY DEF IndexerInv, NothingBehindCursors, HasTransfer
<1>3. OneCreator'
  <2>1. \A q \in Runs : Creating(q)' => Creating(q)
    BY DEF Creating, HasAt, Current
  <2>2. QED
    BY <2>1 DEF IndexerInv, OneCreator
<1>4. QED
  BY <1>1, <1>2, <1>3, OneRunMoves

LEMMA BeginAndEnd ==
  ASSUME IndexerInv, NEW r \in Runs, Begin(r) \/ Crash(r)
  PROVE  IndexerInv'
<1>1. /\ UNCHANGED <<chain, events, cursor, jarRow, unread>>
      /\ DOMAIN run[r] = Fields /\ RunOK(r)
      /\ Len(chain) \in Nat
  BY DEF Begin, Crash, IndexerInv, RunOK, ChainOK
<1>2. CASE Begin(r)
  <2>1. /\ run'[r].pc = "list" /\ run'[r].since = cursor
        /\ run'[r].last = run[r].last /\ run'[r].direct = run[r].direct
        /\ run'[r].sigs = run[r].sigs /\ DOMAIN run'[r] = Fields
        /\ run' = [q \in Runs |-> run'[q]]
        /\ \A q \in Runs \ {r} : run'[q] = run[q]
    BY <1>1, <1>2 DEF Begin, IndexerInv, Fields
  <2>2. Past1(cursor)'
    BY <1>1 DEF IndexerInv, NothingBehindCursors, Past1, Recorded
  <2>3. run[r].pc = "idle"
    BY <1>2 DEF Begin
  <2>4. RunOK(r)'
    BY <1>1, <2>1, <2>2, <2>3 DEF RunOK, IndexerInv, AtWork, InPhase1, InPhase2, Past1
  <2>5. QED
    BY <1>1, <2>1, <2>4, QuietRunMoves
<1>3. CASE Crash(r)
  <2>1. /\ run'[r] = IdleRun
        /\ run' = [q \in Runs |-> run'[q]]
        /\ \A q \in Runs \ {r} : run'[q] = run[q]
    BY <1>3 DEF Crash, Finish, IndexerInv
  <2>2. RunOK(r)'
    BY <1>1, <2>1 DEF RunOK, IdleRun, Fields, AtWork, InPhase1, InPhase2
  <2>3. QED
    BY <1>1, <2>1, <2>2, QuietRunMoves DEF IdleRun
<1>4. QED
  BY <1>2, <1>3

\* A finished run holds nothing.
LEMMA IdleIsOK ==
  ASSUME IndexerInv, NEW r \in Runs, chain' = chain, Finish(r)
  PROVE  /\ RunOK(r)' /\ run'[r].pc = "idle"
         /\ run' = [q \in Runs |-> run'[q]]
         /\ \A q \in Runs \ {r} : run'[q] = run[q]
<1>1. /\ run'[r] = IdleRun
      /\ run' = [q \in Runs |-> run'[q]]
      /\ \A q \in Runs \ {r} : run'[q] = run[q]
  BY DEF Finish, IndexerInv
<1>2. Len(chain) \in Nat
  BY DEF IndexerInv, ChainOK
<1>3. QED
  BY <1>1, <1>2 DEF RunOK, IdleRun, Fields, AtWork, InPhase1, InPhase2

\* Taking the lists.
LEMMA ListsAreComplete ==
  ASSUME IndexerInv, NEW r \in Runs,
         ListProgram(r) \/ SelectActive(r) \/ ListDirect(r)
  PROVE  IndexerInv'
<1>1. /\ UNCHANGED <<chain, events, cursor, jarRow, unread>>
      /\ DOMAIN run[r] = Fields /\ RunOK(r)
      /\ Len(chain) \in Nat /\ DOMAIN chain = 1 .. Len(chain)
  BY DEF ListProgram, SelectActive, ListDirect, IndexerInv, RunOK, ChainOK
<1>2. CASE ListProgram(r)
  <2>1. /\ run'[r].pc = "phase1"
        /\ run'[r].sigs = {i \in DOMAIN chain : i > run[r].since
                                                /\ chain[i].kind # "direct"}
        /\ run'[r].since = run[r].since /\ run'[r].last = run[r].last
        /\ run'[r].direct = run[r].direct /\ DOMAIN run'[r] = Fields
        /\ run' = [q \in Runs |-> run'[q]]
        /\ \A q \in Runs \ {r} : run'[q] = run[q]
    BY <1>1, <1>2 DEF ListProgram, IndexerInv, Fields
  <2>2. /\ run[r].last = 0 /\ ~run[r].direct /\ Past1(run[r].since)
        /\ run[r].since \in 0 .. Len(chain)
    BY <1>1, <1>2 DEF ListProgram, RunOK
  <2>3. \A s \in run'[r].sigs : \A i \in 1 .. s :
           chain[i].kind # "direct" => Recorded(i) \/ i \in run'[r].sigs
    BY <1>1, <2>1, <2>2 DEF Past1
  <2>4. RunOK(r)'
    BY <1>1, <2>1, <2>2, <2>3
    DEF RunOK, AtWork, InPhase1, InPhase2, Past1, Recorded
  <2>5. QED
    BY <1>1, <2>1, <2>4, QuietRunMoves
<1>3. CASE SelectActive(r)
  <2>1. CASE Finish(r)
    BY <1>1, <2>1, IdleIsOK, QuietRunMoves
  <2>2. CASE run' = [run EXCEPT ![r].pc = "listDirect",
                                ![r].since = jarRow.lastDirectSig]
    <3>1. /\ run'[r].pc = "listDirect" /\ run'[r].since = jarRow.lastDirectSig
          /\ run'[r].last = run[r].last /\ run'[r].direct = run[r].direct
          /\ run'[r].sigs = run[r].sigs /\ DOMAIN run'[r] = Fields
          /\ run' = [q \in Runs |-> run'[q]]
          /\ \A q \in Runs \ {r} : run'[q] = run[q]
      BY <1>1, <2>2 DEF IndexerInv, Fields
    <3>2. Past2(jarRow.lastDirectSig)' /\ jarRow.lastDirectSig \in 0 .. Len(chain)
      BY <1>1 DEF IndexerInv, NothingBehindCursors, Past2, Recorded, HasTransfer, RowOK
    <3>3. RunOK(r)'
      BY <1>1, <3>1, <3>2 DEF RunOK, AtWork, InPhase1, InPhase2, Past2
    <3>4. QED
      BY <1>1, <3>1, <3>3, QuietRunMoves
  <2>3. QED
    BY <1>3, <2>1, <2>2 DEF SelectActive
<1>4. CASE ListDirect(r)
  <2>1. CASE Finish(r)
    BY <1>1, <2>1, IdleIsOK, QuietRunMoves
  <2>2. CASE run' = [run EXCEPT ![r].pc = "phase2", ![r].direct = TRUE,
                                ![r].last = Len(chain),
                                ![r].sigs = run[r].since + 1 .. Len(chain)]
    <3>1. /\ run'[r].pc = "phase2" /\ run'[r].since = run[r].since
          /\ run'[r].last = Len(chain) /\ run'[r].direct
          /\ run'[r].sigs = run[r].since + 1 .. Len(chain)
          /\ DOMAIN run'[r] = Fields
          /\ run' = [q \in Runs |-> run'[q]]
          /\ \A q \in Runs \ {r} : run'[q] = run[q]
      BY <1>1, <2>2 DEF IndexerInv, Fields
    <3>2. Past2(run[r].since) /\ run[r].since \in 0 .. Len(chain)
      BY <1>1, <1>4 DEF ListDirect, RunOK
    <3>3. \A i \in 1 .. Len(chain) :
             HasTransfer(i) => Recorded(i) \/ i \in run'[r].sigs
      BY <1>1, <3>1, <3>2 DEF Past2
    <3>4. \A i : HasTransfer(i)' = HasTransfer(i) /\ Recorded(i)' = Recorded(i)
      BY <1>1 DEF HasTransfer, Recorded
    <3>5. RunOK(r)'
      BY <1>1, <3>1, <3>2, <3>3, <3>4 DEF RunOK, AtWork, InPhase1, InPhase2
    <3>6. QED
      BY <1>1, <3>1, <3>5, QuietRunMoves
  <2>3. QED
    BY <1>4, <2>1, <2>2 DEF ListDirect
<1>5. QED
  BY <1>2, <1>3, <1>4

LEMMA CurrentIsOldest ==
  ASSUME IndexerInv, NEW r \in Runs, run[r].sigs # {}
  PROVE  /\ Current(r) \in run[r].sigs /\ Current(r) \in 1 .. Len(chain)
         /\ \A i \in run[r].sigs : Current(r) <= i
         /\ Later(r) \subseteq run[r].sigs
         /\ \A i \in run[r].sigs : i \in Later(r) \/ i = Current(r)
<1>1. run[r].sigs \subseteq 1 .. Len(chain) /\ Len(chain) \in Nat
  BY DEF IndexerInv, RunOK, ChainOK
<1>2. QED
  BY <1>1, OldestExists DEF Current, Later

\* Phase 1 passes the current transaction, which is recorded by then.
LEMMA PassesInPhase1 ==
  ASSUME IndexerInv, NEW r \in Runs, chain' = chain,
         events \subseteq events', unread \subseteq unread',
         InPhase1(r), run[r].sigs # {}, Current(r) \in events' \union unread',
         DOMAIN run'[r] = Fields, run'[r].pc = "phase1", ~run'[r].direct,
         run'[r].sigs = Later(r), run'[r].since = run[r].since,
         run'[r].last \in {run[r].last, Current(r)}
  PROVE  RunOK(r)'
<1>1. /\ RunOK(r) /\ Len(chain) \in Nat
      /\ \A i : Recorded(i) => Recorded(i)'
  BY DEF IndexerInv, ChainOK, Recorded
<1>2. \A i \in 1 .. Current(r) : chain[i].kind # "direct" => Recorded(i)'
  <2> SUFFICES ASSUME NEW i \in 1 .. Current(r), chain[i].kind # "direct"
               PROVE  Recorded(i)'
    OBVIOUS
  <2>1. CASE i = Current(r)
    BY <2>1 DEF Recorded
  <2>2. CASE i # Current(r)
    <3>1. i \notin run[r].sigs
      BY <2>2, CurrentIsOldest
    <3>2. QED
      BY <1>1, <3>1, CurrentIsOldest DEF RunOK
  <2>3. QED
    BY <2>1, <2>2
<1>3. \A i \in 1 .. run'[r].last : chain[i].kind # "direct" => Recorded(i)'
  <2>1. CASE run'[r].last = Current(r)
    BY <1>2, <2>1
  <2>2. CASE run'[r].last = run[r].last
    <3>1. Past1(run[r].last)
      BY <1>1 DEF RunOK
    <3>2. QED
      BY <1>1, <2>2, <3>1 DEF Past1
  <2>3. QED
    BY <2>1, <2>2
<1>4. \A s \in Later(r) : \A i \in 1 .. s :
         chain[i].kind # "direct" => Recorded(i)' \/ i \in Later(r)
  <2> SUFFICES ASSUME NEW s \in Later(r), NEW i \in 1 .. s,
                      chain[i].kind # "direct", i \notin Later(r)
               PROVE  Recorded(i)'
    OBVIOUS
  <2>1. s \in run[r].sigs
    BY CurrentIsOldest
  <2>2. i \in run[r].sigs => i = Current(r)
    BY CurrentIsOldest
  <2>3. Recorded(i) \/ i \in run[r].sigs
    BY <1>1, <2>1 DEF RunOK
  <2>4. QED
    BY <1>1, <2>2, <2>3 DEF Recorded
<1>5. Later(r) \subseteq 1 .. Len(chain) /\ run'[r].last \in 0 .. Len(chain)
  BY <1>1, CurrentIsOldest DEF RunOK
<1>6. run'[r].since \in 0 .. Len(chain)
  BY <1>1 DEF RunOK
<1>7. QED
  BY <1>1, <1>3, <1>4, <1>5, <1>6 DEF RunOK, AtWork, InPhase1, InPhase2, Past1

\* So does phase 2.
LEMMA PassesInPhase2 ==
  ASSUME IndexerInv, NEW r \in Runs, chain' = chain,
         events \subseteq events', unread \subseteq unread',
         InPhase2(r), run[r].sigs # {},
         HasTransfer(Current(r)) => Current(r) \in events' \union unread',
         DOMAIN run'[r] = Fields, run'[r].pc = "phase2",
         run'[r].sigs = Later(r), run'[r].since = run[r].since,
         run'[r].last = run[r].last, run'[r].direct
  PROVE  RunOK(r)'
<1>1. /\ RunOK(r) /\ Len(chain) \in Nat
      /\ \A i : /\ Recorded(i) => Recorded(i)'
                /\ HasTransfer(i)' = HasTransfer(i)
  BY DEF IndexerInv, ChainOK, Recorded, HasTransfer
<1>2. \A i \in 1 .. run[r].last :
         HasTransfer(i) => Recorded(i)' \/ i \in Later(r)
  BY <1>1, CurrentIsOldest DEF RunOK, Recorded
<1>3. Later(r) \subseteq 1 .. Len(chain)
  BY <1>1, CurrentIsOldest DEF RunOK
<1>4. QED
  BY <1>1, <1>2, <1>3 DEF RunOK, AtWork, InPhase1, InPhase2

\* A step within the work on one transaction: the run stays in its phase.
LEMMA StaysAtWork ==
  ASSUME IndexerInv, NEW r \in Runs, chain' = chain,
         events \subseteq events', unread \subseteq unread',
         run[r].sigs # {}, Current(r) \in events',
         DOMAIN run'[r] = Fields, run'[r].pc \in AtWork,
         run'[r].sigs = run[r].sigs, run'[r].since = run[r].since,
         \/ InPhase1(r) /\ InPhase1(r)' /\ run'[r].last \in {run[r].last, Current(r)}
         \/ InPhase2(r) /\ InPhase2(r)' /\ run'[r].last = run[r].last,
         run'[r].direct = run[r].direct
  PROVE  RunOK(r)'
<1>1. /\ RunOK(r) /\ Len(chain) \in Nat
      /\ \A i : /\ Recorded(i) => Recorded(i)'
                /\ HasTransfer(i)' = HasTransfer(i)
  BY DEF IndexerInv, ChainOK, Recorded, HasTransfer
<1>2. Current(r)' = Current(r)
  BY DEF Current
<1>3. /\ ~(InPhase1(r)' /\ InPhase2(r)')
      /\ InPhase1(r) => ~run[r].direct
      /\ InPhase2(r) => run[r].direct /\ run'[r].pc # "apply"
  BY <1>1 DEF InPhase1, InPhase2, RunOK
<1>4. CASE InPhase1(r) /\ InPhase1(r)' /\ run'[r].last \in {run[r].last, Current(r)}
  <2>1. \A i \in 1 .. Current(r) : chain[i].kind # "direct" => Recorded(i)'
    <3> SUFFICES ASSUME NEW i \in 1 .. Current(r), chain[i].kind # "direct"
                 PROVE  Recorded(i)'
      OBVIOUS
    <3>1. CASE i = Current(r)
      BY <3>1 DEF Recorded
    <3>2. CASE i # Current(r)
      <4>1. i \notin run[r].sigs
        BY <3>2, CurrentIsOldest
      <4>2. QED
        BY <1>1, <1>4, <4>1, CurrentIsOldest DEF RunOK
    <3>3. QED
      BY <3>1, <3>2
  <2>2. \A i \in 1 .. run'[r].last : chain[i].kind # "direct" => Recorded(i)'
    <3>1. CASE run'[r].last = Current(r)
      BY <2>1, <3>1
    <3>2. CASE run'[r].last = run[r].last
      <4>1. Past1(run[r].last)
        BY <1>1, <1>4 DEF RunOK
      <4>2. QED
        BY <1>1, <3>2, <4>1 DEF Past1
    <3>3. QED
      BY <1>4, <3>1, <3>2
  <2>3. run'[r].last \in 0 .. Len(chain)
    BY <1>1, <1>4, CurrentIsOldest DEF RunOK
  <2>4. \A s \in run'[r].sigs : \A i \in 1 .. s :
           chain[i].kind # "direct" => Recorded(i)' \/ i \in run'[r].sigs
    BY <1>1, <1>4 DEF RunOK
  <2>5. ~run'[r].direct /\ ~InPhase2(r)'
    BY <1>3, <1>4
  <2>6. run'[r].pc \in {"apply", "readDonor", "writeDonor"}
    BY <1>4 DEF InPhase1, AtWork
  <2>7. run'[r].sigs \subseteq 1 .. Len(chain) /\ run'[r].since \in 0 .. Len(chain)
    BY <1>1 DEF RunOK
  <2>8. Past1(run[r].last)'
    BY <2>2 DEF Past1
  <2>9. QED
    BY <1>2, <2>3, <2>4, <2>5, <2>6, <2>7, <2>8 DEF RunOK
<1>5. CASE InPhase2(r) /\ InPhase2(r)' /\ run'[r].last = run[r].last
  <2>1. ~InPhase1(r)'
    BY <1>3, <1>5
  <2>2. run'[r].direct /\ run'[r].pc # "apply"
    BY <1>3, <1>5
  <2>3. QED
    BY <1>1, <1>2, <1>5, <2>1, <2>2 DEF RunOK, AtWork
<1>6. QED
  BY <1>4, <1>5

\* What every step of a run leaves as it was.
LEMMA RunFacts ==
  ASSUME IndexerInv, NEW r \in Runs
  PROVE  /\ DOMAIN run[r] = Fields /\ RunOK(r)
         /\ run = [q \in Runs |-> run[q]]
         /\ Len(chain) \in Nat /\ DOMAIN chain = 1 .. Len(chain)
BY DEF IndexerInv, RunOK, ChainOK

LEMMA LoseReadKeeps ==
  ASSUME IndexerInv, NEW r \in Runs, LoseRead(r) PROVE IndexerInv'
<1>1. /\ UNCHANGED <<chain, events, cursor, jarRow>>
      /\ run[r].sigs # {} /\ unread \subseteq unread'
      /\ Current(r) \in unread'
  BY DEF LoseRead
<1>2. /\ run'[r].sigs = Later(r) /\ run'[r].pc = run[r].pc
      /\ run'[r].since = run[r].since /\ run'[r].last = run[r].last
      /\ run'[r].direct = run[r].direct /\ DOMAIN run'[r] = Fields
      /\ run' = [q \in Runs |-> run'[q]]
      /\ \A q \in Runs \ {r} : run'[q] = run[q]
  BY RunFacts DEF LoseRead, Fields
<1>3. RunOK(r)'
  <2>1. CASE run[r].pc = "phase1"
    <3>1. InPhase1(r) /\ ~run[r].direct
      BY <2>1, RunFacts DEF InPhase1, RunOK
    <3>2. QED
      BY <1>1, <1>2, <2>1, <3>1, PassesInPhase1
  <2>2. CASE run[r].pc = "phase2"
    <3>1. InPhase2(r) /\ run[r].direct
      BY <2>2, RunFacts DEF InPhase2, RunOK
    <3>2. QED
      BY <1>1, <1>2, <2>2, <3>1, PassesInPhase2
  <2>3. QED
    BY <2>1, <2>2 DEF LoseRead
<1>4. run'[r].pc # "apply"
  BY <1>2 DEF LoseRead
<1>5. QED
  BY <1>1, <1>2, <1>3, <1>4, QuietRunMoves

\* A run that inserts the creation is the only one to apply it, and there is no
\* row yet.
LEMMA InsertKeeps ==
  ASSUME IndexerInv, NEW r \in Runs, Insert(r) PROVE IndexerInv'
<1>1. /\ UNCHANGED <<chain, cursor, jarRow, unread>>
      /\ run[r].sigs # {} /\ run[r].pc = "phase1"
      /\ events' = events \union {Current(r)}
  BY DEF Insert
<1>2. InPhase1(r) /\ ~run[r].direct
  BY <1>1, RunFacts DEF InPhase1, RunOK
<1>3. CASE IsNewEvent(Current(r))
  <2>1. /\ run'[r].sigs = run[r].sigs /\ run'[r].pc = "apply"
        /\ run'[r].since = run[r].since /\ run'[r].last = Current(r)
        /\ run'[r].direct = run[r].direct /\ DOMAIN run'[r] = Fields
        /\ run' = [q \in Runs |-> run'[q]]
        /\ \A q \in Runs \ {r} : run'[q] = run[q]
    BY <1>3, RunFacts DEF Insert, Fields
  <2>2. RunOK(r)'
    <3>1. InPhase1(r)'
      BY <2>1 DEF InPhase1
    <3>2. QED
      BY <1>1, <1>2, <2>1, <3>1, StaysAtWork DEF AtWork
  <2>3. RowOK' /\ NothingBehindCursors' /\ cursor' \in 0 .. Len(chain)
    <3>1. Has("withdraw")' = Has("withdraw") /\ Has("cancel")' = Has("cancel")
      BY <1>1 DEF Has
    <3>2. QED
      BY <1>1, <3>1 DEF IndexerInv, RowOK, HasAt, NothingBehindCursors,
                        HasTransfer
  <2>4. OneCreator'
    <3>1. Current(r)' = Current(r)
      BY <2>1 DEF Current
    <3>2. \A q \in Runs \ {r} : Creating(q)' => Creating(q)
      BY <1>1, <2>1 DEF Creating, HasAt, Current
    <3>3. ASSUME HasAt("create", Current(r))
          PROVE  jarRow.status = "none" /\ \A q \in Runs \ {r} : ~Creating(q)
      <4>1. \A i \in events : ~HasAt("create", i)
        BY <1>3, <3>3 DEF IndexerInv, ChainOK, IsNewEvent
      <4>2. \A q \in Runs : Creating(q) => Current(q) \in events
        BY RunFacts DEF RunOK, Creating, AtWork
      <4>3. QED
        BY <4>1, <4>2 DEF IndexerInv, RowOK, Creating
    <3>4. Creating(r)' => HasAt("create", Current(r))
      BY <1>1, <3>1 DEF Creating, HasAt
    <3>5. QED
      BY <1>1, <3>2, <3>3, <3>4 DEF IndexerInv, OneCreator
  <2>5. QED
    BY <1>1, <2>1, <2>2, <2>3, <2>4, OneRunMoves
<1>4. CASE ~IsNewEvent(Current(r))
  <2>1. /\ run'[r].sigs = Later(r) /\ run'[r].pc = run[r].pc
        /\ run'[r].since = run[r].since /\ run'[r].last = Current(r)
        /\ run'[r].direct = run[r].direct /\ DOMAIN run'[r] = Fields
        /\ run' = [q \in Runs |-> run'[q]]
        /\ \A q \in Runs \ {r} : run'[q] = run[q]
    BY <1>4, RunFacts DEF Insert, Fields
  <2>2. RunOK(r)'
    BY <1>1, <1>2, <2>1, PassesInPhase1
  <2>3. QED
    BY <1>1, <2>1, <2>2, QuietRunMoves
<1>5. QED
  BY <1>3, <1>4

\* A row that exists was created, and shows an end only when the jar had one.
LEMMA ApplyKeepsTheRow ==
  ASSUME IndexerInv, NEW r \in Runs, Apply(r)
  PROVE  /\ RowOK' /\ jarRow'.lastDirectSig \in {0, jarRow.lastDirectSig}
         /\ ~Creating(r) => (jarRow.status = "none" => jarRow'.status = "none")
         /\ jarRow.status \in {"withdrawn", "cancelled"} =>
              jarRow'.status = jarRow.status
<1> DEFINE tx == chain[Current(r)]
<1>1. /\ UNCHANGED <<chain, events, cursor, unread>> /\ run[r].pc = "apply"
  BY DEF Apply
<1>2. /\ run[r].sigs # {} /\ Current(r) \in events
  BY <1>1, RunFacts DEF RunOK, AtWork
<1>3. Current(r) \in 1 .. Len(chain)
  BY <1>2, CurrentIsOldest
<1>4. RowOK /\ OneCreator /\ ChainOK
  BY DEF IndexerInv
<1>5. \A kind : tx.kind = kind => Has(kind) /\ HasAt(kind, Current(r))
  BY <1>3, RunFacts DEF Has, HasAt
<1>6. Creating(r) <=> tx.kind = "create"
  BY <1>1, <1>3 DEF Creating, HasAt
<1>7. DOMAIN jarRow = {"status", "total", "contributors", "lastDirectSig"}
  BY <1>4 DEF RowOK, NoJarRow
<1>8. \/ jarRow' = jarRow
      \/ tx.kind = "create" /\ jarRow' = UpsertJar(jarRow)
      \/ tx.kind = "contribute" /\ jarRow' = ApplyContributeDelta(jarRow, tx)
      \/ tx.kind = "withdraw" /\ jarRow' = MarkJarStatus(jarRow, "withdrawn")
      \/ tx.kind = "cancel" /\ jarRow' = MarkJarStatus(jarRow, "cancelled")
  BY DEF Apply
<1>9. \/ jarRow' = jarRow
      \/ /\ tx.kind = "create" /\ jarRow'.status = "active"
         /\ jarRow'.lastDirectSig \in {0, jarRow.lastDirectSig}
         /\ DOMAIN jarRow' = DOMAIN NoJarRow
      \/ /\ jarRow'.lastDirectSig = jarRow.lastDirectSig
         /\ DOMAIN jarRow' = DOMAIN NoJarRow
         /\ jarRow.status # "none"
         /\ \/ jarRow'.status = jarRow.status
            \/ tx.kind = "withdraw" /\ jarRow'.status = "withdrawn"
            \/ tx.kind = "cancel" /\ jarRow'.status = "cancelled"
  <2>1. CASE tx.kind = "create" /\ jarRow' = UpsertJar(jarRow)
    BY <2>1 DEF UpsertJar, NoJarRow
  <2>2. CASE tx.kind = "contribute" /\ jarRow' = ApplyContributeDelta(jarRow, tx)
    BY <1>7, <2>2 DEF ApplyContributeDelta, UpdateJar, NoJarRow
  <2>3. CASE tx.kind = "withdraw" /\ jarRow' = MarkJarStatus(jarRow, "withdrawn")
    BY <1>7, <2>3 DEF MarkJarStatus, UpdateJar, NoJarRow
  <2>4. CASE tx.kind = "cancel" /\ jarRow' = MarkJarStatus(jarRow, "cancelled")
    BY <1>7, <2>4 DEF MarkJarStatus, UpdateJar, NoJarRow
  <2>5. QED
    BY <1>8, <2>1, <2>2, <2>3, <2>4
<1>10. \A kind, i : HasAt(kind, i)' = HasAt(kind, i) /\ Has(kind)' = Has(kind)
  BY <1>1 DEF HasAt, Has
<1>11. jarRow'.status # "none" => \E i \in events : HasAt("create", i)
  BY <1>2, <1>4, <1>5, <1>9 DEF RowOK
<1>12. /\ jarRow'.status = "withdrawn" => Has("withdraw")
       /\ jarRow'.status = "cancelled" => Has("cancel")
  BY <1>4, <1>5, <1>9 DEF RowOK
<1>13. jarRow'.lastDirectSig \in 0 .. Len(chain)
  BY <1>4, <1>9, RunFacts DEF RowOK
<1>14. RowOK'
  BY <1>1, <1>4, <1>9, <1>10, <1>11, <1>12, <1>13 DEF RowOK
<1>15. jarRow.status \in {"withdrawn", "cancelled"} => jarRow'.status = jarRow.status
  BY <1>4, <1>5, <1>6, <1>9 DEF RowOK, OneCreator, ChainOK
<1>16. QED
  BY <1>6, <1>9, <1>14, <1>15

LEMMA ApplyKeeps ==
  ASSUME IndexerInv, NEW r \in Runs, Apply(r) PROVE IndexerInv'
<1>1. /\ UNCHANGED <<chain, events, cursor, unread>> /\ run[r].pc = "apply"
  BY DEF Apply
<1>2. /\ run[r].sigs # {} /\ Current(r) \in events /\ ~run[r].direct
      /\ InPhase1(r)
  BY <1>1, RunFacts DEF RunOK, AtWork, InPhase1
<1>3. /\ run'[r].since = run[r].since /\ run'[r].last = run[r].last
      /\ run'[r].direct = run[r].direct /\ DOMAIN run'[r] = Fields
      /\ run' = [q \in Runs |-> run'[q]]
      /\ \A q \in Runs \ {r} : run'[q] = run[q]
      /\ \/ run'[r].pc = "readDonor" /\ run'[r].sigs = run[r].sigs
         \/ run'[r].pc = "phase1" /\ run'[r].sigs = Later(r)
  BY RunFacts DEF Apply, Fields
<1>4. RunOK(r)'
  <2>1. CASE run'[r].pc = "readDonor" /\ run'[r].sigs = run[r].sigs
    <3>1. InPhase1(r)'
      BY <1>2, <1>3, <2>1 DEF InPhase1
    <3>2. QED
      BY <1>1, <1>2, <1>3, <2>1, <3>1, StaysAtWork DEF AtWork
  <2>2. CASE run'[r].pc = "phase1" /\ run'[r].sigs = Later(r)
    BY <1>1, <1>2, <1>3, <2>2, PassesInPhase1
  <2>3. QED
    BY <1>3, <2>1, <2>2
<1>5. OneCreator'
  <2>1. ~Creating(r)'
    BY <1>3 DEF Creating
  <2>2. \A q \in Runs : Creating(q)' => Creating(q) /\ q # r
    BY <1>1, <1>3, <2>1 DEF Creating, HasAt, Current
  <2>3. QED
    BY <2>2, ApplyKeepsTheRow DEF IndexerInv, OneCreator
<1>6. cursor' \in 0 .. Len(chain) /\ NothingBehindCursors'
  BY <1>1, RunFacts, ApplyKeepsTheRow
  DEF IndexerInv, NothingBehindCursors, HasTransfer
<1>7. QED
  BY <1>1, <1>3, <1>4, <1>5, <1>6, ApplyKeepsTheRow, OneRunMoves

\* The two steps of applyContribution.
LEMMA DonorStepsKeep ==
  ASSUME IndexerInv, NEW r \in Runs, ReadDonor(r) \/ WriteDonor(r)
  PROVE  IndexerInv'
<1>1. /\ UNCHANGED <<chain, events, cursor, jarRow, unread>>
      /\ run[r].pc \in {"readDonor", "writeDonor"}
  BY DEF ReadDonor, WriteDonor
<1>2. /\ run[r].sigs # {} /\ Current(r) \in events
      /\ InPhase1(r) \/ InPhase2(r)
  BY <1>1, RunFacts DEF RunOK, AtWork, InPhase1, InPhase2
<1>3. \/ Finish(r)
      \/ /\ run'[r].since = run[r].since /\ run'[r].last = run[r].last
         /\ run'[r].direct = run[r].direct /\ DOMAIN run'[r] = Fields
         /\ run' = [q \in Runs |-> run'[q]]
         /\ \A q \in Runs \ {r} : run'[q] = run[q]
         /\ \/ run'[r].pc = "writeDonor" /\ run'[r].sigs = run[r].sigs
            \/ /\ run'[r].pc = "readTotal" /\ run'[r].sigs = run[r].sigs
               /\ run[r].direct
            \/ /\ run'[r].pc = "phase1" /\ run'[r].sigs = Later(r)
               /\ ~run[r].direct
  <2>1. CASE ReadDonor(r)
    BY <2>1, RunFacts DEF ReadDonor, Fields
  <2>2. CASE WriteDonor(r) /\ ~Finish(r)
    <3>1. CASE run[r].direct /\ Goto(r, "readTotal")
      BY <3>1, RunFacts DEF Goto, Fields
    <3>2. CASE /\ ~run[r].direct
               /\ run' = [run EXCEPT ![r].pc = "phase1", ![r].sigs = Later(r)]
      BY <3>2, RunFacts DEF Fields
    <3>3. QED
      BY <2>2, <3>1, <3>2 DEF WriteDonor
  <2>3. QED
    BY <2>1, <2>2
<1>4. CASE Finish(r)
  BY <1>1, <1>4, IdleIsOK, QuietRunMoves
<1>5. CASE ~Finish(r) /\ run'[r].pc = "phase1"
  <2>1. run'[r].sigs = Later(r) /\ ~run[r].direct /\ ~run'[r].direct
    BY <1>3, <1>5
  <2>2. InPhase1(r)
    BY <1>1, <2>1 DEF InPhase1
  <2>3. RunOK(r)'
    BY <1>1, <1>2, <1>3, <1>5, <2>1, <2>2, PassesInPhase1
  <2>4. QED
    BY <1>1, <1>3, <1>5, <2>3, QuietRunMoves
<1>6. CASE ~Finish(r) /\ run'[r].pc # "phase1"
  <2>1. run'[r].sigs = run[r].sigs /\ run'[r].pc \in AtWork
    BY <1>3, <1>6 DEF AtWork
  <2>2. (InPhase1(r) /\ InPhase1(r)') \/ (InPhase2(r) /\ InPhase2(r)')
    BY <1>1, <1>3, <1>6 DEF InPhase1, InPhase2
  <2>3. RunOK(r)'
    BY <1>1, <1>2, <1>3, <1>6, <2>1, <2>2, StaysAtWork
  <2>4. run'[r].pc # "apply"
    BY <1>3, <1>6
  <2>5. QED
    BY <1>1, <1>3, <1>6, <2>3, <2>4, QuietRunMoves
<1>7. QED
  BY <1>4, <1>5, <1>6

LEMMA InsertDirectKeeps ==
  ASSUME IndexerInv, NEW r \in Runs, InsertDirect(r) PROVE IndexerInv'
<1>1. /\ UNCHANGED <<chain, cursor, jarRow, unread>>
      /\ run[r].sigs # {} /\ run[r].pc = "phase2"
      /\ HasTransfer(Current(r)) => Current(r) \in events'
      /\ events \subseteq events'
  BY DEF InsertDirect
<1>2. InPhase2(r) /\ run[r].direct
  BY <1>1, RunFacts DEF InPhase2, RunOK
<1>3. CASE HasTransfer(Current(r)) /\ IsNewEvent(Current(r))
  <2>1. /\ run'[r].sigs = run[r].sigs /\ run'[r].pc = "readDonor"
        /\ run'[r].since = run[r].since /\ run'[r].last = run[r].last
        /\ run'[r].direct = run[r].direct /\ DOMAIN run'[r] = Fields
        /\ run' = [q \in Runs |-> run'[q]]
        /\ \A q \in Runs \ {r} : run'[q] = run[q]
    BY <1>3, RunFacts DEF InsertDirect, Goto, Fields
  <2>2. InPhase2(r)'
    BY <1>2, <2>1 DEF InPhase2
  <2>3. RunOK(r)'
    BY <1>1, <1>2, <1>3, <2>1, <2>2, StaysAtWork DEF AtWork
  <2>4. QED
    BY <1>1, <2>1, <2>3, QuietRunMoves
<1>4. CASE ~(HasTransfer(Current(r)) /\ IsNewEvent(Current(r)))
  <2>1. /\ run'[r].sigs = Later(r) /\ run'[r].pc = run[r].pc
        /\ run'[r].since = run[r].since /\ run'[r].last = run[r].last
        /\ run'[r].direct = run[r].direct /\ DOMAIN run'[r] = Fields
        /\ run' = [q \in Runs |-> run'[q]]
        /\ \A q \in Runs \ {r} : run'[q] = run[q]
    BY <1>4, RunFacts DEF InsertDirect, Fields
  <2>2. RunOK(r)'
    BY <1>1, <1>2, <2>1, PassesInPhase2
  <2>3. QED
    BY <1>1, <2>1, <2>2, QuietRunMoves
<1>5. QED
  BY <1>3, <1>4

\* A step that keeps the status and the phase 2 cursor of the row, with no run
\* about to apply a creation that was not.
LEMMA RowKept ==
  ASSUME IndexerInv, UNCHANGED <<chain, events, unread>>,
         DOMAIN jarRow' = DOMAIN jarRow, jarRow'.status = jarRow.status,
         \/ jarRow'.lastDirectSig = jarRow.lastDirectSig
         \/ jarRow'.lastDirectSig \in 0 .. Len(chain) /\ Past2(jarRow'.lastDirectSig),
         cursor' = cursor \/ (cursor' \in 0 .. Len(chain) /\ Past1(cursor')),
         \A q \in Runs : Creating(q)' => Creating(q)
  PROVE  /\ RowOK' /\ cursor' \in 0 .. Len(chain) /\ NothingBehindCursors'
         /\ OneCreator'
<1>1. Has("withdraw")' = Has("withdraw") /\ Has("cancel")' = Has("cancel")
  BY DEF Has
<1>2. RowOK'
  BY <1>1 DEF IndexerInv, RowOK, HasAt
<1>3. \A i : HasTransfer(i)' = HasTransfer(i)
  BY DEF HasTransfer
<1>4. \A i \in 1 .. cursor' :
         chain[i].kind # "direct" => i \in events \union unread
  BY DEF IndexerInv, NothingBehindCursors, Past1, Recorded
<1>5. \A i \in 1 .. jarRow'.lastDirectSig :
         HasTransfer(i) => i \in events \union unread
  BY DEF IndexerInv, NothingBehindCursors, Past2, Recorded
<1>6. cursor' \in 0 .. Len(chain) /\ NothingBehindCursors'
  BY <1>3, <1>4, <1>5 DEF IndexerInv, NothingBehindCursors
<1>7. OneCreator'
  BY DEF IndexerInv, OneCreator
<1>8. QED
  BY <1>2, <1>6, <1>7

\* The two steps of incrementJarTotal.
LEMMA TotalStepsKeep ==
  ASSUME IndexerInv, NEW r \in Runs, ReadTotal(r) \/ WriteTotal(r)
  PROVE  IndexerInv'
<1>1. /\ UNCHANGED <<chain, events, cursor, unread>>
      /\ run[r].pc \in {"readTotal", "writeTotal"}
  BY DEF ReadTotal, WriteTotal
<1>2. /\ run[r].sigs # {} /\ Current(r) \in events
      /\ InPhase2(r) /\ run[r].direct
  BY <1>1, RunFacts DEF RunOK, AtWork, InPhase2
<1>3. CASE ReadTotal(r)
  <2>1. /\ run'[r].sigs = run[r].sigs /\ run'[r].pc = "writeTotal"
        /\ run'[r].since = run[r].since /\ run'[r].last = run[r].last
        /\ run'[r].direct = run[r].direct /\ DOMAIN run'[r] = Fields
        /\ run' = [q \in Runs |-> run'[q]]
        /\ \A q \in Runs \ {r} : run'[q] = run[q]
        /\ jarRow' = jarRow
    BY <1>3, RunFacts DEF ReadTotal, Fields
  <2>2. InPhase2(r)'
    BY <2>1 DEF InPhase2
  <2>3. RunOK(r)'
    BY <1>1, <1>2, <2>1, <2>2, StaysAtWork DEF AtWork
  <2>4. QED
    BY <1>1, <2>1, <2>3, QuietRunMoves
<1>4. CASE WriteTotal(r)
  <2>1. /\ run'[r].sigs = Later(r) /\ run'[r].pc = "phase2"
        /\ run'[r].since = run[r].since /\ run'[r].last = run[r].last
        /\ run'[r].direct = run[r].direct /\ DOMAIN run'[r] = Fields
        /\ run' = [q \in Runs |-> run'[q]]
        /\ \A q \in Runs \ {r} : run'[q] = run[q]
    BY <1>4, RunFacts DEF WriteTotal, Fields
  <2>2. RunOK(r)'
    BY <1>1, <1>2, <2>1, PassesInPhase2
  <2>3. /\ DOMAIN jarRow' = DOMAIN jarRow /\ jarRow'.status = jarRow.status
        /\ jarRow'.lastDirectSig = jarRow.lastDirectSig
    BY <1>4 DEF WriteTotal, IndexerInv, RowOK, NoJarRow
  <2>4. \A q \in Runs : Creating(q)' => Creating(q)
    BY <1>1, <2>1 DEF Creating, HasAt, Current
  <2>5. RowOK' /\ cursor' \in 0 .. Len(chain) /\ NothingBehindCursors' /\ OneCreator'
    BY <1>1, <2>3, <2>4, RowKept
  <2>6. QED
    BY <1>1, <2>1, <2>2, <2>5, OneRunMoves
<1>5. QED
  BY <1>3, <1>4

\* A cursor is saved when the list it was taken from is done.
LEMMA SavesKeep ==
  ASSUME IndexerInv, NEW r \in Runs, SaveCursor(r) \/ SaveDirectSig(r)
  PROVE  IndexerInv'
<1>1. UNCHANGED <<chain, events, unread>> /\ run[r].sigs = {}
  BY DEF SaveCursor, SaveDirectSig
<1>2. CASE SaveCursor(r)
  <2>1. /\ run'[r].sigs = {} /\ run'[r].pc = "select"
        /\ run'[r].since = run[r].since /\ run'[r].last = run[r].last
        /\ run'[r].direct = run[r].direct /\ DOMAIN run'[r] = Fields
        /\ run' = [q \in Runs |-> run'[q]]
        /\ \A q \in Runs \ {r} : run'[q] = run[q]
        /\ jarRow' = jarRow
    BY <1>1, <1>2, RunFacts DEF SaveCursor, Goto, Fields
  <2>2. RunOK(r)'
    BY <1>1, <2>1, RunFacts DEF RunOK, AtWork, InPhase1, InPhase2
  <2>3. cursor' = cursor \/ (cursor' \in 0 .. Len(chain) /\ Past1(cursor'))
    <3>1. InPhase1(r)
      BY <1>2 DEF SaveCursor, InPhase1
    <3>2. Past1(run[r].last) /\ run[r].last \in 0 .. Len(chain)
      BY <3>1, RunFacts DEF RunOK
    <3>3. cursor' \in {cursor, run[r].last}
      BY <1>2 DEF SaveCursor, NextCursor
    <3>4. QED
      BY <3>2, <3>3
  <2>4. \A q \in Runs : Creating(q)' => Creating(q)
    BY <1>1, <2>1 DEF Creating, HasAt, Current
  <2>5. RowOK' /\ cursor' \in 0 .. Len(chain) /\ NothingBehindCursors' /\ OneCreator'
    BY <1>1, <2>1, <2>3, <2>4, RowKept
  <2>6. QED
    BY <1>1, <2>1, <2>2, <2>5, OneRunMoves
<1>3. CASE SaveDirectSig(r)
  <2>1. Finish(r) /\ cursor' = cursor
    BY <1>3 DEF SaveDirectSig
  <2>2. Past2(run[r].last) /\ run[r].last \in 0 .. Len(chain)
    <3>1. InPhase2(r)
      BY <1>3 DEF SaveDirectSig, InPhase2
    <3>2. QED
      BY <1>1, <3>1, RunFacts DEF RunOK, Past2
  <2>3. /\ DOMAIN jarRow' = DOMAIN jarRow /\ jarRow'.status = jarRow.status
        /\ jarRow'.lastDirectSig \in {jarRow.lastDirectSig, run[r].last}
    BY <1>3 DEF SaveDirectSig, UpdateJar, NextDirectSig, IndexerInv, RowOK, NoJarRow
  <2>4. \A q \in Runs : Creating(q)' => Creating(q)
    BY <1>1, <2>1, IdleIsOK DEF Creating, HasAt, Current
  <2>5. RowOK' /\ cursor' \in 0 .. Len(chain) /\ NothingBehindCursors' /\ OneCreator'
    BY <1>1, <2>1, <2>2, <2>3, <2>4, RowKept
  <2>6. QED
    BY <1>1, <2>1, <2>5, IdleIsOK, OneRunMoves
<1>4. QED
  BY <1>2, <1>3

LEMMA IndexerInvStep == IndexerInv /\ [Next]_vars => IndexerInv'
<1> SUFFICES ASSUME IndexerInv, [Next]_vars PROVE IndexerInv'
  OBVIOUS
<1>1. CASE ChainNext
  BY <1>1, ChainMoves
<1>2. ASSUME NEW r \in Runs, Begin(r) \/ Proceed(r) \/ LoseRead(r) \/ Crash(r)
      PROVE  IndexerInv'
  BY <1>2, BeginAndEnd, ListsAreComplete, LoseReadKeeps, InsertKeeps, ApplyKeeps,
     DonorStepsKeep, InsertDirectKeeps, TotalStepsKeep, SavesKeep DEF Proceed
<1>3. ASSUME UNCHANGED <<chain, events, cursor, jarRow, run, unread>> PROVE IndexerInv'
  <2>1. \A r \in Runs : RunOK(r)' = RunOK(r)
    BY <1>3 DEF RunOK, Current, InPhase1, InPhase2, Past1, Past2, Recorded,
                HasTransfer
  <2>2. \A q \in Runs : Creating(q)' => Creating(q)
    BY <1>3 DEF Creating, HasAt, Current
  <2>3. RowOK' /\ cursor' \in 0 .. Len(chain) /\ NothingBehindCursors' /\ OneCreator'
    BY <1>3, <2>2, RowKept
  <2>4. ChainOK' <=> ChainOK
    BY <1>3 DEF ChainOK, HasAt, Has
  <2>5. QED
    BY <1>3, <2>1, <2>3, <2>4 DEF IndexerInv
<1>4. QED
  BY <1>1, <1>2, <1>3 DEF Next, vars, RecordDonorName

\* Whatever is behind the cursors was recorded, or could not be read by some run,
\* on every chain and with any number of runs that overlap and die.
THEOREM CursorsTrailTheWork == Spec => []NothingBehindCursors
<1>1. IndexerInv => NothingBehindCursors
  BY DEF IndexerInv
<1>2. QED
  BY <1>1, IndexerInvInit, IndexerInvStep, PTL DEF Spec

\* No replay of the creation, by whichever run, brings an ended jar back.
THEOREM EndsAreKept == Spec => StatusNeverReopens
<1> DEFINE Keeps == jarRow.status \in {"withdrawn", "cancelled"} =>
                      jarRow'.status = jarRow.status
<1>1. IndexerInv /\ [Next]_vars => [Keeps]_vars
  <2> SUFFICES ASSUME IndexerInv, [Next]_vars PROVE Keeps
    OBVIOUS
  <2>1. ASSUME NEW r \in Runs, Apply(r) PROVE Keeps
    BY <2>1, ApplyKeepsTheRow
  <2>2. ASSUME NEW r \in Runs, WriteTotal(r) \/ SaveDirectSig(r) PROVE Keeps
    BY <2>2 DEF WriteTotal, SaveDirectSig, UpdateJar, IndexerInv, RowOK, NoJarRow
  <2>3. ASSUME NEW r \in Runs, Proceed(r), ~Apply(r), ~WriteTotal(r), ~SaveDirectSig(r)
        PROVE  Keeps
    BY <2>3 DEF Proceed, ListProgram, Insert, ReadDonor, WriteDonor, SaveCursor,
                SelectActive, ListDirect, InsertDirect, ReadTotal
  <2>4. ASSUME NEW r \in Runs, Begin(r) \/ LoseRead(r) \/ Crash(r) PROVE Keeps
    BY <2>4 DEF Begin, LoseRead, Crash
  <2>5. CASE ChainNext
    BY <2>5 DEF ChainNext, ChainCreate, ChainCancel, ChainWithdraw, ChainContribute,
                ChainDirect, ChainRefund, Append1, Land
  <2>6. CASE UNCHANGED jarRow
    BY <2>6
  <2>7. QED
    BY <2>1, <2>2, <2>3, <2>4, <2>5, <2>6 DEF Next, vars, RecordDonorName
<1>2. QED
  BY <1>1, IndexerInvInit, IndexerInvStep, PTL DEF Spec, StatusNeverReopens

---------------------------------------------------------------------------
(* The amounts of the donors.  An event is brought to its donor's row by   *)
(* the run that inserted it, or, when that run dies, never.                *)

\* A run that has inserted an event and not yet brought it to its donor's row.
Pending(r) == run[r].pc \in {"apply", "readDonor", "writeDonor"}

Gifts == {"contribute", "direct"}

\* The events that were brought there, or never will be.
Settled == {i \in events : \A r \in Runs : Pending(r) => Current(r) # i}

Booked(d) == Worth(GiftsOf(d, Gifts) \intersect Settled)

DonorRows == [exists : BOOLEAN, amount : Nat, refunded : BOOLEAN]

ChainTyped ==
    \A i \in 1 .. Len(chain) :
        /\ AmountOf(i) \in Nat
        /\ chain[i].kind \in Gifts \union {"refund"} => DonorOf(i) \in Donors

DonorRowsOK ==
    /\ donorRow \in [Donors -> DonorRows]
    /\ \A d \in Donors \ Relayed : donorRow[d].amount <= Booked(d)

\* No event is pending in two runs, and what a run has read of a donor's row
\* does not count the event it is about to add.
OnePending ==
    \A r, q \in Runs : Pending(r) /\ Pending(q) /\ Current(r) = Current(q) => r = q

ReadOK(r) ==
    /\ run[r].pc \in {"readDonor", "writeDonor"} =>
          chain[Current(r)].kind \in Gifts
    /\ run[r].seen \in Nat
    /\ run[r].pc = "writeDonor" /\ DonorOf(Current(r)) \notin Relayed =>
          run[r].seen <= Booked(DonorOf(Current(r)))

DonorInv ==
    /\ ChainTyped
    /\ DonorRowsOK
    /\ OnePending
    /\ \A r \in Runs : ReadOK(r)

LEMMA WorthFacts ==
  ASSUME ChainTyped, Len(chain) \in Nat, NEW T \in SUBSET (1 .. Len(chain))
  PROVE  /\ Worth(T) \in Nat
         /\ \A S \in SUBSET T : Worth(S) \in Nat /\ Worth(S) <= Worth(T)
         /\ \A k \in T : Worth(T) = Worth(T \ {k}) + AmountOf(k)
<1>1. IsFiniteSet(1 .. Len(chain))
  BY FS_Interval
<1>2. \A S \in SUBSET (1 .. Len(chain)) :
         IsFiniteSet(S) /\ [i \in S |-> AmountOf(i)] \in [S -> Nat]
  BY <1>1, FS_Subset DEF ChainTyped
<1>3. \A S \in SUBSET (1 .. Len(chain)) : Worth(S) \in Nat
  BY <1>2, SumNat DEF Worth
<1>4. ASSUME NEW S \in SUBSET T PROVE Worth(S) <= Worth(T)
  <2> DEFINE f == [i \in T |-> AmountOf(i)]
             g == [i \in S |-> AmountOf(i)]
  <2>1. f \in [T -> Nat] /\ IsFiniteSet(T) /\ g \in [S -> Nat]
    BY <1>2
  <2>2. \A k \in S : g[k] = f[k]
    OBVIOUS
  <2>3. Worth(S) = SumOf(g) /\ Worth(T) = SumOf(f)
    BY DEF Worth
  <2> HIDE DEF f, g
  <2>4. QED
    BY <2>1, <2>2, <2>3, SumGrows
<1>5. ASSUME NEW k \in T PROVE Worth(T) = Worth(T \ {k}) + AmountOf(k)
  <2> DEFINE f == [i \in T |-> AmountOf(i)]
  <2>1. f \in [T -> Nat] /\ IsFiniteSet(T)
    BY <1>2
  <2>2. SumOf(f) = SumOf([i \in T \ {k} |-> f[i]]) + f[k]
    <3> HIDE DEF f
    <3>1. QED
      BY <2>1, SumGains
  <2>3. [i \in T \ {k} |-> f[i]] = [i \in T \ {k} |-> AmountOf(i)]
    OBVIOUS
  <2>4. f[k] = AmountOf(k)
    OBVIOUS
  <2>5. SumOf(f) = Worth(T)
    BY DEF Worth
  <2>6. SumOf([i \in T \ {k} |-> f[i]]) = Worth(T \ {k})
    BY <2>3 DEF Worth
  <2> HIDE DEF f
  <2>7. QED
    BY <2>2, <2>4, <2>5, <2>6
<1>6. QED
  BY <1>3, <1>4, <1>5

\* What is booked for a donor is part of what the donor gave.
LEMMA BookedFacts ==
  ASSUME IndexerInv, ChainTyped, NEW d
  PROVE  /\ GiftsOf(d, Gifts) \subseteq 1 .. Len(chain)
         /\ Booked(d) \in Nat /\ Given(d, Gifts) \in Nat
         /\ Booked(d) <= Given(d, Gifts)
<1>1. Len(chain) \in Nat /\ DOMAIN chain = 1 .. Len(chain)
  BY DEF IndexerInv, ChainOK
<1>2. GiftsOf(d, Gifts) \in SUBSET (1 .. Len(chain))
  BY <1>1 DEF GiftsOf
<1>3. GiftsOf(d, Gifts) \intersect Settled \in SUBSET GiftsOf(d, Gifts)
  OBVIOUS
<1>4. QED
  BY <1>1, <1>2, <1>3, WorthFacts DEF Booked, Given

\* Nothing that was settled becomes pending again, and the chain only grows:
\* what is booked only grows.
LEMMA SettledGrows ==
  ASSUME events \subseteq events',
         \A q \in Runs : Pending(q)' =>
            \/ Pending(q) /\ Current(q)' = Current(q)
            \/ Current(q)' \notin events
  PROVE  Settled \subseteq Settled'
BY DEF Settled

LEMMA BookedGrows ==
  ASSUME IndexerInv, IndexerInv', ChainTyped', Settled \subseteq Settled',
         Len(chain) <= Len(chain'),
         \A i \in 1 .. Len(chain) : chain'[i] = chain[i],
         NEW d
  PROVE  Booked(d) <= Booked(d)' /\ Booked(d) \in Nat /\ Booked(d)' \in Nat
<1> DEFINE S == GiftsOf(d, Gifts) \intersect Settled
           T == GiftsOf(d, Gifts)' \intersect Settled'
           f == [i \in T |-> AmountOf(i)']
           g == [i \in S |-> AmountOf(i)]
<1>1. /\ Len(chain) \in Nat /\ DOMAIN chain = 1 .. Len(chain)
      /\ Len(chain') \in Nat /\ DOMAIN chain' = 1 .. Len(chain')
  BY DEF IndexerInv, ChainOK
<1>2. S \subseteq T /\ S \subseteq 1 .. Len(chain) /\ T \subseteq 1 .. Len(chain')
  BY <1>1 DEF GiftsOf
<1>3. IsFiniteSet(T)
  <2>1. IsFiniteSet(1 .. Len(chain'))
    BY <1>1, FS_Interval
  <2>2. QED
    BY <1>2, <2>1, FS_Subset
<1>4. f \in [T -> Nat]
  BY <1>2 DEF ChainTyped
<1>5. \A i \in S : g[i] = f[i]
  BY <1>2 DEF AmountOf
<1>6. g \in [S -> Nat]
  <2>1. \A i \in S : AmountOf(i) \in Nat
    BY <1>2, <1>4, <1>5
  <2>2. QED
    BY <2>1
<1>7. SumOf(g) <= SumOf(f)
  BY <1>2, <1>3, <1>4, <1>5, <1>6, SumGrows
<1>8. SumOf(f) \in Nat /\ SumOf(g) \in Nat
  <2>1. IsFiniteSet(S)
    BY <1>2, <1>3, FS_Subset
  <2>2. QED
    BY <1>3, <1>4, <1>6, <2>1, SumNat
<1>9. QED
  BY <1>7, <1>8 DEF Booked, Worth

\* One run moves; what the others have pending stays, and what it has pending is
\* what it had, or new.
LEMMA DonorRunMoves ==
  ASSUME IndexerInv, IndexerInv', DonorInv, NEW r \in Runs,
         chain' = chain, events \subseteq events',
         \A q \in Runs \ {r} : run'[q] = run[q],
         Pending(r)' => \/ Pending(r) /\ Current(r)' = Current(r)
                        \/ Current(r)' \notin events,
         ReadOK(r)',
         donorRow' \in [Donors -> DonorRows],
         \A d \in Donors \ Relayed :
            \/ donorRow'[d].amount = donorRow[d].amount
            \/ donorRow'[d].amount <= Booked(d)'
  PROVE  DonorInv'
<1>1. \A q \in Runs \ {r} : Pending(q)' = Pending(q) /\ Current(q)' = Current(q)
  BY DEF Pending, Current
<1>2. Settled \subseteq Settled'
  BY <1>1, SettledGrows
<1>3. ChainTyped' /\ ChainTyped
  BY DEF ChainTyped, DonorInv, AmountOf, DonorOf
<1>4. \A d : Booked(d) \in Nat /\ Booked(d)' \in Nat /\ Booked(d) <= Booked(d)'
  <2>1. Len(chain) <= Len(chain')
    BY DEF IndexerInv, ChainOK
  <2>2. QED
    BY <1>2, <1>3, <2>1, BookedGrows
<1>5. DonorRowsOK'
  <2>1. ASSUME NEW d \in Donors \ Relayed PROVE donorRow'[d].amount <= Booked(d)'
    <3>1. donorRow[d].amount <= Booked(d) /\ donorRow[d].amount \in Nat
      BY DEF DonorInv, DonorRowsOK, DonorRows
    <3>2. QED
      BY <1>4, <3>1
  <2>2. QED
    BY <2>1 DEF DonorRowsOK, DonorRows
<1>6. OnePending'
  <2>1. \A q \in Runs : Pending(q) => Current(q) \in events
    BY RunFacts DEF RunOK, Pending, AtWork
  <2>2. \A q \in Runs \ {r} : Pending(q)' /\ Pending(r)' => Current(q)' # Current(r)'
    BY <1>1, <2>1 DEF DonorInv, OnePending
  <2>3. QED
    BY <1>1, <2>2 DEF DonorInv, OnePending
<1>7. ASSUME NEW q \in Runs PROVE ReadOK(q)'
  <2>1. CASE q = r
    BY <2>1
  <2>2. CASE q # r
    <3>1. run'[q] = run[q] /\ Current(q)' = Current(q) /\ ReadOK(q)
      BY <1>1, <2>2 DEF DonorInv
    <3>2. \A d : run[q].seen <= Booked(d) /\ run[q].seen \in Nat
                   => run[q].seen <= Booked(d)'
      BY <1>4
    <3>3. QED
      BY <3>1, <3>2 DEF ReadOK, AmountOf, DonorOf
  <2>3. QED
    BY <2>1, <2>2
<1>8. QED
  BY <1>3, <1>5, <1>6, <1>7 DEF DonorInv

\* A step after which the run has nothing pending, and that touches no row.
LEMMA DonorQuietMoves ==
  ASSUME IndexerInv, IndexerInv', DonorInv, NEW r \in Runs,
         UNCHANGED <<chain, donorRow>>, events \subseteq events',
         \A q \in Runs \ {r} : run'[q] = run[q],
         run'[r].pc \notin {"apply", "readDonor", "writeDonor"},
         run'[r].seen \in {0, run[r].seen}
  PROVE  DonorInv'
<1>1. ~Pending(r)'
  BY DEF Pending
<1>2. run'[r].seen \in Nat
  BY DEF DonorInv, ReadOK
<1>3. ReadOK(r)'
  BY <1>2 DEF ReadOK
<1>4. donorRow' \in [Donors -> DonorRows]
  BY DEF DonorInv, DonorRowsOK
<1>5. QED
  BY <1>1, <1>3, <1>4, DonorRunMoves

LEMMA QuietStepsKeepDonors ==
  ASSUME IndexerInv, IndexerInv', DonorInv, NEW r \in Runs,
         \/ Begin(r) \/ Crash(r) \/ ListProgram(r) \/ LoseRead(r)
         \/ SaveCursor(r) \/ SelectActive(r) \/ ListDirect(r)
         \/ ReadTotal(r) \/ WriteTotal(r) \/ SaveDirectSig(r)
  PROVE  DonorInv'
<1>1. DOMAIN run[r] = Fields /\ run = [q \in Runs |-> run[q]]
  BY RunFacts
<1>2. UNCHANGED <<chain, donorRow, events>>
  BY DEF Begin, Crash, ListProgram, LoseRead, SaveCursor, SelectActive, ListDirect,
         ReadTotal, WriteTotal, SaveDirectSig
<1>3. CASE Finish(r)
  <2>1. \A q \in Runs \ {r} : run'[q] = run[q]
    BY <1>1, <1>3 DEF Finish
  <2>2. run'[r] = IdleRun
    BY <1>1, <1>3 DEF Finish
  <2>3. QED
    BY <1>2, <2>1, <2>2, DonorQuietMoves DEF IdleRun
<1>4. CASE ~Finish(r)
  <2>1. /\ \A q \in Runs \ {r} : run'[q] = run[q]
        /\ run'[r].seen = run[r].seen
        /\ run'[r].pc \notin {"apply", "readDonor", "writeDonor"}
    <3>1. CASE Begin(r) \/ ListProgram(r)
      BY <1>1, <3>1 DEF Begin, ListProgram, Fields
    <3>2. CASE LoseRead(r)
      BY <1>1, <3>2 DEF LoseRead, Fields
    <3>3. CASE SaveCursor(r) \/ SelectActive(r) \/ ListDirect(r)
      BY <1>1, <1>4, <3>3 DEF SaveCursor, SelectActive, ListDirect, Goto, Fields
    <3>4. CASE ReadTotal(r) \/ WriteTotal(r)
      BY <1>1, <3>4 DEF ReadTotal, WriteTotal, Fields
    <3>5. QED
      BY <1>4, <3>1, <3>2, <3>3, <3>4 DEF Crash, SaveDirectSig
  <2>2. QED
    BY <1>2, <2>1, DonorQuietMoves
<1>5. QED
  BY <1>3, <1>4

\* Phase 1 takes on an event that is nowhere pending, or passes a known one.
LEMMA InsertKeepsDonors ==
  ASSUME IndexerInv, IndexerInv', DonorInv, NEW r \in Runs, Insert(r)
  PROVE  DonorInv'
<1>1. /\ UNCHANGED <<chain, donorRow>> /\ events \subseteq events'
      /\ run[r].pc = "phase1"
  BY DEF Insert
<1>2. \A q \in Runs \ {r} : run'[q] = run[q]
  BY RunFacts DEF Insert
<1>3. CASE IsNewEvent(Current(r))
  <2>1. run'[r].pc = "apply" /\ run'[r].sigs = run[r].sigs
        /\ run'[r].seen = run[r].seen
    BY <1>3, RunFacts DEF Insert, Fields
  <2>2. Current(r)' \notin events
    BY <1>3, <2>1 DEF IsNewEvent, Current
  <2>3. ReadOK(r)'
    BY <2>1 DEF DonorInv, ReadOK
  <2>4. donorRow' \in [Donors -> DonorRows]
    BY <1>1 DEF DonorInv, DonorRowsOK
  <2>5. QED
    BY <1>1, <1>2, <2>2, <2>3, <2>4, DonorRunMoves
<1>4. CASE ~IsNewEvent(Current(r))
  <2>1. run'[r].pc = "phase1" /\ run'[r].seen = run[r].seen
    BY <1>1, <1>4, RunFacts DEF Insert, Fields
  <2>2. QED
    BY <1>1, <1>2, <2>1, DonorQuietMoves
<1>5. QED
  BY <1>3, <1>4

\* So does phase 2, for what looks like a gift.
LEMMA InsertDirectKeepsDonors ==
  ASSUME IndexerInv, IndexerInv', DonorInv, NEW r \in Runs, InsertDirect(r)
  PROVE  DonorInv'
<1>1. /\ UNCHANGED <<chain, donorRow>> /\ events \subseteq events'
      /\ run[r].pc = "phase2"
  BY DEF InsertDirect
<1>2. \A q \in Runs \ {r} : run'[q] = run[q]
  BY RunFacts DEF InsertDirect, Goto
<1>3. CASE HasTransfer(Current(r)) /\ IsNewEvent(Current(r))
  <2>1. run'[r].pc = "readDonor" /\ run'[r].sigs = run[r].sigs
        /\ run'[r].seen = run[r].seen
    BY <1>3, RunFacts DEF InsertDirect, Goto, Fields
  <2>2. Current(r)' = Current(r) /\ Current(r)' \notin events
    BY <1>3, <2>1 DEF IsNewEvent, Current
  <2>3. chain[Current(r)].kind \in Gifts
    BY <1>3 DEF HasTransfer, Gifts
  <2>4. ReadOK(r)'
    BY <1>1, <2>1, <2>2, <2>3 DEF DonorInv, ReadOK
  <2>5. donorRow' \in [Donors -> DonorRows]
    BY <1>1 DEF DonorInv, DonorRowsOK
  <2>6. QED
    BY <1>1, <1>2, <2>2, <2>4, <2>5, DonorRunMoves
<1>4. CASE ~(HasTransfer(Current(r)) /\ IsNewEvent(Current(r)))
  <2>1. run'[r].pc = "phase2" /\ run'[r].seen = run[r].seen
    BY <1>1, <1>4, RunFacts DEF InsertDirect, Fields
  <2>2. QED
    BY <1>1, <1>2, <2>1, DonorQuietMoves
<1>5. QED
  BY <1>3, <1>4

\* What a run at work on a donor's row works on.
LEMMA PendingFacts ==
  ASSUME IndexerInv, DonorInv, NEW r \in Runs, Pending(r)
  PROVE  /\ Current(r) \in events /\ Current(r) \in 1 .. Len(chain)
         /\ AmountOf(Current(r)) \in Nat
         /\ chain[Current(r)].kind \in Gifts \union {"refund"} =>
              DonorOf(Current(r)) \in Donors
<1>1. run[r].sigs # {} /\ Current(r) \in events
  BY RunFacts DEF RunOK, Pending, AtWork
<1>2. Current(r) \in 1 .. Len(chain)
  BY <1>1, CurrentIsOldest
<1>3. QED
  BY <1>1, <1>2 DEF DonorInv, ChainTyped

LEMMA ApplyKeepsDonors ==
  ASSUME IndexerInv, IndexerInv', DonorInv, NEW r \in Runs, Apply(r)
  PROVE  DonorInv'
<1> DEFINE tx == chain[Current(r)]
<1>1. UNCHANGED <<chain, events>> /\ run[r].pc = "apply" /\ Pending(r)
  BY DEF Apply, Pending
<1>2. \A q \in Runs \ {r} : run'[q] = run[q]
  BY RunFacts DEF Apply
<1>3. /\ run'[r].seen = run[r].seen
      /\ \/ run'[r].pc = "readDonor" /\ run'[r].sigs = run[r].sigs
            /\ tx.kind = "contribute"
         \/ run'[r].pc = "phase1"
  BY RunFacts DEF Apply, Fields
<1>4. Pending(r)' => Current(r)' = Current(r)
  BY <1>3 DEF Pending, Current
<1>5. ReadOK(r)'
  <2>1. run[r].seen \in Nat
    BY DEF DonorInv, ReadOK
  <2>2. CASE run'[r].pc = "phase1"
    BY <1>3, <2>1, <2>2 DEF ReadOK
  <2>3. CASE run'[r].pc = "readDonor" /\ run'[r].sigs = run[r].sigs
             /\ tx.kind = "contribute"
    <3>1. chain'[Current(r)'].kind \in Gifts
      BY <1>1, <2>3 DEF Gifts, Current
    <3>2. QED
      BY <1>3, <2>1, <2>3, <3>1 DEF ReadOK
  <2>4. QED
    BY <1>3, <2>2, <2>3
<1>6. /\ donorRow' \in [Donors -> DonorRows]
      /\ \A d \in Donors : donorRow'[d].amount = donorRow[d].amount
  <2>1. donorRow \in [Donors -> DonorRows]
    BY DEF DonorInv, DonorRowsOK
  <2>2. CASE tx.kind = "refund"
    <3>1. tx.donor \in Donors
      BY <1>1, <2>2, PendingFacts DEF DonorOf
    <3>2. donorRow' = [donorRow EXCEPT ![tx.donor] = MarkRefunded(donorRow[tx.donor])]
      BY <2>2 DEF Apply
    <3>3. \A row \in DonorRows : /\ MarkRefunded(row) \in DonorRows
                                 /\ MarkRefunded(row).amount = row.amount
      BY DEF MarkRefunded, DonorRows
    <3>4. QED
      BY <2>1, <3>1, <3>2, <3>3
  <2>3. CASE tx.kind # "refund"
    BY <2>1, <2>3 DEF Apply
  <2>4. QED
    BY <2>2, <2>3
<1>7. QED
  BY <1>1, <1>2, <1>4, <1>5, <1>6, DonorRunMoves

LEMMA ReadDonorKeepsDonors ==
  ASSUME IndexerInv, IndexerInv', DonorInv, NEW r \in Runs, ReadDonor(r)
  PROVE  DonorInv'
<1>1. PICK d : d = DonorOf(Current(r))
  OBVIOUS
<1>2. UNCHANGED <<chain, events, donorRow>> /\ run[r].pc = "readDonor" /\ Pending(r)
  BY DEF ReadDonor, Pending
<1>3. /\ \A q \in Runs \ {r} : run'[q] = run[q]
      /\ run'[r].pc = "writeDonor" /\ run'[r].sigs = run[r].sigs
      /\ run'[r].seen = donorRow[d].amount
  BY <1>1, RunFacts DEF ReadDonor, Fields
<1>4. Current(r)' = Current(r)
  BY <1>3 DEF Current
<1>5. chain[Current(r)].kind \in Gifts /\ d \in Donors
  BY <1>1, <1>2, PendingFacts DEF DonorInv, ReadOK
<1>6. donorRow[d].amount \in Nat
  BY <1>5 DEF DonorInv, DonorRowsOK, DonorRows
<1>7. ASSUME d \notin Relayed PROVE donorRow[d].amount <= Booked(d)'
  <2>1. Settled \subseteq Settled'
    <3>1. \A q \in Runs : Pending(q)' => Pending(q) /\ Current(q)' = Current(q)
      BY <1>2, <1>3, <1>4 DEF Pending, Current
    <3>2. QED
      BY <1>2, <3>1, SettledGrows
  <2>2. ChainTyped' /\ Len(chain) <= Len(chain')
    BY <1>2, RunFacts DEF ChainTyped, DonorInv, AmountOf, DonorOf
  <2>3. Booked(d) <= Booked(d)' /\ Booked(d) \in Nat /\ Booked(d)' \in Nat
    BY <1>2, <2>1, <2>2, BookedGrows
  <2>4. donorRow[d].amount <= Booked(d)
    BY <1>5, <1>7 DEF DonorInv, DonorRowsOK
  <2>5. QED
    BY <1>6, <2>3, <2>4
<1>8. ReadOK(r)'
  BY <1>1, <1>2, <1>3, <1>4, <1>5, <1>6, <1>7 DEF ReadOK, DonorOf
<1>9. donorRow' \in [Donors -> DonorRows]
  BY <1>2 DEF DonorInv, DonorRowsOK
<1>10. QED
  BY <1>2, <1>3, <1>4, <1>8, <1>9, DonorRunMoves

\* The event a run brings to its donor's row becomes settled, and what the run
\* had read did not count it.
LEMMA WriteDonorKeepsDonors ==
  ASSUME IndexerInv, IndexerInv', DonorInv, NEW r \in Runs, WriteDonor(r)
  PROVE  DonorInv'
<1>1. PICK k, d : k = Current(r) /\ d = DonorOf(k)
  OBVIOUS
<1>2. UNCHANGED <<chain, events>> /\ run[r].pc = "writeDonor" /\ Pending(r)
  BY DEF WriteDonor, Pending
<1>3. CASE run[r].isNew /\ donorRow[d].exists
  <2>1. Finish(r) /\ UNCHANGED donorRow
    BY <1>1, <1>3 DEF WriteDonor
  <2>2. run'[r] = IdleRun /\ \A q \in Runs \ {r} : run'[q] = run[q]
    BY <2>1, RunFacts DEF Finish
  <2>3. QED
    BY <1>2, <2>1, <2>2, DonorQuietMoves DEF IdleRun
<1>4. CASE ~(run[r].isNew /\ donorRow[d].exists)
  <2>1. /\ \A q \in Runs \ {r} : run'[q] = run[q]
        /\ run'[r].pc \in {"readTotal", "phase1"} /\ run'[r].seen = run[r].seen
    BY <1>1, <1>4, RunFacts DEF WriteDonor, Goto, Fields
  <2>2. donorRow' = [donorRow EXCEPT ![d] =
                       [ exists |-> TRUE, refunded |-> FALSE,
                         amount |-> run[r].seen + AmountOf(k) ]]
    BY <1>1, <1>4 DEF WriteDonor
  <2>3. /\ chain[k].kind \in Gifts /\ d \in Donors /\ AmountOf(k) \in Nat
        /\ run[r].seen \in Nat /\ k \in events /\ k \in 1 .. Len(chain)
        /\ d \notin Relayed => run[r].seen <= Booked(d)
    BY <1>1, <1>2, PendingFacts DEF DonorInv, ReadOK
  <2>4. ~Pending(r)' /\ ReadOK(r)'
    BY <2>1, <2>3 DEF Pending, ReadOK
  <2>5. donorRow' \in [Donors -> DonorRows]
    <3>1. run[r].seen + AmountOf(k) \in Nat
      BY <2>3
    <3>2. [ exists |-> TRUE, refunded |-> FALSE,
            amount |-> run[r].seen + AmountOf(k) ] \in DonorRows
      BY <3>1 DEF DonorRows
    <3>3. QED
      BY <2>2, <3>2 DEF DonorInv, DonorRowsOK
  <2>6. \A q \in Runs \ {r} : Pending(q)' = Pending(q) /\ Current(q)' = Current(q)
    BY <2>1 DEF Pending, Current
  <2>7. Settled \subseteq Settled' /\ k \in Settled' /\ k \notin Settled
    <3>1. Settled \subseteq Settled'
      BY <1>2, <2>4, <2>6, SettledGrows
    <3>2. \A q \in Runs : Pending(q)' => Current(q)' # k
      BY <1>1, <1>2, <2>4, <2>6 DEF DonorInv, OnePending
    <3>3. QED
      BY <1>1, <1>2, <2>3, <3>1, <3>2 DEF Settled
  <2>8. Booked(d) + AmountOf(k) <= Booked(d)' /\ Booked(d) \in Nat
    <3> DEFINE S == GiftsOf(d, Gifts) \intersect Settled
               T == GiftsOf(d, Gifts) \intersect Settled'
    <3>1. GiftsOf(d, Gifts) \subseteq 1 .. Len(chain) /\ k \in GiftsOf(d, Gifts)
      BY <1>1, <2>3, RunFacts DEF GiftsOf
    <3>2. k \in T /\ S \subseteq T \ {k} /\ T \in SUBSET (1 .. Len(chain))
      BY <2>7, <3>1
    <3>3. ChainTyped /\ Len(chain) \in Nat
      BY RunFacts DEF DonorInv
    <3>4. Worth(T) = Worth(T \ {k}) + AmountOf(k)
      BY <3>2, <3>3, WorthFacts
    <3>5. /\ Worth(S) \in Nat /\ Worth(T \ {k}) \in Nat
          /\ Worth(S) <= Worth(T \ {k})
      <4>1. T \ {k} \in SUBSET (1 .. Len(chain))
        BY <3>2
      <4>2. S \in SUBSET (T \ {k})
        BY <3>2
      <4> HIDE DEF S, T
      <4>3. QED
        BY <3>3, <4>1, <4>2, WorthFacts
    <3>6. Booked(d)' = Worth(T) /\ Booked(d) = Worth(S)
      BY <1>2 DEF Booked, Worth, GiftsOf, AmountOf, DonorOf
    <3> HIDE DEF S, T
    <3>7. QED
      BY <2>3, <3>4, <3>5, <3>6
  <2>9. \A c \in Donors \ Relayed :
           \/ donorRow'[c].amount = donorRow[c].amount
           \/ donorRow'[c].amount <= Booked(c)'
    <3> SUFFICES ASSUME NEW c \in Donors \ Relayed
                 PROVE  \/ donorRow'[c].amount = donorRow[c].amount
                        \/ donorRow'[c].amount <= Booked(c)'
      OBVIOUS
    <3>1. donorRow \in [Donors -> DonorRows]
      BY DEF DonorInv, DonorRowsOK
    <3>2. CASE c # d
      BY <2>2, <3>1, <3>2
    <3>3. CASE c = d
      <4>1. donorRow'[d].amount = run[r].seen + AmountOf(k)
        BY <2>2, <2>3, <3>1
      <4>2. Booked(d)' \in Nat
        <5>1. ChainTyped' /\ Len(chain) <= Len(chain')
          BY <1>2, RunFacts DEF ChainTyped, DonorInv, AmountOf, DonorOf
        <5>2. QED
          BY <1>2, <2>7, <5>1, BookedGrows
      <4>3. run[r].seen + AmountOf(k) <= Booked(d)'
        BY <2>3, <2>8, <3>3, <4>2
      <4>4. QED
        BY <3>3, <4>1, <4>3
    <3>4. QED
      BY <3>2, <3>3
  <2>10. QED
    BY <1>2, <2>1, <2>4, <2>5, <2>9, DonorRunMoves
<1>5. QED
  BY <1>3, <1>4

\* The placeholder row of a card payment is a relayed donor's.
LEMMA NamesKeepDonors ==
  ASSUME IndexerInv, DonorInv, NEW c \in Relayed, RecordDonorName(c)
  PROVE  DonorInv'
<1>1. UNCHANGED <<chain, events, run>> /\ c \in Donors
  BY IndexerAssumption DEF RecordDonorName
<1>2. Given(c, {"contribute"}) \in Nat
  <2>1. GiftsOf(c, {"contribute"}) \in SUBSET (1 .. Len(chain))
    BY DEF GiftsOf, IndexerInv, ChainOK
  <2>2. QED
    BY <2>1, WorthFacts DEF Given, DonorInv, IndexerInv, ChainOK
<1>3. /\ donorRow' \in [Donors -> DonorRows]
      /\ \A d \in Donors \ Relayed : donorRow'[d] = donorRow[d]
  <2>1. [ exists |-> TRUE, refunded |-> FALSE,
          amount |-> Given(c, {"contribute"}) ] \in DonorRows
    BY <1>2 DEF DonorRows
  <2>2. donorRow \in [Donors -> DonorRows]
    BY DEF DonorInv, DonorRowsOK
  <2>3. QED
    BY <2>1, <2>2 DEF RecordDonorName
<1>4. \A d : Booked(d)' = Booked(d)
  BY <1>1 DEF Booked, Worth, GiftsOf, Settled, Pending, Current, AmountOf, DonorOf
<1>5. ChainTyped' /\ OnePending' /\ \A r \in Runs : ReadOK(r)'
  BY <1>1, <1>4 DEF DonorInv, ChainTyped, OnePending, ReadOK, Pending, Current, AmountOf, DonorOf
<1>6. QED
  BY <1>3, <1>4, <1>5 DEF DonorInv, DonorRowsOK

\* What a direct gift is taken for: some transfer is the largest.
LEMMA GiftIsSomebodys ==
  ASSUME NEW transfers \in DirectGifts
  PROVE  LargestSource(transfers) \in Donors /\ Delta(transfers) \in Nat
<1>1. PICK n \in 1 .. MaxTransfers :
         transfers \in [1 .. n -> [from : Donors \ Relayed, amount : Amounts]]
  BY DEF DirectGifts
<1>2. PICK f : f = [k \in DOMAIN transfers |-> transfers[k].amount]
  OBVIOUS
<1>3. n \in Nat \ {0} /\ IsFiniteSet(1 .. n) /\ f \in [1 .. n -> Nat]
  <2>1. n \in Nat \ {0} /\ DOMAIN transfers = 1 .. n
    BY <1>1, IndexerAssumption
  <2>2. \A k \in 1 .. n : transfers[k].amount \in Nat
    BY <1>1, IndexerAssumption
  <2>3. IsFiniteSet(1 .. n)
    BY <2>1, FS_Interval
  <2>4. QED
    BY <1>2, <2>1, <2>2, <2>3
<1>4. PICK total : total = SumOf(f)
  OBVIOUS
<1>5. total \in Nat /\ Delta(transfers) = total
  BY <1>2, <1>3, <1>4, SumNat DEF Delta
<1>6. \A k \in 1 .. n : f[k] <= total
  BY <1>3, <1>4, SumChange
<1>7. PICK least : least = Min({total - f[k] : k \in 1 .. n})
  OBVIOUS
<1>8. PICK top \in 1 .. n : \A k \in 1 .. n : f[k] <= f[top]
  <2>1. {total - f[k] : k \in 1 .. n} \subseteq Nat
    BY <1>3, <1>5, <1>6
  <2>2. {total - f[k] : k \in 1 .. n} # {}
    <3>1. n \in Nat /\ 1 <= n
      BY <1>3
    <3>2. 1 \in 1 .. n
      BY <3>1
    <3>3. total - f[1] \in {total - f[k] : k \in 1 .. n}
      BY <3>2, Zenon
    <3>4. QED
      BY <3>3
  <2>3. /\ least \in {total - f[k] : k \in 1 .. n}
        /\ \A i \in {total - f[k] : k \in 1 .. n} : least <= i
    BY <1>7, <2>1, <2>2, OldestExists
  <2>4. PICK top \in 1 .. n : least = total - f[top]
    BY <2>3
  <2>5. \A k \in 1 .. n : total - f[top] <= total - f[k]
    BY <2>3, <2>4
  <2>6. total \in Nat /\ \A k \in 1 .. n : f[k] \in Nat
    BY <1>3, <1>5
  <2>7. \A k \in 1 .. n : f[k] <= f[top]
    BY <2>5, <2>6
  <2>8. QED
    BY <2>7
<1>9. PICK largest :
        largest = {k \in DOMAIN transfers :
                     \A i \in DOMAIN transfers :
                         transfers[i].amount <= transfers[k].amount}
  OBVIOUS
<1>10. largest \subseteq 1 .. n /\ top \in largest
  BY <1>1, <1>2, <1>8, <1>9
<1>11. Min(largest) \in 1 .. n
  <2>1. largest \subseteq Nat /\ largest # {}
    BY <1>10
  <2>2. QED
    BY <1>10, <2>1, OldestExists
<1>12. LargestSource(transfers) = transfers[Min(largest)].from
  BY <1>9 DEF LargestSource
<1>13. QED
  BY <1>1, <1>5, <1>11, <1>12

NamesDonor(tx) ==
    IF tx.kind = "direct"
    THEN LargestSource(tx.transfers) \in Donors /\ Delta(tx.transfers) \in Nat
    ELSE /\ tx.amount \in Nat
         /\ tx.kind \in Gifts \union {"refund"} => tx.donor \in Donors

\* The chain grows by a transaction that names its donor.
LEMMA ChainKeepsDonors ==
  ASSUME IndexerInv, IndexerInv', DonorInv, ChainNext PROVE DonorInv'
<1>1. UNCHANGED <<events, donorRow, run>>
  BY DEF ChainNext, ChainCreate, ChainCancel, ChainWithdraw, ChainContribute,
         ChainDirect, ChainRefund, Append1, Land
<1>2. PICK tx : chain' = Append(chain, tx) /\ NamesDonor(tx)
  <2>1. ASSUME NEW kind, NEW donor, NEW amount \in Nat, NEW total, NEW contributors,
               Append1(kind, donor, amount, total, contributors),
               kind # "direct",
               kind \in Gifts \union {"refund"} => donor \in Donors
        PROVE  \E tx : chain' = Append(chain, tx) /\ NamesDonor(tx)
    <3>1. PICK tx : tx = [ kind |-> kind, donor |-> donor, amount |-> amount,
                           totalAfter |-> total, contributorsAfter |-> contributors,
                           transfers |-> <<>> ]
      OBVIOUS
    <3>2. tx.amount = amount /\ tx.kind = kind /\ tx.donor = donor
      BY <3>1
    <3>3. chain' = Append(chain, tx)
      BY <2>1, <3>1 DEF Append1, Land
    <3>4. QED
      BY <2>1, <3>2, <3>3 DEF NamesDonor
  <2>2. CASE ChainCreate
    <3>1. "create" \notin Gifts \union {"refund"} /\ 0 \in Nat
      BY DEF Gifts
    <3>2. QED
      BY <2>1, <2>2, <3>1 DEF ChainCreate
  <2>3. CASE ChainCancel
    <3>1. "cancel" \notin Gifts \union {"refund"} /\ 0 \in Nat
      BY DEF Gifts
    <3>2. QED
      BY <2>1, <2>3, <3>1 DEF ChainCancel
  <2>4. CASE \E amount \in Amounts : ChainWithdraw(amount)
    <3>1. "withdraw" \notin Gifts \union {"refund"} /\ Amounts \subseteq Nat
      BY IndexerAssumption DEF Gifts
    <3>2. QED
      BY <2>1, <2>4, <3>1 DEF ChainWithdraw
  <2>5. CASE \E d \in Donors, amount \in Amounts : ChainContribute(d, amount)
    <3>1. Amounts \subseteq Nat
      BY IndexerAssumption
    <3>2. QED
      BY <2>1, <2>5, <3>1 DEF ChainContribute
  <2>6. ASSUME NEW d \in Donors, ChainRefund(d)
        PROVE  \E tx : chain' = Append(chain, tx) /\ NamesDonor(tx)
    <3>1. Given(d, {"contribute"}) \in Nat
      <4>1. GiftsOf(d, {"contribute"}) \in SUBSET (1 .. Len(chain))
        BY DEF GiftsOf, IndexerInv, ChainOK
      <4>2. QED
        BY <4>1, WorthFacts DEF Given, DonorInv, IndexerInv, ChainOK
    <3>2. QED
      BY <2>1, <2>6, <3>1 DEF ChainRefund
  <2>7. ASSUME NEW transfers \in DirectGifts, ChainDirect(transfers)
        PROVE  \E tx : chain' = Append(chain, tx) /\ NamesDonor(tx)
    <3>1. PICK tx : /\ chain' = Append(chain, tx)
                    /\ tx.kind = "direct" /\ tx.transfers = transfers
      BY <2>7, DirectLands
    <3>2. NamesDonor(tx)
      BY <3>1, GiftIsSomebodys DEF NamesDonor
    <3>3. QED
      BY <3>1, <3>2
  <2>8. QED
    BY <2>2, <2>3, <2>4, <2>5, <2>6, <2>7 DEF ChainNext
<1>3. PICK S : chain \in Seq(S)
  BY DEF IndexerInv, ChainOK
<1>4. /\ Len(chain) \in Nat /\ Len(chain') = Len(chain) + 1
      /\ \A i \in 1 .. Len(chain) : chain'[i] = chain[i]
      /\ chain'[Len(chain) + 1] = tx
  BY <1>2, <1>3, AppendKeeps
<1>5. ChainTyped'
  <2>1. \A i \in 1 .. Len(chain') : i \in 1 .. Len(chain) \/ i = Len(chain) + 1
    BY <1>4
  <2>2. ASSUME NEW i \in 1 .. Len(chain)
        PROVE  /\ AmountOf(i)' \in Nat
               /\ chain'[i].kind \in Gifts \union {"refund"} => DonorOf(i)' \in Donors
    BY <1>4, <2>2 DEF DonorInv, ChainTyped, AmountOf, DonorOf
  <2>3. PICK n : n = Len(chain) + 1
    OBVIOUS
  <2>4. chain'[n] = tx
    BY <1>4, <2>3
  <2>5. /\ AmountOf(n)' \in Nat
        /\ chain'[n].kind \in Gifts \union {"refund"} => DonorOf(n)' \in Donors
    <3>1. CASE tx.kind = "direct"
      BY <1>2, <2>4, <3>1 DEF NamesDonor, AmountOf, DonorOf
    <3>2. CASE tx.kind # "direct"
      BY <1>2, <2>4, <3>2 DEF NamesDonor, AmountOf, DonorOf
    <3>3. QED
      BY <3>1, <3>2
  <2>6. QED
    BY <2>1, <2>2, <2>3, <2>5 DEF ChainTyped
<1>6. \A d : Booked(d) <= Booked(d)' /\ Booked(d) \in Nat /\ Booked(d)' \in Nat
  <2>1. Settled \subseteq Settled'
    BY <1>1 DEF Settled, Pending, Current
  <2>2. Len(chain) <= Len(chain')
    BY <1>4
  <2>3. QED
    BY <1>4, <1>5, <2>1, <2>2, BookedGrows
<1>7. DonorRowsOK'
  <2>1. \A d \in Donors : donorRow[d].amount \in Nat
    BY DEF DonorInv, DonorRowsOK, DonorRows
  <2>2. QED
    BY <1>1, <1>6, <2>1 DEF DonorInv, DonorRowsOK
<1>8. OnePending'
  BY <1>1 DEF DonorInv, OnePending, Pending, Current
<1>9. ASSUME NEW r \in Runs PROVE ReadOK(r)'
  <2>1. ReadOK(r) /\ Current(r)' = Current(r)
    BY <1>1 DEF DonorInv, Current
  <2>2. CASE ~Pending(r)
    BY <1>1, <2>1, <2>2 DEF ReadOK, Pending
  <2>3. CASE Pending(r)
    <3>1. chain'[Current(r)] = chain[Current(r)]
      BY <1>4, <2>3, PendingFacts
    <3>2. \A d : run[r].seen \in Nat /\ run[r].seen <= Booked(d)
                   => run[r].seen <= Booked(d)'
      BY <1>6
    <3>3. QED
      BY <1>1, <2>1, <3>1, <3>2 DEF ReadOK, AmountOf, DonorOf
  <2>4. QED
    BY <2>2, <2>3
<1>10. QED
  BY <1>5, <1>7, <1>8, <1>9 DEF DonorInv

LEMMA DonorInvInit == Init => DonorInv
<1> SUFFICES ASSUME Init PROVE DonorInv
  OBVIOUS
<1>1. IndexerInv
  BY IndexerInvInit
<1>2. ChainTyped
  BY DEF Init, ChainTyped
<1>3. DonorRowsOK
  <2>1. NoDonorRow \in DonorRows /\ NoDonorRow.amount = 0
    BY DEF NoDonorRow, DonorRows
  <2>2. \A d : 0 <= Booked(d)
    BY <1>1, <1>2, BookedFacts
  <2>3. QED
    BY <2>1, <2>2 DEF Init, DonorRowsOK
<1>4. \A r \in Runs : ~Pending(r) /\ ReadOK(r)
  BY DEF Init, IdleRun, Pending, ReadOK
<1>5. QED
  BY <1>2, <1>3, <1>4 DEF DonorInv, OnePending

LEMMA DonorInvStep == IndexerInv /\ IndexerInv' /\ DonorInv /\ [Next]_vars => DonorInv'
<1> SUFFICES ASSUME IndexerInv, IndexerInv', DonorInv, [Next]_vars PROVE DonorInv'
  OBVIOUS
<1>1. CASE ChainNext
  BY <1>1, ChainKeepsDonors
<1>2. ASSUME NEW r \in Runs, Begin(r) \/ Proceed(r) \/ LoseRead(r) \/ Crash(r)
      PROVE  DonorInv'
  BY <1>2, QuietStepsKeepDonors, InsertKeepsDonors, InsertDirectKeepsDonors,
     ApplyKeepsDonors, ReadDonorKeepsDonors, WriteDonorKeepsDonors DEF Proceed
<1>3. ASSUME NEW c \in Relayed, RecordDonorName(c) PROVE DonorInv'
  BY <1>3, NamesKeepDonors
<1>4. CASE UNCHANGED vars
  <2>1. UNCHANGED <<chain, events, donorRow, run>>
    BY <1>4 DEF vars
  <2>2. \A d : Booked(d)' = Booked(d)
    BY <2>1 DEF Booked, Worth, GiftsOf, Settled, Pending, Current, AmountOf, DonorOf
  <2>3. ChainTyped' /\ OnePending' /\ \A r \in Runs : ReadOK(r)'
    BY <2>1, <2>2 DEF DonorInv, ChainTyped, OnePending, ReadOK, Pending, Current, AmountOf, DonorOf
  <2>4. QED
    BY <2>1, <2>2, <2>3 DEF DonorInv, DonorRowsOK
<1>5. QED
  BY <1>1, <1>2, <1>3, <1>4 DEF Next

\* A wallet's row never shows more than the transactions brought that are taken for
\* its gifts, each at most once, however many runs overlap, die or read stale rows,
\* whoever else pays by card and whatever wallets share a transaction.
THEOREM DonorsNeverOverstated == Spec => []DonorNeverOverstated
<1>1. IndexerInv /\ DonorInv => DonorNeverOverstated
  <2> SUFFICES ASSUME IndexerInv, DonorInv, NEW d \in Donors \ Relayed
               PROVE  donorRow[d].amount <= Given(d, Gifts)
    BY DEF DonorNeverOverstated, Gifts
  <2>1. donorRow[d].amount \in Nat /\ donorRow[d].amount <= Booked(d)
    BY DEF DonorInv, DonorRowsOK, DonorRows
  <2>2. /\ Booked(d) \in Nat /\ Given(d, Gifts) \in Nat
        /\ Booked(d) <= Given(d, Gifts)
    BY BookedFacts DEF DonorInv
  <2>3. QED
    BY <2>1, <2>2
<1>2. QED
  BY <1>1, IndexerInvInit, IndexerInvStep, DonorInvInit, DonorInvStep, PTL DEF Spec

=============================================================================
