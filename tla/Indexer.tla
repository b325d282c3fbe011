------------------------------ MODULE Indexer ------------------------------
(***************************************************************************)
(* The indexer of the web app: a cron job that copies the history of the   *)
(* chain into a database, here for one unstaked SOL jar.                   *)
(*                                                                         *)
(* Every minute a run starts; nothing keeps a run from overlapping the     *)
(* previous one, and a run can die between any two awaits.  Phase 1 walks  *)
(* the program's new transactions and applies their events; phase 2 walks  *)
(* the jar address's new transactions for gifts that bypassed the program. *)
(* Every database statement and every read is a step of its own; what a    *)
(* run read stays in its record until it is used.                          *)
(*                                                                         *)
(* A transaction is known by its place on the chain, 0 is "no signature",  *)
(* and a transaction carries at most one event.                            *)
(***************************************************************************)
EXTENDS Naturals, Sequences, FiniteSets, SequencesExt, FiniteSetsExt, Sums

CONSTANTS
    Runs,           \* indexer runs that may be under way at once
    Donors,
    Relayed,        \* donors that are card payments the relay passed on
    Amounts,
    MaxTransfers,   \* transfers to the jar in one direct gift
    ListsAccounts,  \* whether the node lists a parsed instruction's accounts
    MaxTx,          \* length of the chain, refunds not counted
    Crashes,        \* whether a run may die
    Unreadable      \* transactions getTransaction may answer null for

ASSUME IndexerAssumption ==
    /\ Relayed \subseteq Donors
    /\ Amounts \subseteq Nat \ {0}
    /\ MaxTransfers \in Nat /\ ListsAccounts \in BOOLEAN
    /\ MaxTx \in Nat /\ Unreadable \subseteq Nat
    /\ Crashes \in BOOLEAN

VARIABLES
    chain,          \* the jar's transactions, oldest first
    events,         \* rows of events: the transactions inserted
    cursor,         \* indexer_state.last_processed_signature
    jarRow,         \* the jar's row of jars_cache
    donorRow,       \* per donor: its row of contributions_cache
    named,          \* relayed donors whose name was recorded
    run,            \* per run: where it is and what it holds
    unread          \* transactions some run could not read: for the properties

vars == <<chain, events, cursor, jarRow, donorRow, named, run, unread>>

Kinds == {"create", "contribute", "direct", "withdraw", "cancel", "refund"}

NoDonor == "none"

\* A system transfer to the jar's address.
Transfer == [from : Donors, amount : Nat]

\* donor and amount are those of the event; a direct gift has transfers instead.
Tx == [ kind : Kinds, donor : Donors \union {NoDonor}, amount : Nat,
        totalAfter : Nat, contributorsAfter : Nat, transfers : Seq(Transfer) ]

NoJarRow == [ status |-> "none", total |-> 0, contributors |-> 0,
              lastDirectSig |-> 0 ]

NoDonorRow == [exists |-> FALSE, amount |-> 0, refunded |-> FALSE]

IdleRun == [ pc |-> "idle", sigs |-> {}, since |-> 0, last |-> 0,
             direct |-> FALSE, isNew |-> FALSE, seen |-> 0,
             seenRow |-> NoJarRow ]

Statuses == {"none", "active", "withdrawn", "cancelled"}

TypeOK ==
    /\ chain \in Seq(Tx)
    /\ events \subseteq 1 .. Len(chain)
    /\ cursor \in 0 .. Len(chain)
    /\ jarRow \in [ status : Statuses, total : Nat, contributors : Nat,
                    lastDirectSig : 0 .. Len(chain) ]
    /\ donorRow \in [Donors -> [ exists : BOOLEAN, amount : Nat,
                                 refunded : BOOLEAN ]]
    /\ named \subseteq Relayed
    /\ unread \subseteq 1 .. Len(chain)
    /\ \A r \in Runs :
          /\ run[r].sigs \subseteq 1 .. Len(chain)
          /\ run[r].since <= Len(chain) /\ run[r].last <= Len(chain)

Init ==
    /\ chain = <<>>
    /\ events = {}
    /\ cursor = 0
    /\ jarRow = NoJarRow
    /\ donorRow = [d \in Donors |-> NoDonorRow]
    /\ named = {}
    /\ run = [r \in Runs |-> IdleRun]
    /\ unread = {}

---------------------------------------------------------------------------
(* The chain: what the jar program allows, as the events it emits show it. *)

Has(kind) == \E i \in DOMAIN chain : chain[i].kind = kind

\* extractSolDirectTransfer: all the jar's address gained is put down to the
\* sender of the largest transfer, the first of them if there are several.
Delta(transfers) == SumOf([k \in DOMAIN transfers |-> transfers[k].amount])

LargestSource(transfers) ==
    LET largest == {k \in DOMAIN transfers :
                      \A n \in DOMAIN transfers :
                          transfers[n].amount <= transfers[k].amount}
    IN  transfers[Min(largest)].from

\* Whose gift a transaction is taken for, and of how much.
DonorOf(i) ==
    IF chain[i].kind = "direct" THEN LargestSource(chain[i].transfers)
    ELSE chain[i].donor

AmountOf(i) ==
    IF chain[i].kind = "direct" THEN Delta(chain[i].transfers)
    ELSE chain[i].amount

GiftsOf(d, kinds) ==
    {i \in DOMAIN chain : chain[i].kind \in kinds /\ DonorOf(i) = d}

\* What these transactions carried together.
Worth(S) == SumOf([i \in S |-> AmountOf(i)])

\* What a donor's transactions of these kinds ever brought.
Given(d, kinds) == Worth(GiftsOf(d, kinds))

Refunded(d) ==
    \E i \in DOMAIN chain : chain[i].kind = "refund" /\ chain[i].donor = d

OnChainTotal == IF chain = <<>> THEN 0 ELSE Last(chain).totalAfter
OnChainContributors ==
    IF chain = <<>> THEN 0 ELSE Last(chain).contributorsAfter

\* A jar that was partly withdrawn from is still active.
JarOpen ==
    Has("create") /\ ~Has("cancel") /\ ~(Has("withdraw") /\ OnChainTotal = 0)

Land(tx) ==
    /\ tx.kind # "refund" => Len(chain) < MaxTx
    /\ chain' = Append(chain, tx)
    /\ UNCHANGED <<events, cursor, jarRow, donorRow, named, run, unread>>

\* A transaction of the program, with the event it emits.
Append1(kind, donor, amount, total, contributors) ==
    Land([ kind |-> kind, donor |-> donor, amount |-> amount,
           totalAfter |-> total, contributorsAfter |-> contributors,
           transfers |-> <<>> ])

ChainCreate == ~Has("create") /\ Append1("create", NoDonor, 0, 0, 0)

ChainContribute(d, amount) ==
    /\ JarOpen
    /\ Append1("contribute", d, amount, OnChainTotal + amount,
               OnChainContributors
                   + IF GiftsOf(d, {"contribute"}) = {} THEN 1 ELSE 0)

\* What one transaction may send to the jar's address without the program.
DirectGifts ==
    UNION {[1 .. n -> [from : Donors \ Relayed, amount : Amounts]] :
              n \in 1 .. MaxTransfers}

\* Plain transfers, of one wallet or of several that sign together, change
\* nothing the program records.
ChainDirect(transfers) ==
    /\ JarOpen
    /\ Land([ kind |-> "direct", donor |-> NoDonor, amount |-> 0,
              totalAfter |-> OnChainTotal,
              contributorsAfter |-> OnChainContributors,
              transfers |-> transfers ])

ChainWithdraw(amount) ==
    /\ JarOpen
    /\ amount <= OnChainTotal
    /\ Append1("withdraw", NoDonor, amount, OnChainTotal - amount,
               OnChainContributors)

ChainCancel ==
    /\ JarOpen
    /\ ~Has("withdraw")
    /\ Append1("cancel", NoDonor, 0, OnChainTotal, OnChainContributors)

ChainRefund(d) ==
    LET amount == Given(d, {"contribute"})
    IN  /\ Has("cancel")
        /\ amount > 0 /\ ~Refunded(d)
        /\ Append1("refund", d, amount, OnChainTotal - amount,
                   OnChainContributors - 1)

---------------------------------------------------------------------------
(* Database statements.                                                    *)

\* Mutation: a cancelled jar's row is left as it is.
StatusForgotten(r, status) == r

UpsertJar(r) ==
    [ status |-> "active", total |-> 0, contributors |-> 0, lastDirectSig |->
          IF r.status = "none" THEN 0 ELSE r.lastDirectSig ]

\* UPDATE ... WHERE jar_pda: nothing happens when there is no row.
UpdateJar(r, new) == IF r.status = "none" THEN r ELSE new

ApplyContributeDelta(r, tx) ==
    UpdateJar(r, [r EXCEPT !.total = tx.totalAfter,
                           !.contributors = tx.contributorsAfter])

MarkJarStatus(r, status) == UpdateJar(r, [r EXCEPT !.status = status])

MarkRefunded(r) == IF r.exists THEN [r EXCEPT !.refunded = TRUE] ELSE r

\* Mutation: a repeated event is applied again.
InsertAnyEvent(i) == TRUE

\* insertEventIfNew: the unique index on (signature, kind) decides.
IsNewEvent(i) == i \notin events

---------------------------------------------------------------------------
(* Steps of a run.                                                         *)

Goto(r, pc) == run' = [run EXCEPT ![r].pc = pc]

Finish(r) == run' = [run EXCEPT ![r] = IdleRun]

Begin(r) ==
    /\ run[r].pc = "idle"
    /\ run' = [run EXCEPT ![r].pc = "list", ![r].since = cursor]
    /\ UNCHANGED <<chain, events, cursor, jarRow, donorRow, named, unread>>

\* getSignaturesForAddress(program).
ListProgram(r) ==
    /\ run[r].pc = "list"
    /\ run' = [run EXCEPT ![r].pc = "phase1",
                          ![r].sigs = {i \in DOMAIN chain : i > run[r].since
                                                /\ chain[i].kind # "direct"}]
    /\ UNCHANGED <<chain, events, cursor, jarRow, donorRow, named, unread>>

\* Listed transactions are taken oldest first.
Current(r) == Min(run[r].sigs)
Later(r) == run[r].sigs \ {Current(r)}

\* getTransaction answers null: the transaction is passed over.
LoseRead(r) ==
    /\ run[r].pc \in {"phase1", "phase2"}
    /\ run[r].sigs # {}
    /\ Current(r) \in Unreadable
    /\ run' = [run EXCEPT ![r].sigs = Later(r)]
    /\ unread' = unread \union {Current(r)}
    /\ UNCHANGED <<chain, events, cursor, jarRow, donorRow, named>>

Insert(r) ==
    /\ run[r].pc = "phase1"
    /\ run[r].sigs # {}
    /\ events' = events \union {Current(r)}
    /\ run' = IF IsNewEvent(Current(r))
              THEN [run EXCEPT ![r].pc = "apply", ![r].last = Current(r)]
              ELSE [run EXCEPT ![r].sigs = Later(r), ![r].last = Current(r)]
    /\ UNCHANGED <<chain, cursor, jarRow, donorRow, named, unread>>

\* The first write an event leads to; a contribution has a second one.
Apply(r) ==
    LET tx == chain[Current(r)]
    IN  /\ run[r].pc = "apply"
        /\ jarRow' = CASE tx.kind = "create" -> UpsertJar(jarRow)
                       [] tx.kind = "contribute" ->
                             ApplyContributeDelta(jarRow, tx)
                       [] tx.kind = "withdraw" ->
                             MarkJarStatus(jarRow, "withdrawn")
                       [] tx.kind = "cancel" ->
                             MarkJarStatus(jarRow, "cancelled")
                       [] OTHER -> jarRow
        /\ donorRow' = IF tx.kind = "refund"
                       THEN [donorRow EXCEPT ![tx.donor] = MarkRefunded(@)]
                       ELSE donorRow
        /\ run' = IF tx.kind = "contribute"
                  THEN [run EXCEPT ![r].pc = "readDonor"]
                  ELSE [run EXCEPT ![r].pc = "phase1", ![r].sigs = Later(r)]
        /\ UNCHANGED <<chain, events, cursor, named, unread>>

\* applyContribution reads the donor's row and writes it in a second step.
ReadDonor(r) ==
    LET row == donorRow[DonorOf(Current(r))]
    IN  /\ run[r].pc = "readDonor"
        /\ run' = [run EXCEPT ![r].pc = "writeDonor",
                              ![r].isNew = ~row.exists, ![r].seen = row.amount]
        /\ UNCHANGED <<chain, events, cursor, jarRow, donorRow, named, unread>>

\* Inserting a row that has come to exist fails and ends the run.
WriteDonor(r) ==
    LET d == DonorOf(Current(r))
        clash == run[r].isNew /\ donorRow[d].exists
    IN  /\ run[r].pc = "writeDonor"
        /\ donorRow' = IF clash THEN donorRow
                       ELSE [donorRow EXCEPT ![d] =
                               [ exists |-> TRUE, refunded |-> FALSE,
                                 amount |-> run[r].seen
                                     + AmountOf(Current(r)) ]]
        /\ IF clash THEN Finish(r)
           ELSE IF run[r].direct THEN Goto(r, "readTotal")
           ELSE run' = [run EXCEPT ![r].pc = "phase1", ![r].sigs = Later(r)]
        /\ UNCHANGED <<chain, events, cursor, jarRow, named, unread>>

\* Mutation: everything on the chain is taken as processed.
CursorAtTip(r) == Len(chain)

\* The newest transaction phase 1 read, if it read any.
NextCursor(r) == IF run[r].last = 0 THEN cursor ELSE run[r].last

SaveCursor(r) ==
    /\ run[r].pc = "phase1"
    /\ run[r].sigs = {}
    /\ cursor' = NextCursor(r)
    /\ Goto(r, "select")
    /\ UNCHANGED <<chain, events, jarRow, donorRow, named, unread>>

\* Phase 2 looks at active jars only.
SelectActive(r) ==
    /\ run[r].pc = "select"
    /\ IF jarRow.status = "active"
       THEN run' = [run EXCEPT ![r].pc = "listDirect",
                               ![r].since = jarRow.lastDirectSig]
       ELSE Finish(r)
    /\ UNCHANGED <<chain, events, cursor, jarRow, donorRow, named, unread>>

\* getSignaturesForAddress(jar).
ListDirect(r) ==
    /\ run[r].pc = "listDirect"
    /\ IF run[r].since = Len(chain)
       THEN Finish(r)
       ELSE run' = [run EXCEPT ![r].pc = "phase2", ![r].direct = TRUE,
                               ![r].last = Len(chain),
                               ![r].sigs = run[r].since + 1 .. Len(chain)]
    /\ UNCHANGED <<chain, events, cursor, jarRow, donorRow, named, unread>>

\* The transfers to the jar in a transaction, inner instructions included, are
\* recognised by their accounts, which must be listed beside the parsed form.
\* The program's own contributions look like gifts too.
HasTransfer(i) == ListsAccounts /\ chain[i].kind \in {"direct", "contribute"}

InsertDirect(r) ==
    /\ run[r].pc = "phase2"
    /\ run[r].sigs # {}
    /\ IF HasTransfer(Current(r)) /\ IsNewEvent(Current(r))
       THEN Goto(r, "readDonor")
       ELSE run' = [run EXCEPT ![r].sigs = Later(r)]
    /\ events' = IF HasTransfer(Current(r)) THEN events \union {Current(r)}
                 ELSE events
    /\ UNCHANGED <<chain, cursor, jarRow, donorRow, named, unread>>

\* incrementJarTotal reads the totals and writes them in a second step.
ReadTotal(r) ==
    /\ run[r].pc = "readTotal"
    /\ run' = [run EXCEPT ![r].pc = "writeTotal", ![r].seenRow = jarRow]
    /\ UNCHANGED <<chain, events, cursor, jarRow, donorRow, named, unread>>

WriteTotal(r) ==
    LET seen == run[r].seenRow
    IN  /\ run[r].pc = "writeTotal"
        /\ jarRow' = [jarRow EXCEPT
                        !.total = seen.total + AmountOf(Current(r)),
                        !.contributors = seen.contributors
                            + IF run[r].isNew THEN 1 ELSE 0]
        /\ run' = [run EXCEPT ![r].pc = "phase2", ![r].sigs = Later(r)]
        /\ UNCHANGED <<chain, events, cursor, donorRow, named, unread>>

\* The newest transaction of the list.
NextDirectSig(r) == run[r].last

SaveDirectSig(r) ==
    /\ run[r].pc = "phase2"
    /\ run[r].sigs = {}
    /\ jarRow' = UpdateJar(jarRow, [jarRow EXCEPT
                                     !.lastDirectSig = NextDirectSig(r)])
    /\ Finish(r)
    /\ UNCHANGED <<chain, events, cursor, donorRow, named, unread>>

\* A failed statement or RPC call throws out of the run; so does its death.
Crash(r) ==
    /\ Crashes
    /\ run[r].pc # "idle"
    /\ Finish(r)
    /\ UNCHANGED <<chain, events, cursor, jarRow, donorRow, named, unread>>

\* recordDonorName, once the relay's contribution landed: a placeholder row
\* with the amount, or nothing but the name when there is a row.
RecordDonorName(d) ==
    /\ d \in Relayed \ named
    /\ GiftsOf(d, {"contribute"}) # {}
    /\ named' = named \union {d}
    /\ donorRow' = IF donorRow[d].exists THEN donorRow
                   ELSE [donorRow EXCEPT ![d] =
                           [ exists |-> TRUE, refunded |-> FALSE,
                             amount |-> Given(d, {"contribute"}) ]]
    /\ UNCHANGED <<chain, events, cursor, jarRow, run, unread>>

---------------------------------------------------------------------------
(* What a jar's page lists of its donors.                                  *)

ListContributorsForJar == {d \in Donors : donorRow[d].exists}

\* A jar is found by its short link, or by its row.
ContributorsAnswer(linked) ==
    {d \in ListContributorsForJar : linked \/ jarRow.status # "none"}

\* A line per row, of refunded donors too.  The limit of fifty is left out.
Contributors(linked) ==
    {[donor |-> d, amount |-> donorRow[d].amount] : d \in ContributorsAnswer(linked)}

---------------------------------------------------------------------------

ChainNext ==
    \/ ChainCreate \/ ChainCancel
    \/ \E amount \in Amounts : ChainWithdraw(amount)
    \/ \E d \in Donors :
          \/ \E amount \in Amounts : ChainContribute(d, amount)
          \/ ChainRefund(d)
    \/ \E transfers \in DirectGifts : ChainDirect(transfers)

\* What a run does next, by itself.
Proceed(r) ==
    \/ ListProgram(r) \/ Insert(r) \/ Apply(r) \/ ReadDonor(r) \/ WriteDonor(r)
    \/ SaveCursor(r) \/ SelectActive(r) \/ ListDirect(r) \/ InsertDirect(r)
    \/ ReadTotal(r) \/ WriteTotal(r) \/ SaveDirectSig(r)

Next ==
    \/ ChainNext
    \/ \E r \in Runs : Begin(r) \/ Proceed(r) \/ LoseRead(r) \/ Crash(r)
    \/ \E d \in Relayed : RecordDonorName(d)

Spec == Init /\ [][Next]_vars

\* The cron trigger fires every minute, and a run that can go on does.
FairSpec ==
    /\ Spec
    /\ \A r \in Runs : WF_vars(Begin(r)) /\ WF_vars(Proceed(r))

---------------------------------------------------------------------------
(* Properties.                                                             *)

\* Whatever runs overlap, die or read stale rows, a wallet's row shows no more
\* than was given through the program by it, or directly in the transactions in
\* which it sent the most: every transaction counts for one donor and at most
\* once, also when it is met again by the other phase or by a run that starts
\* over.  (Others' parts of such a transaction count as its own; the relay's
\* placeholder row counts a card payment once more.)
DonorNeverOverstated ==
    \A d \in Donors \ Relayed :
        donorRow[d].amount <= Given(d, {"contribute", "direct"})

\* The cursors never run ahead of the work: what lies behind them was
\* recorded, or could not be read by some run, although a run saves its cursor
\* only at the end, runs overlap and the slower one may move a cursor back.
NothingBehindCursors ==
    /\ \A i \in 1 .. cursor :
          chain[i].kind # "direct" => i \in events \union unread
    /\ \A i \in 1 .. jarRow.lastDirectSig :
          HasTransfer(i) => i \in events \union unread

\* A jar the cache shows as withdrawn or cancelled is never shown as active
\* again, although replaying its creation would reset the row.
StatusNeverReopens ==
    [][ jarRow.status \in {"withdrawn", "cancelled"} =>
            jarRow'.status = jarRow.status ]_vars

Read(kind) == \E i \in DOMAIN chain : chain[i].kind = kind /\ i \notin unread

Counted(d) == Worth(GiftsOf(d, {"contribute"}) \ unread)

\* Runs that neither overlap nor die bring every contribution made through
\* the program into the list of contributors, whichever way the jar is found,
\* and the jar's end into the cache, but for the transactions that could not be
\* read when they were listed.
CatchesUp ==
    <>[] /\ \A d \in Donors, linked \in BOOLEAN :
               Counted(d) > 0 /\ (linked \/ Read("create")) =>
                   \E line \in Contributors(linked) :
                       line.donor = d /\ line.amount >= Counted(d)
         /\ Read("create") /\ Read("cancel") => jarRow.status = "cancelled"
         /\ Read("create") /\ Read("withdraw") => jarRow.status = "withdrawn"
============================================================================
