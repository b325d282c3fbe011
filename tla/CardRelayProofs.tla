--------------------------- MODULE CardRelayProofs ---------------------------
(***************************************************************************)
(* Proofs about the card relay, for any number of deposits and overlapping *)
(* requests, any faults, and any number of repeated webhooks.              *)
(*                                                                         *)
(* The inductive invariant says that whatever a request has read, and the  *)
(* change it is about to make, are still backed by the chain when it acts  *)
(* on them: that a gift landed and that somebody paid are facts that never *)
(* stop being true, so a stale copy of the row claims nothing false.       *)
(*                                                                         *)
(* The second half is about deposits that are not disturbed: how often a   *)
(* gift is made of one, and that the relay implements DepositLife.         *)
(***************************************************************************)
EXTENDS CardRelay, TLAPS

Claimed == {"funded", "contributed"}

\* A row r of deposit d, with the gifts g that landed and the set paid.
RowSound(r, d, g, paid) ==
    /\ r \in Row
    /\ r.status = "contributed" => d \in g
    /\ r.status \in Claimed => d \in paid

\* A request k.
Sound(k, g, paid) ==
    /\ k \in Worker
    /\ k.pc \notin {"idle", "next"} => k.dep \in Deposits
    /\ k.pc \in {"read", "write"} /\ k.patch.status = "contributed" =>
          k.dep \in g
    /\ k.pc \in {"read", "write"} /\ k.patch.status \in Claimed =>
          k.dep \in paid
    /\ k.pc \in {"read", "write"} /\ k.after = "name" => k.dep \in paid
    /\ k.pc = "write" => RowSound(k.seen, k.dep, g, paid)
    /\ k.pc \in {"prefund", "topUp", "give", "name"} => k.dep \in paid
    /\ \A row \in k.rows : row[1] \in paid

PaidFor == {d \in Deposits : Paid(d)}

LedgersOK ==
    /\ jarOpen \in BOOLEAN
    /\ deposit \in [Deposits -> Row]
    /\ reported \in [Deposits -> SUBSET {"PROCESSING", "COMPLETED", "FAILED"}]
    /\ wallet \in [Deposits -> Nat]
    /\ given \in [Deposits -> Nat]
    /\ tries \in [Deposits -> 0 .. MAX_ATTEMPTS + 1]
    /\ treasury \in Nat
    /\ advanced \in [Deposits -> Nat]
    /\ webhooks \in 0 .. MaxWebhooks
    /\ failedGifts \subseteq Deposits

\* The deposits that may be marked contributed.
Granted == {d \in Deposits : given[d] > 0 \/ d \in failedGifts}

RelayInv ==
    /\ LedgersOK
    /\ worker \in [Workers -> Worker]
    /\ \A d \in Deposits : RowSound(deposit[d], d, Granted, PaidFor)
    /\ \A d \in Deposits : tries[d] > 0 => d \in PaidFor
    /\ \A w \in Workers : Sound(worker[w], Granted, PaidFor)

---------------------------------------------------------------------------

\* Facts that hold stay true as gifts land and payments arrive.
LEMMA SoundGrows ==
    ASSUME NEW g, NEW g2, NEW paid, NEW paid2,
           paid \subseteq paid2,
           g \subseteq g2
    PROVE  /\ \A k : Sound(k, g, paid) => Sound(k, g2, paid2)
           /\ \A r, d : d \in Deposits /\ RowSound(r, d, g, paid) =>
                 RowSound(r, d, g2, paid2)
<1>1. ASSUME NEW r, NEW d \in Deposits, RowSound(r, d, g, paid)
      PROVE  RowSound(r, d, g2, paid2)
  BY <1>1 DEF RowSound
<1>2. ASSUME NEW k, Sound(k, g, paid)
      PROVE  Sound(k, g2, paid2)
  <2>1. k.pc = "write" => RowSound(k.seen, k.dep, g2, paid2)
    BY <1>1, <1>2 DEF Sound
  <2>2. QED
    BY <1>2, <2>1 DEF Sound
<1>3. QED
  BY <1>1, <1>2

LEMMA IdleSound == ASSUME NEW g, NEW paid PROVE Sound(Idle, g, paid)
  BY DEF Sound, Idle, Worker, NoPatch, Patch, NoRow, Row, Statuses

\* Calling setDepositStatus with a change that is backed.
Calling(k, d, patch, after) ==
    [k EXCEPT !.pc = "read", !.dep = d, !.patch = patch, !.after = after]

\* What such a request knows.
LEMMA CallingFields ==
    ASSUME NEW k \in Worker, NEW d, NEW patch, NEW after, NEW c,
           c = Calling(k, d, patch, after)
    PROVE  /\ c.pc = "read" /\ c.dep = d /\ c.rows = k.rows
           /\ c.attempts = k.attempts /\ c.patch = patch /\ c.after = after
  BY DEF Calling, Worker

LEMMA CallSound ==
    ASSUME NEW k, NEW k2, NEW g, NEW paid, NEW d \in Deposits,
           NEW patch \in Patch, NEW after \in {"idle", "next", "name"},
           Sound(k, g, paid),
           k2 = Calling(k, d, patch, after),
           patch.status = "contributed" => d \in g,
           patch.status \in Claimed => d \in paid,
           after = "name" => d \in paid
    PROVE  Sound(k2, g, paid)
<1>1. k \in Worker /\ \A row \in k.rows : row[1] \in paid
  BY DEF Sound
<1>2. k2 = [ pc |-> "read", dep |-> d, rows |-> k.rows,
             attempts |-> k.attempts, patch |-> patch, seen |-> k.seen,
             after |-> after ]
  BY <1>1 DEF Worker, Calling
<1>3. k2 \in Worker
  BY <1>1, <1>2 DEF Worker
<1>4. k2.pc = "read" /\ k2.dep = d /\ k2.patch = patch /\ k2.rows = k.rows
      /\ k2.after = after
  BY <1>2
<1>5. QED
  BY <1>1, <1>3, <1>4 DEF Sound

\* A request that moves on without touching what it knows.
LEMMA MoveSound ==
    ASSUME NEW k, NEW k2, NEW g, NEW paid,
           NEW pc \in {"prefund", "topUp", "give", "name", "next"},
           Sound(k, g, paid),
           k2 = [k EXCEPT !.pc = pc],
           pc # "next" => k.dep \in paid /\ k.dep \in Deposits
    PROVE  Sound(k2, g, paid)
<1>1. k \in Worker /\ \A row \in k.rows : row[1] \in paid
  BY DEF Sound
<1>2. k2 = [ pc |-> pc, dep |-> k.dep, rows |-> k.rows,
             attempts |-> k.attempts, patch |-> k.patch, seen |-> k.seen,
             after |-> k.after ]
  BY <1>1 DEF Worker
<1>3. k2 \in Worker
  BY <1>1, <1>2 DEF Worker
<1>4. k2.pc = pc /\ k2.dep = k.dep /\ k2.rows = k.rows
  BY <1>2
<1>5. QED
  BY <1>1, <1>3, <1>4 DEF Sound

\* One worker, and ledgers that only grow in what matters.
Grows ==
    /\ PaidFor \subseteq PaidFor'
    /\ Granted \subseteq Granted'

LEMMA OneWorkerMoves ==
    ASSUME RelayInv, LedgersOK', Grows, NEW w \in Workers,
           worker' = [worker EXCEPT ![w] = worker'[w]],
           Sound(worker'[w], Granted', PaidFor'),
           \A d \in Deposits : RowSound(deposit'[d], d, Granted', PaidFor'),
           \A d \in Deposits : tries'[d] > 0 => d \in PaidFor'
    PROVE  RelayInv'
<1>1. worker'[w] \in Worker
  BY DEF Sound
<1>2. worker' \in [Workers -> Worker]
  BY <1>1 DEF RelayInv
<1>3. \A x \in Workers : Sound(worker'[x], Granted', PaidFor')
  <2> SUFFICES ASSUME NEW x \in Workers PROVE Sound(worker'[x], Granted', PaidFor')
    OBVIOUS
  <2>1. CASE x = w
    BY <2>1
  <2>2. CASE x # w
    <3>1. worker'[x] = worker[x] /\ Sound(worker[x], Granted, PaidFor)
      BY <2>2 DEF RelayInv
    <3>2. QED
      BY <3>1, SoundGrows DEF Grows
  <2>3. QED
    BY <2>1, <2>2
<1>4. QED
  BY <1>2, <1>3 DEF RelayInv

\* No worker, and ledgers that only grow.
LEMMA NoWorkerMoves ==
    ASSUME RelayInv, LedgersOK', Grows, worker' = worker, deposit' = deposit,
           tries' = tries
    PROVE  RelayInv'
<1>1. \A d \in Deposits : RowSound(deposit'[d], d, Granted', PaidFor')
  BY SoundGrows DEF RelayInv, Grows
<1>2. \A w \in Workers : Sound(worker'[w], Granted', PaidFor')
  BY SoundGrows DEF RelayInv, Grows
<1>3. \A d \in Deposits : tries'[d] > 0 => d \in PaidFor'
  BY DEF RelayInv, Grows
<1>4. QED
  BY <1>1, <1>2, <1>3 DEF RelayInv

LEMMA RowsStaySound ==
    ASSUME RelayInv, Grows, deposit' = deposit
    PROVE  \A d \in Deposits : RowSound(deposit'[d], d, Granted', PaidFor')
  BY SoundGrows DEF RelayInv, Grows

---------------------------------------------------------------------------

LEMMA RelayInvInit == Init => RelayInv
<1> SUFFICES ASSUME Init PROVE RelayInv
  OBVIOUS
<1>1. LedgersOK
  BY RelayAssumption DEF Init, LedgersOK, NoRow, Row, Statuses
<1>2. \A w \in Workers : worker[w] = Idle
  BY DEF Init
<1>3. \A w \in Workers : Sound(worker[w], Granted, PaidFor)
  BY <1>2, IdleSound
<1>4. worker \in [Workers -> Worker]
  <2>1. Idle \in Worker
    BY IdleSound DEF Sound
  <2>2. QED
    BY <2>1 DEF Init
<1>5. \A d \in Deposits : RowSound(deposit[d], d, Granted, PaidFor)
  BY DEF Init, RowSound, NoRow, Row, Statuses, Claimed
<1>6. \A d \in Deposits : tries[d] > 0 => d \in PaidFor
  BY DEF Init
<1>7. QED
  BY <1>1, <1>3, <1>4, <1>5, <1>6 DEF RelayInv

\* The chain, the donor and Transak.
LEMMA EnvironmentPreserves ==
    ASSUME RelayInv,
           \/ JarCloses
           \/ \E d \in Deposits :
                 \/ \E asset \in {"sol", "usdc"} : InitDeposit(d, asset)
                 \/ OrderProcesses(d)
                 \/ OrderFails(d)
                 \/ \E sent \in {0, 1} : OrderCompletes(d, sent)
    PROVE  RelayInv'
<1> USE DEF LedgersOK
<1>0. LedgersOK
  BY DEF RelayInv
<1>1. CASE JarCloses
  <2>1. LedgersOK' /\ Grows
    BY <1>0, <1>1 DEF JarCloses, Grows, PaidFor, Paid, Granted
  <2>2. QED
    BY <1>1, <2>1, NoWorkerMoves DEF JarCloses
<1>2. ASSUME NEW d \in Deposits, NEW asset \in {"sol", "usdc"},
             InitDeposit(d, asset)
      PROVE  RelayInv'
  <2> DEFINE row == [ NoRow EXCEPT !.status = "pending", !.asset = asset ]
  <2>1. row \in Row /\ row.status = "pending"
    BY DEF NoRow, Row, Statuses
  <2>2. LedgersOK'
    BY <1>0, <1>2, <2>1 DEF InitDeposit
  <2>3. PaidFor' = PaidFor /\ Granted' = Granted
    BY <1>2 DEF InitDeposit, PaidFor, Paid, Granted
  <2>4. \A e \in Deposits : RowSound(deposit'[e], e, Granted', PaidFor')
    <3>1. RowSound(row, d, Granted, PaidFor)
      BY <2>1 DEF RowSound, Claimed
    <3>2. \A e \in Deposits : deposit'[e] = IF e = d THEN row ELSE deposit[e]
      BY <1>0, <1>2 DEF InitDeposit
    <3>3. QED
      BY <3>1, <3>2, <2>3 DEF RelayInv
  <2>5. QED
    BY <1>2, <2>2, <2>3, <2>4 DEF InitDeposit, RelayInv
<1>3. ASSUME NEW d \in Deposits, OrderProcesses(d)
      PROVE  RelayInv'
  <2>1. LedgersOK'
    BY <1>0, <1>3 DEF OrderProcesses
  <2>2. Grows
    BY <1>0, <1>3 DEF OrderProcesses, Grows, PaidFor, Paid, Granted
  <2>3. QED
    BY <1>3, <2>1, <2>2, NoWorkerMoves DEF OrderProcesses
<1>4. ASSUME NEW d \in Deposits, OrderFails(d)
      PROVE  RelayInv'
  <2>1. LedgersOK'
    BY <1>0, <1>4 DEF OrderFails
  <2>2. Grows
    BY <1>0, <1>4 DEF OrderFails, Grows, PaidFor, Paid, Granted
  <2>3. QED
    BY <1>4, <2>1, <2>2, NoWorkerMoves DEF OrderFails
<1>5. ASSUME NEW d \in Deposits, NEW sent \in {0, 1}, OrderCompletes(d, sent)
      PROVE  RelayInv'
  <2>1. LedgersOK'
    BY <1>0, <1>5 DEF OrderCompletes
  <2>2. Grows
    BY <1>0, <1>5 DEF OrderCompletes, Grows, PaidFor, Paid, Granted
  <2>3. QED
    BY <1>5, <2>1, <2>2, NoWorkerMoves DEF OrderCompletes
<1>6. QED
  BY <1>1, <1>2, <1>3, <1>4, <1>5

---------------------------------------------------------------------------
(* The steps of a request.  Each moves one worker.                         *)

\* Nothing the invariant's facts depend on has changed.
Calm ==
    /\ LedgersOK'
    /\ given' = given /\ reported' = reported /\ advanced' = advanced
    /\ failedGifts' = failedGifts
    /\ deposit' = deposit /\ tries' = tries

LEMMA CalmGrows == Calm => Grows /\ PaidFor' = PaidFor /\ Granted' = Granted
  BY DEF Calm, Grows, PaidFor, Paid, Granted

LEMMA CalmWorkerMoves ==
    ASSUME RelayInv, Calm, NEW w \in Workers,
           worker' = [worker EXCEPT ![w] = worker'[w]],
           Sound(worker'[w], Granted, PaidFor)
    PROVE  RelayInv'
<1>1. Grows /\ PaidFor' = PaidFor /\ LedgersOK' /\ Granted' = Granted
      /\ deposit' = deposit /\ tries' = tries
  BY CalmGrows DEF Calm
<1>2. \A d \in Deposits : RowSound(deposit'[d], d, Granted', PaidFor')
  BY <1>1, RowsStaySound
<1>3. \A d \in Deposits : tries'[d] > 0 => d \in PaidFor'
  BY <1>1 DEF RelayInv
<1>4. Sound(worker'[w], Granted', PaidFor')
  BY <1>1
<1>5. QED
  BY <1>1, <1>2, <1>3, <1>4, OneWorkerMoves

\* How Call, and the other assignments to worker, move one worker.
LEMMA CallMoves ==
    ASSUME NEW w \in Workers, NEW d, NEW patch, NEW after,
           worker \in [Workers -> Worker], Call(w, d, patch, after)
    PROVE  /\ worker' = [worker EXCEPT ![w] = worker'[w]]
           /\ worker'[w] = Calling(worker[w], d, patch, after)
  BY DEF Call, Calling

LEMMA PatchesTyped ==
    /\ Funded \in Patch /\ Funded.status = "funded"
    /\ Contributed \in Patch /\ Contributed.status = "contributed"
    /\ \A n : /\ Retry(n) \in Patch
              /\ Retry(n).status \in {"funded", "failed"}
  BY DEF Funded, Contributed, Retry, Patch, NoPatch, Statuses

LEMMA ReadRowPreserves ==
    ASSUME RelayInv, NEW w \in Workers, ReadRow(w)
    PROVE  RelayInv'
<1> DEFINE k == worker[w]
           k2 == worker'[w]
<1>1. Calm
  BY DEF RelayInv, LedgersOK, ReadRow, Calm
<1>2. k \in Worker /\ k.dep \in Deposits /\ Sound(k, Granted, PaidFor)
      /\ k.pc = "read"
  BY DEF RelayInv, Sound, ReadRow
<1>3. /\ worker' = [worker EXCEPT ![w] = k2]
      /\ k2 = [k EXCEPT !.pc = "write", !.seen = deposit[k.dep]]
  BY DEF ReadRow, RelayInv
<1>4. k2 = [ pc |-> "write", dep |-> k.dep, rows |-> k.rows,
             attempts |-> k.attempts, patch |-> k.patch,
             seen |-> deposit[k.dep], after |-> k.after ]
  BY <1>2, <1>3 DEF Worker
<1>5. RowSound(deposit[k.dep], k.dep, Granted, PaidFor)
  BY <1>2 DEF RelayInv
<1>6. k2 \in Worker
  BY <1>2, <1>4, <1>5 DEF Worker, RowSound
<1>7. Sound(k2, Granted, PaidFor)
  <2>1. /\ k2.pc = "write" /\ k2.dep = k.dep /\ k2.rows = k.rows
        /\ k2.patch = k.patch /\ k2.seen = deposit[k.dep]
        /\ k2.after = k.after
    BY <1>4
  <2>2. QED
    BY <1>2, <1>5, <1>6, <2>1 DEF Sound
<1>8. QED
  BY <1>1, <1>3, <1>7, CalmWorkerMoves

\* The row written is the row read with the patch: both were backed.
LEMMA PatchedSound ==
    ASSUME NEW r, NEW patch \in Patch, NEW d, NEW g, NEW paid,
           RowSound(r, d, g, paid),
           patch.status = "contributed" => d \in g,
           patch.status \in Claimed => d \in paid
    PROVE  RowSound(Patched(r, patch), d, g, paid)
<1> DEFINE status == IF patch.status = "keep" THEN r.status ELSE patch.status
           r2 == [ status |-> status, asset |-> r.asset,
                   attempts |-> IF patch.bump THEN r.attempts + 1
                                ELSE r.attempts,
                   signed |-> r.signed \/ patch.signed ]
<1>1. r \in Row
  BY DEF RowSound
<1>3. Patched(r, patch) = r2
  BY DEF Patched
<1>4. r2 \in Row
  <2>1. patch.status \in Statuses \union {"keep"}
    BY DEF Patch
  <2>2. status \in Statuses \union {"none"}
    BY <1>1, <2>1 DEF Row
  <2>3. r.attempts \in Nat /\ r.asset \in {"sol", "usdc"}
    BY <1>1 DEF Row
  <2>4. (r.signed \/ patch.signed) \in BOOLEAN
    OBVIOUS
  <2>5. (IF patch.bump THEN r.attempts + 1 ELSE r.attempts) \in Nat
    BY <2>3
  <2>6. QED
    BY <2>2, <2>3, <2>4, <2>5 DEF Row
<1>5. QED
  BY <1>3, <1>4 DEF RowSound, Claimed

LEMMA WriteRowPreserves ==
    ASSUME RelayInv, NEW w \in Workers, WriteRow(w)
    PROVE  RelayInv'
<1> DEFINE k == worker[w]
           k2 == worker'[w]
           row == Patched(k.seen, k.patch)
<1>1. k \in Worker /\ k.dep \in Deposits /\ Sound(k, Granted, PaidFor)
      /\ k.pc = "write" /\ k.patch \in Patch
      /\ k.after \in {"idle", "next", "name"}
  BY DEF RelayInv, Sound, WriteRow, Worker
<1>2. RowSound(row, k.dep, Granted, PaidFor)
  BY <1>1, PatchedSound DEF Sound
<1>3. deposit' = [deposit EXCEPT ![k.dep] = row] /\ Granted' = Granted
      /\ PaidFor' = PaidFor /\ tries' = tries
  BY DEF WriteRow, PaidFor, Paid, Granted
<1>4. LedgersOK' /\ Grows
  BY <1>1, <1>2, <1>3 DEF RelayInv, LedgersOK, WriteRow, Grows, RowSound
<1>5. \A d \in Deposits : RowSound(deposit'[d], d, Granted', PaidFor')
  <2>1. \A d \in Deposits : deposit'[d] = IF d = k.dep THEN row ELSE deposit[d]
    BY <1>3 DEF RelayInv, LedgersOK
  <2>2. QED
    BY <1>2, <1>3, <2>1 DEF RelayInv
<1>6. /\ worker' = [worker EXCEPT ![w] = k2]
      /\ k2 = IF k.after = "idle" THEN Idle ELSE [k EXCEPT !.pc = k.after]
  BY DEF WriteRow, RelayInv
<1>7. Sound(k2, Granted, PaidFor)
  <2>1. CASE k.after = "idle"
    BY <1>6, <2>1, IdleSound
  <2>2. CASE k.after # "idle"
    <3>1. k2 = [k EXCEPT !.pc = k.after] /\ k.after \in {"next", "name"}
      BY <1>1, <1>6, <2>2
    <3>2. k.after = "name" => k.dep \in PaidFor
      BY <1>1 DEF Sound
    <3>3. QED
      BY <1>1, <3>1, <3>2, MoveSound
  <2>3. QED
    BY <2>1, <2>2
<1>8. \A d \in Deposits : tries'[d] > 0 => d \in PaidFor'
  BY <1>3 DEF RelayInv
<1>9. QED
  BY <1>3, <1>4, <1>5, <1>6, <1>7, <1>8, OneWorkerMoves

LEMMA WebhookPreserves ==
    ASSUME RelayInv, NEW w \in Workers, NEW d \in Deposits, NEW status,
           Webhook(w, d, status)
    PROVE  RelayInv'
<1> DEFINE patch == WebhookPatch(status, deposit[d].status)
<1>1. Calm
  BY RelayAssumption DEF RelayInv, LedgersOK, Webhook, Calm
<1>2. Sound(worker[w], Granted, PaidFor) /\ status \in reported[d]
      /\ RowSound(deposit[d], d, Granted, PaidFor)
  BY DEF RelayInv, Webhook
<1>3. patch \in Patch
  BY DEF WebhookPatch, NoPatch, Patch, Statuses
<1>4. patch.status = "contributed" => d \in Granted
  BY <1>2 DEF WebhookPatch, NoPatch, RowSound
<1>5. patch.status \in Claimed => d \in PaidFor
  BY <1>2 DEF WebhookPatch, NoPatch, PaidFor, Paid, Claimed
<1>6. /\ worker' = [worker EXCEPT ![w] = worker'[w]]
      /\ worker'[w] = Calling(worker[w], d, patch, "idle")
  BY CallMoves DEF Webhook, RelayInv
<1>7. Sound(worker'[w], Granted, PaidFor)
  BY <1>2, <1>3, <1>4, <1>5, <1>6, CallSound
<1>8. QED
  BY <1>1, <1>6, <1>7, CalmWorkerMoves

LEMMA DevFundPreserves ==
    ASSUME RelayInv, NEW w \in Workers, NEW d \in Deposits, DevFund(w, d)
    PROVE  RelayInv'
<1> DEFINE k == worker[w]
           k2 == worker'[w]
<1>1. Calm
  BY DEF RelayInv, LedgersOK, DevFund, Calm
<1>2. k \in Worker /\ Sound(k, Granted, PaidFor)
  BY DEF RelayInv, Sound
<1>3. /\ worker' = [worker EXCEPT ![w] = k2]
      /\ k2 = [k EXCEPT !.pc = "pay", !.dep = d]
  BY DEF DevFund, RelayInv
<1>4. k2 = [ pc |-> "pay", dep |-> d, rows |-> k.rows,
             attempts |-> k.attempts, patch |-> k.patch, seen |-> k.seen,
             after |-> k.after ]
  BY <1>2, <1>3 DEF Worker
<1>5. k2 \in Worker
  BY <1>2, <1>4 DEF Worker
<1>6. Sound(k2, Granted, PaidFor)
  <2>1. k2.pc = "pay" /\ k2.dep = d /\ k2.rows = k.rows
    BY <1>4
  <2>2. QED
    BY <1>2, <1>5, <2>1 DEF Sound
<1>7. QED
  BY <1>1, <1>3, <1>6, CalmWorkerMoves

\* A payment of the treasury.
LEMMA Advances ==
    ASSUME RelayInv, NEW d \in Deposits, Advance(d),
           UNCHANGED <<jarOpen, deposit, reported, given, tries, webhooks,
                       failedGifts>>
    PROVE  LedgersOK' /\ Grows /\ d \in PaidFor'
<1>1. LedgersOK'
  BY DEF RelayInv, LedgersOK, Advance
<1>2. \A e \in Deposits : advanced[e] > 0 => advanced'[e] > 0
  BY DEF RelayInv, LedgersOK, Advance
<1>3. advanced'[d] > 0
  BY DEF RelayInv, LedgersOK, Advance
<1>4. QED
  BY <1>1, <1>2, <1>3 DEF Grows, PaidFor, Paid, Granted

\* What remains to show of a step that pays, gives, or does neither.
LEMMA GrowingWorkerMoves ==
    ASSUME RelayInv, LedgersOK', Grows, deposit' = deposit, tries' = tries,
           NEW w \in Workers,
           worker' = [worker EXCEPT ![w] = worker'[w]],
           Sound(worker'[w], Granted', PaidFor')
    PROVE  RelayInv'
<1>1. \A d \in Deposits : RowSound(deposit'[d], d, Granted', PaidFor')
  BY RowsStaySound
<1>2. \A d \in Deposits : tries'[d] > 0 => d \in PaidFor'
  BY DEF RelayInv, Grows
<1>3. QED
  BY <1>1, <1>2, OneWorkerMoves

\* The catch block, after any of the calls of a sweep.
LEMMA CatchSound ==
    ASSUME RelayInv, LedgersOK', Grows, NEW w \in Workers, Catch(w),
           worker[w].pc \in {"prefund", "topUp", "give", "name"}
    PROVE  /\ worker' = [worker EXCEPT ![w] = worker'[w]]
           /\ Sound(worker'[w], Granted', PaidFor')
<1> DEFINE k == worker[w]
           patch == Retry(k.attempts)
<1>1. Sound(k, Granted, PaidFor) /\ k.dep \in Deposits /\ k.dep \in PaidFor
  BY DEF RelayInv, Sound
<1>2. Sound(k, Granted', PaidFor') /\ k.dep \in PaidFor'
  BY <1>1, SoundGrows DEF Grows
<1>3. patch \in Patch /\ patch.status \in {"funded", "failed"}
  BY PatchesTyped
<1>4. /\ worker' = [worker EXCEPT ![w] = worker'[w]]
      /\ worker'[w] = Calling(k, k.dep, patch, "next")
  BY CallMoves DEF Catch, RelayInv
<1>5. patch.status # "contributed"
  BY <1>3
<1>6. QED
  BY <1>1, <1>2, <1>3, <1>4, <1>5, CallSound

LEMMA DevPayPreserves ==
    ASSUME RelayInv, NEW w \in Workers, DevPay(w)
    PROVE  RelayInv'
<1> DEFINE k == worker[w]
<1>1. Sound(k, Granted, PaidFor) /\ k.dep \in Deposits /\ deposit' = deposit
      /\ tries' = tries /\ given' = given /\ worker \in [Workers -> Worker]
  BY DEF RelayInv, Sound, DevPay
<1>2. CASE Advance(k.dep) /\ Call(w, k.dep, Funded, "idle")
  <2>1. LedgersOK' /\ Grows /\ k.dep \in PaidFor'
    BY <1>1, <1>2, Advances DEF DevPay
  <2>2. Sound(k, Granted', PaidFor')
    BY <1>1, <2>1, SoundGrows DEF Grows
  <2>3. /\ worker' = [worker EXCEPT ![w] = worker'[w]]
        /\ worker'[w] = Calling(k, k.dep, Funded, "idle")
    BY <1>1, <1>2, CallMoves
  <2>4. Sound(worker'[w], Granted', PaidFor')
    BY <1>1, <2>1, <2>2, <2>3, CallSound, PatchesTyped
  <2>5. QED
    BY <1>1, <2>1, <2>3, <2>4, GrowingWorkerMoves
<1>3. CASE Advance(k.dep) /\ worker' = [worker EXCEPT ![w] = Idle]
  <2>1. LedgersOK' /\ Grows
    BY <1>1, <1>3, Advances DEF DevPay
  <2>2. worker'[w] = Idle
    BY <1>1, <1>3
  <2>3. Sound(worker'[w], Granted', PaidFor')
    BY <2>2, IdleSound
  <2>4. QED
    BY <1>1, <1>3, <2>1, <2>2, <2>3, GrowingWorkerMoves
<1>4. CASE /\ worker' = [worker EXCEPT ![w] = Idle]
           /\ UNCHANGED <<treasury, wallet, advanced>>
  <2>1. Calm
    BY <1>4 DEF DevPay, Calm, RelayInv, LedgersOK
  <2>2. worker'[w] = Idle
    BY <1>1, <1>4
  <2>3. Sound(worker'[w], Granted, PaidFor)
    BY <2>2, IdleSound
  <2>4. QED
    BY <1>4, <2>1, <2>2, <2>3, CalmWorkerMoves
<1>5. QED
  BY <1>2, <1>3, <1>4 DEF DevPay

LEMMA SweepPreserves ==
    ASSUME RelayInv, NEW w \in Workers, Sweep(w)
    PROVE  RelayInv'
<1> DEFINE k == worker[w]
           k2 == worker'[w]
           rows == {<<d, deposit[d].attempts>> :
                       d \in {x \in Deposits : Selectable(x)}}
<1>1. Calm
  BY DEF RelayInv, LedgersOK, Sweep, Calm
<1>2. k \in Worker /\ Sound(k, Granted, PaidFor)
  BY DEF RelayInv, Sound
<1>3. rows \subseteq Deposits \X Nat
  BY DEF RelayInv, LedgersOK, Row
<1>4. \A row \in rows : row[1] \in PaidFor
  BY DEF RelayInv, RowSound, Selectable, Claimed
<1>5. /\ worker' = [worker EXCEPT ![w] = k2]
      /\ k2 = [k EXCEPT !.pc = "next", !.rows = rows]
  BY DEF Sweep, RelayInv
<1>6. k2 = [ pc |-> "next", dep |-> k.dep, rows |-> rows,
             attempts |-> k.attempts, patch |-> k.patch, seen |-> k.seen,
             after |-> k.after ]
  BY <1>2, <1>5 DEF Worker
<1>7. k2 \in Worker
  BY <1>2, <1>3, <1>6 DEF Worker
<1>8. Sound(k2, Granted, PaidFor)
  <2>1. k2.pc = "next" /\ k2.rows = rows
    BY <1>6
  <2>2. QED
    BY <1>4, <1>7, <2>1 DEF Sound
<1>9. QED
  BY <1>1, <1>5, <1>8, CalmWorkerMoves

LEMMA NextRowPreserves ==
    ASSUME RelayInv, NEW w \in Workers, NextRow(w)
    PROVE  RelayInv'
<1> DEFINE k == worker[w]
           k2 == worker'[w]
<1>1. k \in Worker /\ Sound(k, Granted, PaidFor) /\ worker \in [Workers -> Worker]
  BY DEF RelayInv, Sound
<1>2. CASE worker' = [worker EXCEPT ![w] = Idle] /\ UNCHANGED tries
  <2>1. Calm
    BY <1>2 DEF NextRow, Calm, RelayInv, LedgersOK
  <2>2. k2 = Idle
    BY <1>1, <1>2
  <2>3. Sound(k2, Granted, PaidFor)
    BY <2>2, IdleSound
  <2>4. QED
    BY <1>2, <2>1, <2>2, <2>3, CalmWorkerMoves
<1>3. ASSUME NEW row \in k.rows,
             worker' = [worker EXCEPT ![w].pc = "prefund",
                                      ![w].dep = row[1],
                                      ![w].attempts = row[2],
                                      ![w].rows = @ \ {row}],
             tries' = [tries EXCEPT ![row[1]] =
                         IF @ <= MAX_ATTEMPTS THEN @ + 1 ELSE @]
      PROVE  RelayInv'
  <2>1. row[1] \in Deposits /\ row[2] \in Nat /\ row[1] \in PaidFor
        /\ \A r \in k.rows : r[1] \in PaidFor
    BY <1>1 DEF Sound, Worker
  <2>2. given' = given /\ deposit' = deposit /\ reported' = reported
        /\ advanced' = advanced /\ failedGifts' = failedGifts
    BY DEF NextRow
  <2>3. LedgersOK'
    <3>1. tries' \in [Deposits -> 0 .. MAX_ATTEMPTS + 1]
      BY <1>3, <2>1, RelayAssumption DEF RelayInv, LedgersOK
    <3>2. QED
      BY <3>1 DEF NextRow, RelayInv, LedgersOK
  <2>4. Grows /\ PaidFor' = PaidFor /\ Granted' = Granted
    BY <2>2 DEF Grows, PaidFor, Paid, Granted
  <2>5. \A d \in Deposits : tries'[d] > 0 => d \in PaidFor'
    <3>1. \A d \in Deposits : d # row[1] => tries'[d] = tries[d]
      BY <1>3 DEF RelayInv, LedgersOK
    <3>2. QED
      BY <2>1, <2>4, <3>1 DEF RelayInv
  <2>6. /\ worker' = [worker EXCEPT ![w] = k2]
        /\ k2 = [k EXCEPT !.pc = "prefund", !.dep = row[1],
                          !.attempts = row[2], !.rows = @ \ {row}]
    BY <1>1, <1>3
  <2>7. k2 = [ pc |-> "prefund", dep |-> row[1], rows |-> k.rows \ {row},
               attempts |-> row[2], patch |-> k.patch, seen |-> k.seen,
               after |-> k.after ]
    BY <1>1, <2>6 DEF Worker
  <2>8. k2 \in Worker
    <3>1. k.rows \ {row} \in SUBSET (Deposits \X Nat)
      BY <1>1 DEF Worker
    <3>2. QED
      BY <1>1, <2>1, <2>7, <3>1 DEF Worker
  <2>9. Sound(k2, Granted', PaidFor')
    <3>1. k2.pc = "prefund" /\ k2.dep = row[1] /\ k2.rows \subseteq k.rows
      BY <2>7
    <3>2. QED
      BY <2>1, <2>2, <2>4, <2>8, <3>1 DEF Sound
  <2>10. \A d \in Deposits : RowSound(deposit'[d], d, Granted', PaidFor')
    BY <2>2, <2>4, RowsStaySound
  <2>11. QED
    BY <2>3, <2>4, <2>5, <2>6, <2>9, <2>10, OneWorkerMoves
<1>4. QED
  BY <1>2, <1>3 DEF NextRow

LEMMA PrefundPreserves ==
    ASSUME RelayInv, NEW w \in Workers, Prefund(w)
    PROVE  RelayInv'
<1> DEFINE k == worker[w]
           pc == IF Short(k.dep) THEN "topUp" ELSE "give"
<1>1. Calm
  BY DEF RelayInv, LedgersOK, Prefund, Calm
<1>2. Sound(k, Granted, PaidFor) /\ k.dep \in PaidFor /\ k.dep \in Deposits
  BY DEF RelayInv, Sound, Prefund
<1>3. /\ worker' = [worker EXCEPT ![w] = worker'[w]]
      /\ worker'[w] = [k EXCEPT !.pc = pc]
  BY DEF Prefund, RelayInv
<1>4. pc \in {"topUp", "give"}
  OBVIOUS
<1>5. Sound(worker'[w], Granted, PaidFor)
  BY <1>2, <1>3, <1>4, MoveSound
<1>6. QED
  BY <1>1, <1>3, <1>5, CalmWorkerMoves

LEMMA TopUpPreserves ==
    ASSUME RelayInv, NEW w \in Workers, TopUp(w)
    PROVE  RelayInv'
<1> DEFINE k == worker[w]
<1>1. Sound(k, Granted, PaidFor) /\ k.dep \in Deposits /\ k.dep \in PaidFor
      /\ k.pc = "topUp" /\ deposit' = deposit /\ tries' = tries
      /\ given' = given /\ worker \in [Workers -> Worker]
  BY DEF RelayInv, Sound, TopUp
<1>2. CASE Advance(k.dep)
  <2>1. LedgersOK' /\ Grows /\ k.dep \in PaidFor'
    BY <1>1, <1>2, Advances DEF TopUp
  <2>2. Sound(k, Granted', PaidFor')
    BY <1>1, <2>1, SoundGrows DEF Grows
  <2>3. CASE worker' = [worker EXCEPT ![w].pc = "give"]
    <3>1. /\ worker' = [worker EXCEPT ![w] = worker'[w]]
          /\ worker'[w] = [k EXCEPT !.pc = "give"]
      BY <1>1, <2>3
    <3>2. Sound(worker'[w], Granted', PaidFor')
      BY <1>1, <2>1, <2>2, <3>1, MoveSound
    <3>3. QED
      BY <1>1, <2>1, <3>1, <3>2, GrowingWorkerMoves
  <2>4. CASE Catch(w)
    BY <1>1, <2>1, <2>4, CatchSound, GrowingWorkerMoves
  <2>5. CASE UNCHANGED <<treasury, wallet, advanced>>
    <3>1. FALSE
      BY <1>2, <2>5 DEF Advance, RelayInv, LedgersOK
    <3>2. QED
      BY <3>1
  <2>6. QED
    BY <2>3, <2>4, <2>5 DEF TopUp
<1>3. CASE Catch(w) /\ UNCHANGED <<treasury, wallet, advanced>>
  <2>1. Calm
    BY <1>3 DEF TopUp, Calm, RelayInv, LedgersOK
  <2>2. LedgersOK' /\ Grows
    BY <2>1, CalmGrows DEF Calm
  <2>3. QED
    BY <1>1, <1>3, <2>2, CatchSound, GrowingWorkerMoves
<1>4. QED
  BY <1>2, <1>3 DEF TopUp

LEMMA GivePreserves ==
    ASSUME RelayInv, NEW w \in Workers, Give(w)
    PROVE  RelayInv'
<1> DEFINE k == worker[w]
<1>0. PICK d \in Deposits : d = k.dep
  BY DEF RelayInv, Sound, Give
<1>1. Sound(k, Granted, PaidFor) /\ d \in PaidFor
      /\ k.pc = "give" /\ deposit' = deposit /\ tries' = tries
      /\ worker \in [Workers -> Worker]
  BY <1>0 DEF RelayInv, Sound, Give
<1>2. LedgersOK' /\ Grows /\ PaidFor' = PaidFor
  <2>1. PaidFor' = PaidFor
    BY DEF Give, PaidFor, Paid
  <2>2. CASE /\ wallet[d] > 0
             /\ wallet' = [wallet EXCEPT ![d] = @ - 1]
             /\ given' = [given EXCEPT ![d] = @ + 1]
             /\ failedGifts' = failedGifts
    <3>1. LedgersOK'
      BY <2>2 DEF Give, RelayInv, LedgersOK
    <3>2. \A e \in Deposits : given[e] > 0 => given'[e] > 0
      BY <2>2 DEF RelayInv, LedgersOK
    <3>3. QED
      BY <2>1, <2>2, <3>1, <3>2 DEF Grows, Granted
  <2>3. CASE /\ UNCHANGED <<wallet, given>>
             /\ failedGifts' \in {failedGifts, failedGifts \union ({d} \cap disturbed)}
    <3>1. LedgersOK'
      BY <2>3 DEF Give, RelayInv, LedgersOK
    <3>2. QED
      BY <2>1, <2>3, <3>1 DEF Grows, Granted
  <2>4. QED
    BY <1>0, <2>2, <2>3 DEF Give
<1>3. Sound(k, Granted', PaidFor') /\ d \in PaidFor'
  BY <1>1, <1>2, SoundGrows DEF Grows
<1>4. CASE Catch(w)
  BY <1>1, <1>2, <1>4, CatchSound, GrowingWorkerMoves
<1>5. CASE Call(w, d, Contributed, "name") /\ d \in Granted'
  <2>1. /\ worker' = [worker EXCEPT ![w] = worker'[w]]
        /\ worker'[w] = Calling(k, d, Contributed, "name")
    BY <1>1, <1>5, CallMoves
  <2>2. Sound(worker'[w], Granted', PaidFor')
    BY <1>3, <1>5, <2>1, CallSound, PatchesTyped
  <2>3. QED
    BY <1>1, <1>2, <2>1, <2>2, GrowingWorkerMoves
<1>6. \/ Catch(w)
      \/ Call(w, d, Contributed, "name") /\ d \in Granted'
  <2>1. given[d] \in Nat
    BY DEF RelayInv, LedgersOK
  <2>2. given' = [given EXCEPT ![d] = @ + 1] => d \in Granted'
    BY <2>1 DEF Granted, RelayInv, LedgersOK
  <2>3. d \in Granted => d \in Granted'
    BY <1>2 DEF Grows
  <2>4. given[d] > 0 \/ d \in failedGifts => d \in Granted
    BY DEF Granted
  <2>5. \/ Catch(w)
        \/ /\ given' = [given EXCEPT ![d] = @ + 1]
           /\ Call(w, d, Contributed, "name")
        \/ /\ given[d] > 0 \/ d \in failedGifts
           /\ Call(w, d, Contributed, "name")
    BY <1>0 DEF Give
  <2>6. QED
    BY <2>2, <2>3, <2>4, <2>5
<1>7. QED
  BY <1>4, <1>5, <1>6

LEMMA RecordNamePreserves ==
    ASSUME RelayInv, NEW w \in Workers, RecordName(w)
    PROVE  RelayInv'
<1> DEFINE k == worker[w]
<1>1. Calm
  BY DEF RelayInv, LedgersOK, RecordName, Calm
<1>2. LedgersOK' /\ Grows /\ deposit' = deposit /\ tries' = tries
  BY <1>1, CalmGrows DEF Calm
<1>3. Sound(k, Granted, PaidFor) /\ k.pc = "name"
      /\ worker \in [Workers -> Worker]
  BY DEF RelayInv, RecordName
<1>4. CASE worker' = [worker EXCEPT ![w].pc = "next"]
  <2>1. /\ worker' = [worker EXCEPT ![w] = worker'[w]]
        /\ worker'[w] = [k EXCEPT !.pc = "next"]
    BY <1>3, <1>4
  <2>2. Sound(worker'[w], Granted, PaidFor)
    BY <1>3, <2>1, MoveSound
  <2>3. QED
    BY <1>1, <2>1, <2>2, CalmWorkerMoves
<1>5. CASE Catch(w)
  BY <1>2, <1>3, <1>5, CatchSound, GrowingWorkerMoves
<1>6. QED
  BY <1>4, <1>5 DEF RecordName

LEMMA CrashPreserves ==
    ASSUME RelayInv, NEW w \in Workers, Crash(w)
    PROVE  RelayInv'
<1>1. Calm
  BY DEF RelayInv, LedgersOK, Crash, Calm
<1>2. worker' = [worker EXCEPT ![w] = Idle] /\ worker'[w] = Idle
  BY DEF Crash, RelayInv
<1>3. Sound(worker'[w], Granted, PaidFor)
  BY <1>2, IdleSound
<1>4. QED
  BY <1>1, <1>2, <1>3, CalmWorkerMoves

---------------------------------------------------------------------------

LEMMA RelayInvStep == RelayInv /\ [Next]_vars => RelayInv'
<1> SUFFICES ASSUME RelayInv, [Next]_vars PROVE RelayInv'
  OBVIOUS
<1>1. CASE JarCloses
  BY <1>1, EnvironmentPreserves
<1>2. ASSUME NEW d \in Deposits,
             \/ \E asset \in Assets : InitDeposit(d, asset)
             \/ OrderProcesses(d)
             \/ OrderFails(d)
             \/ \E sent \in {0, 1} : OrderCompletes(d, sent)
      PROVE  RelayInv'
  BY <1>2, EnvironmentPreserves, RelayAssumption
<1>3. ASSUME NEW w \in Workers, NEW d \in Deposits, NEW status,
             Webhook(w, d, status)
      PROVE  RelayInv'
  BY <1>3, WebhookPreserves
<1>4. ASSUME NEW w \in Workers, NEW d \in Deposits, DevFund(w, d)
      PROVE  RelayInv'
  BY <1>4, DevFundPreserves
<1>5. ASSUME NEW w \in Workers, Sweep(w) \/ Step(w) \/ Crash(w)
      PROVE  RelayInv'
  BY <1>5, SweepPreserves, CrashPreserves, ReadRowPreserves,
     WriteRowPreserves, DevPayPreserves, NextRowPreserves, PrefundPreserves,
     TopUpPreserves, GivePreserves, RecordNamePreserves
  DEF Step
<1>6. CASE UNCHANGED vars
  <2>1. PaidFor' = PaidFor /\ LedgersOK' /\ Granted' = Granted
        /\ deposit' = deposit /\ worker' = worker /\ tries' = tries
    BY <1>6 DEF vars, PaidFor, Paid, LedgersOK, RelayInv, Granted
  <2>2. QED
    BY <2>1 DEF RelayInv
<1>7. QED
  BY <1>1, <1>2, <1>3, <1>4, <1>5, <1>6 DEF Next

DisturbedOK == disturbed \subseteq Deposits

\* Only deposits are disturbed: a request is at work on one.
LEMMA DisturbedStep == RelayInv /\ DisturbedOK /\ [Next]_vars => DisturbedOK'
<1> SUFFICES ASSUME RelayInv, disturbed \subseteq Deposits, [Next]_vars
             PROVE  disturbed' \subseteq Deposits
  BY DEF DisturbedOK
<1>1. \A w \in Workers : At(worker[w]) \subseteq Deposits
  BY DEF At, RelayInv, Sound
<1>2. ASSUME NEW w \in Workers, NEW kind, Fault(kind, w)
      PROVE  disturbed' \subseteq Deposits
  BY <1>1, <1>2 DEF Fault
<1>3. ASSUME NEW w \in Workers, NEW ds \in SUBSET Deposits, Take(w, ds)
      PROVE  disturbed' \subseteq Deposits
  BY <1>3 DEF Take
<1>4. ASSUME NEW w \in Workers, NEW d \in Deposits, NEW status,
             Webhook(w, d, status) \/ DevFund(w, d)
      PROVE  disturbed' \subseteq Deposits
  BY <1>3, <1>4 DEF Webhook, DevFund
<1>5. ASSUME NEW w \in Workers, Sweep(w) PROVE disturbed' \subseteq Deposits
  BY <1>3, <1>5 DEF Sweep
<1>6. ASSUME NEW w \in Workers, Step(w) \/ Crash(w)
      PROVE  disturbed' = disturbed \/ \E kind : Fault(kind, w)
  BY <1>6 DEF Step, Crash, ReadRow, WriteRow, DevPay, NextRow, Prefund, TopUp,
              Give, RecordName
<1>7. QED
  BY <1>2, <1>4, <1>5, <1>6
  DEF Next, vars, JarCloses, InitDeposit, OrderProcesses, OrderFails, OrderCompletes

LEMMA RelayInvAlways == Spec => []RelayInv
  BY RelayInvInit, RelayInvStep, PTL DEF Spec

\* The state of the relay stays well typed: the treasury and the wallets never
\* go below zero, however requests overlap.
THEOREM RelayTypeCorrect == Spec => []TypeOK
<1>1. Init => DisturbedOK
  BY DEF Init, DisturbedOK
<1>2. RelayInv /\ DisturbedOK => TypeOK
  BY DEF RelayInv, LedgersOK, TypeOK, DisturbedOK
<1>3. QED
  BY <1>1, <1>2, DisturbedStep, RelayInvAlways, PTL DEF Spec

\* A deposit marked contributed has a contribution on chain, for any number of
\* overlapping requests, repeated webhooks, crashes and lost confirmations,
\* unless a copy of its contribution was executed and failed.
THEOREM ContributedIsOnChain == Spec => []ContributedHasLanded
<1>1. RelayInv => ContributedHasLanded
  BY DEF RelayInv, RowSound, ContributedHasLanded, Granted
<1>2. QED
  BY <1>1, RelayInvAlways, PTL

\* No sweep, of any number, starts on a deposit nobody paid for.
THEOREM OnlyPaidIsSwept == Spec => []PaidBeforeSwept
<1>1. RelayInv => PaidBeforeSwept
  BY DEF RelayInv, PaidFor, PaidBeforeSwept
<1>2. QED
  BY <1>1, RelayInvAlways, PTL

(***************************************************************************)
(* Deposits that are not disturbed.  One request holds such a deposit at a *)
(* time and no fault hits it there, whatever befalls the others.  Then     *)
(* what the request read is still what the row says when it writes it,     *)
(* and the deposit can be described twice: by what always holds of it, and *)
(* by what holds while no request is at work on it (AtRest).  A request    *)
(* owes AtRest when it lets go of the row; in between it is described by   *)
(* where it stands (SweepOK, ReportOK).                                    *)
(***************************************************************************)

\* What holds of a deposit at any moment: an order ends one way, and the money
\* the treasury advanced is in the wallet or in the jar.
Steady(d) ==
    /\ ~({"COMPLETED", "FAILED"} \subseteq reported[d])
    /\ deposit[d].status = "none" => reported[d] = {} /\ deposit[d].attempts = 0
    /\ deposit[d].attempts <= MAX_ATTEMPTS
    /\ given[d] <= 1
    /\ advanced[d] <= 1 /\ advanced[d] <= wallet[d] + given[d]

\* What holds of it besides while no request is at work on it: its row says so
\* when it was contributed, unless its order was reported to have failed.
AtRest(d) ==
    /\ tries[d] = deposit[d].attempts
    /\ deposit[d].status \in {"none", "pending"} => advanced[d] = 0
    /\ given[d] > 0 =>
          \/ deposit[d].status = "contributed"
          \/ deposit[d].status = "failed" /\ "FAILED" \in reported[d]

Busy(k, d) == k.pc \in {"prefund", "topUp", "give", "read", "write"} /\ k.dep = d

\* A sweep at work on d: the try is counted, the row not written yet.
Trying(k, d) ==
    /\ deposit[d].status = "funded" /\ deposit[d].attempts = k.attempts
    /\ k.attempts < MAX_ATTEMPTS /\ tries[d] = k.attempts + 1

SweepOK(k, d) ==
    /\ Trying(k, d)
    /\ k.pc \in {"prefund", "topUp", "give"} => given[d] = 0
    /\ k.pc = "topUp" => advanced[d] = 0
    /\ k.pc \in {"read", "write"} =>
          \/ k.after = "next" /\ k.patch = Retry(k.attempts) /\ given[d] = 0
          \/ k.after = "name" /\ k.patch = Contributed

\* A webhook, or the operator's payment, at work on d.
ReportOK(k, d) ==
    /\ ~k.patch.bump /\ k.patch.status # "pending"
    /\ tries[d] = deposit[d].attempts
    /\ deposit[d].status # "none"
    /\ k.patch.status = "contributed" => deposit[d].status = "contributed"
    /\ k.patch.status = "failed" => "FAILED" \in reported[d]
    /\ IF k.patch.status = "funded"
       THEN deposit[d].status # "contributed" /\ given[d] = 0
       ELSE AtRest(d)

Sweeps(k) == k.pc \in {"prefund", "topUp", "give"} \/ k.after # "idle"

\* What a request knows of d, where it holds d.
RequestOK(k, d) ==
    /\ k.pc = "pay" /\ k.dep = d => deposit[d].status = "pending"
    /\ \A row \in k.rows :
          row[1] = d => /\ d \notin At(k) /\ Selectable(d)
                        /\ row[2] = deposit[d].attempts
    /\ k.pc = "write" /\ k.dep = d => k.seen = deposit[d]
    /\ Busy(k, d) /\ Sweeps(k) => SweepOK(k, d)
    /\ Busy(k, d) /\ ~Sweeps(k) => ReportOK(k, d)

Peace(d) ==
    /\ \A v, w \in Workers :
          d \in Holds(worker[v]) /\ d \in Holds(worker[w]) => v = w
    /\ Steady(d)
    /\ (\A w \in Workers : ~Busy(worker[w], d)) => AtRest(d)
    /\ \A w \in Workers : RequestOK(worker[w], d)

IdleInv == \A w \in Workers : worker[w].pc = "idle" => worker[w] = Idle

PeaceInv == IdleInv /\ \A d \in Deposits \ disturbed : Peace(d)

\* A request that holds no deposit knows nothing of it.
LEMMA AwayKnowsNothing ==
    ASSUME NEW k, NEW d, d \notin Holds(k)
    PROVE  RequestOK(k, d) /\ ~Busy(k, d) /\ d \notin At(k)
  BY DEF Holds, At, Busy, RequestOK

LEMMA AwayKnowsNothingNext ==
    ASSUME NEW w, NEW d, d \notin Holds(worker'[w])
    PROVE  RequestOK(worker[w], d)' /\ ~Busy(worker'[w], d)
  BY DEF Holds, At, Busy, RequestOK

\* Peace with one request at most that holds the deposit.
LEMMA SoleHolder ==
    ASSUME NEW d \in Deposits, NEW w \in Workers,
           \A v \in Workers \ {w} : d \notin Holds(worker'[v]),
           Steady(d)', RequestOK(worker[w], d)',
           ~Busy(worker'[w], d) => AtRest(d)'
    PROVE  Peace(d)'
<1>1. \A v \in Workers \ {w} : RequestOK(worker[v], d)'
  BY AwayKnowsNothingNext
<1>2. QED
  BY <1>1 DEF Peace

\* What a step of the request that holds d may rely on.
LEMMA Held ==
    ASSUME RelayInv, NEW d \in Deposits, Peace(d), NEW w \in Workers,
           d \in Holds(worker[w])
    PROVE  /\ worker[w] \in Worker /\ RequestOK(worker[w], d) /\ Steady(d)
           /\ ~Busy(worker[w], d) => AtRest(d)
           /\ \A v \in Workers \ {w} : d \notin Holds(worker[v])
           /\ deposit[d] \in Row /\ tries[d] \in Nat /\ given[d] \in Nat
           /\ wallet[d] \in Nat /\ advanced[d] \in Nat
           /\ MAX_ATTEMPTS \in Nat \ {0}
<1>1. \A v \in Workers \ {w} : d \notin Holds(worker[v])
  BY DEF Peace
<1>2. \A v \in Workers \ {w} : ~Busy(worker[v], d)
  BY <1>1, AwayKnowsNothing
<1>3. ~Busy(worker[w], d) => AtRest(d)
  BY <1>2 DEF Peace
<1>4. QED
  BY <1>1, <1>3, RelayAssumption DEF Peace, RelayInv, LedgersOK

\* What holds of a deposit that no request holds.
LEMMA Free ==
    ASSUME RelayInv, NEW d \in Deposits, Peace(d),
           \A v \in Workers : d \notin Holds(worker[v])
    PROVE  /\ Steady(d) /\ AtRest(d)
           /\ deposit[d] \in Row /\ tries[d] \in Nat /\ given[d] \in Nat
           /\ wallet[d] \in Nat /\ advanced[d] \in Nat
           /\ MAX_ATTEMPTS \in Nat \ {0}
<1>1. \A v \in Workers : ~Busy(worker[v], d)
  BY AwayKnowsNothing
<1>2. QED
  BY <1>1, RelayAssumption DEF Peace, RelayInv, LedgersOK

\* The ledgers of a deposit stay as they are.
Still(d) ==
    /\ deposit'[d] = deposit[d] /\ reported'[d] = reported[d]
    /\ given'[d] = given[d] /\ tries'[d] = tries[d]
    /\ advanced'[d] = advanced[d] /\ wallet'[d] = wallet[d]

LEMMA StillKeeps ==
    ASSUME NEW d, Still(d)
    PROVE  /\ Steady(d)' <=> Steady(d)
           /\ AtRest(d)' <=> AtRest(d)
           /\ Selectable(d)' <=> Selectable(d)
  BY DEF Still, Steady, AtRest, Selectable

\* A step of one request that is not at work on d leaves d in peace; it may have
\* d selected, and may let go of it.
LEMMA Away ==
    ASSUME NEW d \in Deposits, Peace(d), Still(d), NEW w \in Workers,
           worker \in [Workers -> Worker],
           worker' = [worker EXCEPT ![w] = worker'[w]],
           d \notin At(worker[w]), d \notin At(worker'[w]),
           \A r \in worker'[w].rows : r[1] = d => r \in worker[w].rows
    PROVE  Peace(d)'
<1>1. \A v \in Workers \ {w} : worker'[v] = worker[v]
  OBVIOUS
<1>2. d \in Holds(worker'[w]) => d \in Holds(worker[w])
  BY DEF Holds
<1>3. \A v \in Workers : d \in Holds(worker'[v]) => d \in Holds(worker[v])
  BY <1>1, <1>2
<1>4. ~Busy(worker[w], d) /\ ~Busy(worker'[w], d)
  BY DEF Busy, At
<1>5. \A v \in Workers : Busy(worker'[v], d) <=> Busy(worker[v], d)
  BY <1>1, <1>4
<1>6. Steady(d)' /\ (AtRest(d) => AtRest(d)')
  BY StillKeeps DEF Peace
<1>7. ASSUME NEW v \in Workers PROVE RequestOK(worker[v], d)'
  <2>1. RequestOK(worker[v], d)
    BY DEF Peace
  <2>2. CASE v = w
    <3>1. \A r \in worker'[w].rows :
            r[1] = d => Selectable(d)' /\ r[2] = deposit'[d].attempts
      BY <2>1, <2>2, StillKeeps DEF RequestOK, Still
    <3>2. ~(worker'[w].pc \in {"pay", "write"} /\ worker'[w].dep = d)
      BY DEF At
    <3>3. QED
      BY <1>4, <2>2, <3>1, <3>2 DEF RequestOK
  <2>3. CASE v # w
    <3>1. worker'[v] = worker[v]
      BY <1>1, <2>3
    <3>2. SweepOK(worker[v], d) => SweepOK(worker[v], d)'
      BY <3>1 DEF Still, SweepOK, Trying
    <3>3. ReportOK(worker[v], d) => ReportOK(worker[v], d)'
      BY <3>1, <1>6 DEF Still, ReportOK
    <3>4. QED
      BY <2>1, <3>1, <3>2, <3>3, StillKeeps DEF RequestOK, Still
  <2>4. QED
    BY <2>2, <2>3
<1>8. QED
  BY <1>3, <1>5, <1>6, <1>7 DEF Peace

---------------------------------------------------------------------------
(* The steps of a request, for a deposit that stays undisturbed.           *)

LEMMA ReadRowPeace ==
    ASSUME RelayInv, NEW d \in Deposits, Peace(d), NEW w \in Workers, ReadRow(w)
    PROVE  Peace(d)'
<1> DEFINE k == worker[w]
<1>1. /\ worker \in [Workers -> Worker] /\ k \in Worker /\ k.pc = "read"
      /\ worker' = [worker EXCEPT ![w] = k']
      /\ k' = [k EXCEPT !.pc = "write", !.seen = deposit[k.dep]]
      /\ Still(d)
  BY DEF ReadRow, RelayInv, Still
<1>2. /\ k'.pc = "write" /\ k'.dep = k.dep /\ k'.rows = k.rows
      /\ k'.attempts = k.attempts /\ k'.patch = k.patch
      /\ k'.seen = deposit[k.dep] /\ k'.after = k.after
  BY <1>1 DEF Worker
<1>3. CASE k.dep # d
  <2>1. d \notin At(k) /\ d \notin At(k')
    BY <1>2, <1>3 DEF At
  <2>2. QED
    BY <1>1, <1>2, <2>1, Away
<1>4. CASE k.dep = d
  <2>1. d \in Holds(k) /\ Busy(k, d) /\ Busy(k', d) /\ (Sweeps(k') <=> Sweeps(k))
    BY <1>1, <1>2, <1>4 DEF Holds, At, Busy, Sweeps
  <2>2. RequestOK(k, d) /\ Steady(d) /\ \A v \in Workers \ {w} : d \notin Holds(worker[v])
    BY <2>1, Held
  <2>3. Sweeps(k) => SweepOK(k, d)'
    BY <1>1, <1>2, <2>1, <2>2 DEF RequestOK, SweepOK, Trying, Still
  <2>4. ~Sweeps(k) => ReportOK(k, d)'
    BY <1>1, <1>2, <2>1, <2>2, StillKeeps DEF RequestOK, ReportOK, Still
  <2>5. \A r \in k'.rows : r[1] # d
    BY <1>1, <1>2, <1>4, <2>2 DEF RequestOK, At
  <2>6. RequestOK(k, d)'
    BY <1>1, <1>2, <1>4, <2>1, <2>3, <2>4, <2>5 DEF RequestOK, Still
  <2>7. \A v \in Workers \ {w} : d \notin Holds(worker'[v])
    BY <1>1, <2>2
  <2>8. QED
    BY <1>1, <2>1, <2>2, <2>6, <2>7, StillKeeps, SoleHolder
<1>5. QED
  BY <1>3, <1>4

\* The row is written while it is what was read.
LEMMA WriteRowPeace ==
    ASSUME RelayInv, NEW d \in Deposits, Peace(d), NEW w \in Workers, WriteRow(w)
    PROVE  Peace(d)'
<1> DEFINE k == worker[w]
<1>1. /\ worker \in [Workers -> Worker] /\ k \in Worker /\ k.pc = "write"
      /\ k.dep \in Deposits
      /\ worker' = [worker EXCEPT ![w] = k']
      /\ k' = IF k.after = "idle" THEN Idle ELSE [k EXCEPT !.pc = k.after]
      /\ deposit'[d] = IF d = k.dep THEN Patched(k.seen, k.patch) ELSE deposit[d]
      /\ UNCHANGED <<reported, given, tries, advanced, wallet>>
  BY DEF WriteRow, RelayInv, LedgersOK, Sound
<1>2. /\ k'.pc = k.after /\ k'.pc \in {"idle", "next", "name"}
      /\ k'.rows = k.rows \/ k'.rows = {}
      /\ k'.pc # "idle" => k'.dep = k.dep
  BY <1>1 DEF Worker, Idle
<1>3. CASE k.dep # d
  <2>1. d \notin At(k) /\ d \notin At(k')
    BY <1>2, <1>3 DEF At
  <2>2. Still(d)
    BY <1>1, <1>3 DEF Still
  <2>3. QED
    BY <1>1, <1>2, <2>1, <2>2, Away
<1>4. CASE k.dep = d
  <2> DEFINE row == Patched(deposit[d], k.patch)
  <2>1. d \in Holds(k) /\ Busy(k, d)
    BY <1>1, <1>4 DEF Holds, At, Busy
  <2>2. /\ RequestOK(k, d) /\ Steady(d) /\ deposit[d] \in Row /\ tries[d] \in Nat
        /\ given[d] \in Nat /\ MAX_ATTEMPTS \in Nat \ {0}
        /\ \A v \in Workers \ {w} : d \notin Holds(worker[v])
    BY <2>1, Held
  <2>3. k.seen = deposit[d] /\ deposit'[d] = row
    BY <1>1, <1>4, <2>2 DEF RequestOK
  <2>4. /\ row.status = IF k.patch.status = "keep" THEN deposit[d].status
                        ELSE k.patch.status
        /\ row.attempts = IF k.patch.bump THEN deposit[d].attempts + 1
                          ELSE deposit[d].attempts
        /\ deposit[d].attempts \in Nat
    BY <2>2 DEF Patched, Row
  <2>5. Steady(d)' /\ AtRest(d)'
    <3>1. CASE Sweeps(k)
      <4>1. SweepOK(k, d)
        BY <2>1, <2>2, <3>1 DEF RequestOK
      <4>2. /\ Trying(k, d)
            /\ row.attempts = deposit[d].attempts + 1
            /\ row.status # "none" /\ row.status # "pending"
            /\ given[d] > 0 => row.status = "contributed"
        BY <1>1, <2>2, <2>4, <4>1 DEF SweepOK, Retry, Contributed
      <4>3. QED
        BY <1>1, <2>2, <2>3, <2>4, <4>2 DEF Trying, Steady, AtRest
    <3>2. CASE ~Sweeps(k)
      <4>1. ReportOK(k, d)
        BY <2>1, <2>2, <3>2 DEF RequestOK
      <4>2. row.attempts = deposit[d].attempts
        BY <2>4, <4>1 DEF ReportOK
      <4>3. k.patch.status \in {"keep", "funded", "contributed", "failed"}
        BY <1>1, <4>1 DEF ReportOK, Worker, Patch, Statuses
      <4>4. row.status # "none"
        BY <2>4, <4>1, <4>3 DEF ReportOK
      <4>5. Steady(d)'
        BY <1>1, <2>2, <2>3, <4>2, <4>4 DEF Steady
      <4>6. row.status \in {"none", "pending"} => AtRest(d)
        BY <2>4, <4>1, <4>3 DEF ReportOK
      <4>7. given[d] > 0 => \/ row.status = "contributed"
                            \/ row.status = "failed" /\ "FAILED" \in reported[d]
        BY <2>2, <2>4, <4>1, <4>3 DEF ReportOK, AtRest
      <4>8. tries[d] = row.attempts
        BY <4>1, <4>2 DEF ReportOK
      <4>9. AtRest(d)'
        BY <1>1, <2>3, <2>4, <4>3, <4>6, <4>7, <4>8 DEF AtRest
      <4>10. QED
        BY <4>5, <4>9
    <3>3. QED
      BY <3>1, <3>2
  <2>6. \A r \in k'.rows : r[1] # d
    BY <1>1, <1>2, <1>4, <2>2 DEF RequestOK, At
  <2>7. RequestOK(k, d)'
    BY <1>2, <2>6 DEF RequestOK, Busy
  <2>8. \A v \in Workers \ {w} : d \notin Holds(worker'[v])
    BY <1>1, <2>2
  <2>9. QED
    BY <2>5, <2>7, <2>8, SoleHolder
<1>5. QED
  BY <1>3, <1>4

\* A call of setDepositStatus by a request that reports.
LEMMA ReportPeace ==
    ASSUME NEW d \in Deposits, NEW w \in Workers, worker \in [Workers -> Worker],
           NEW patch, Call(w, d, patch, "idle"),
           \A v \in Workers \ {w} : d \notin Holds(worker[v]),
           \A r \in worker[w].rows : r[1] # d,
           Steady(d)',
           ~patch.bump, patch.status # "pending",
           tries'[d] = deposit'[d].attempts, deposit'[d].status # "none",
           patch.status = "contributed" => deposit'[d].status = "contributed",
           patch.status = "failed" => "FAILED" \in reported'[d],
           IF patch.status = "funded"
           THEN deposit'[d].status # "contributed" /\ given'[d] = 0
           ELSE AtRest(d)'
    PROVE  Peace(d)'
<1> DEFINE k == worker[w]
<1>1. k \in Worker /\ k' = Calling(k, d, patch, "idle")
      /\ worker' = [worker EXCEPT ![w] = k']
  BY CallMoves
<1>2. /\ k'.pc = "read" /\ k'.dep = d /\ k'.rows = k.rows /\ k'.after = "idle"
      /\ k'.patch = patch
  BY <1>1 DEF Worker, Calling
<1>3. ReportOK(k, d)'
  BY <1>2 DEF ReportOK
<1>4. RequestOK(k, d)' /\ Busy(k', d)
  BY <1>2, <1>3 DEF RequestOK, Sweeps, Busy
<1>5. \A v \in Workers \ {w} : d \notin Holds(worker'[v])
  BY <1>1
<1>6. QED
  BY <1>4, <1>5, SoleHolder

\* POST /api/transak/webhook: nobody else holds the deposit, or it is disturbed.
LEMMA WebhookPeace ==
    ASSUME RelayInv, IdleInv, NEW d \in Deposits \ disturbed', Peace(d),
           NEW w \in Workers, NEW e \in Deposits, NEW status, Webhook(w, e, status)
    PROVE  Peace(d)'
<1> DEFINE k == worker[w]
           patch == WebhookPatch(status, deposit[d].status)
<1>1. /\ worker \in [Workers -> Worker] /\ k = Idle /\ Still(d)
      /\ status \in reported[e]
      /\ Call(w, e, WebhookPatch(status, deposit[e].status), "idle")
  BY DEF Webhook, IdleInv, RelayInv, Still
<1>2. k.rows = {} /\ d \notin At(k)
  BY <1>1 DEF Idle, At
<1>3. CASE e # d
  <2>1. /\ worker' = [worker EXCEPT ![w] = k']
        /\ k' = Calling(k, e, WebhookPatch(status, deposit[e].status), "idle")
    BY <1>1, CallMoves
  <2>2. k'.dep = e /\ k'.rows = k.rows
    BY <1>1, <2>1 DEF Calling, Worker
  <2>3. d \notin At(k')
    BY <1>3, <2>2 DEF At
  <2>4. QED
    BY <1>1, <1>2, <2>1, <2>2, <2>3, Away
<1>4. CASE e = d
  <2>1. \A v \in Workers \ {w} : d \notin Holds(worker[v])
    BY <1>4 DEF Webhook, Take
  <2>2. \A v \in Workers : d \notin Holds(worker[v])
    BY <1>2, <2>1 DEF Holds
  <2>3. Steady(d) /\ AtRest(d) /\ given[d] \in Nat
    BY <2>2, Free
  <2>4. Steady(d)' /\ AtRest(d)'
    BY <1>1, <2>3, StillKeeps
  <2>5. deposit[d].status # "none"
    BY <1>1, <1>4, <2>3 DEF Steady
  <2>6. /\ ~patch.bump /\ patch.status # "pending"
        /\ patch.status = "contributed" => deposit[d].status = "contributed"
        /\ patch.status = "failed" => "FAILED" \in reported[d]
        /\ patch.status = "funded" =>
              deposit[d].status # "contributed" /\ "COMPLETED" \in reported[d]
    BY <1>1, <1>4 DEF WebhookPatch, NoPatch
  <2>7. patch.status = "funded" => given[d] = 0
    BY <2>3, <2>5, <2>6 DEF AtRest, Steady
  <2>8. Call(w, d, patch, "idle")
    BY <1>1, <1>4
  <2> HIDE DEF patch
  <2>9. QED
    BY <1>1, <1>2, <2>1, <2>4, <2>5, <2>6, <2>7, <2>8, ReportPeace DEF AtRest, Still
<1>5. QED
  BY <1>3, <1>4

LEMMA DevFundPeace ==
    ASSUME RelayInv, IdleInv, NEW d \in Deposits \ disturbed', Peace(d),
           NEW w \in Workers, NEW e \in Deposits, DevFund(w, e)
    PROVE  Peace(d)'
<1> DEFINE k == worker[w]
<1>1. /\ worker \in [Workers -> Worker] /\ k = Idle /\ Still(d)
      /\ worker' = [worker EXCEPT ![w] = k']
      /\ k' = [k EXCEPT !.pc = "pay", !.dep = e] /\ deposit[e].status = "pending"
  BY DEF DevFund, IdleInv, RelayInv, Still
<1>2. k.rows = {} /\ d \notin At(k)
  BY <1>1 DEF Idle, At
<1>3. k'.pc = "pay" /\ k'.dep = e /\ k'.rows = {}
  BY <1>1 DEF Idle
<1>4. CASE e # d
  <2>1. d \notin At(k')
    BY <1>3, <1>4 DEF At
  <2>2. QED
    BY <1>1, <1>2, <1>3, <2>1, Away
<1>5. CASE e = d
  <2>1. \A v \in Workers \ {w} : d \notin Holds(worker[v])
    BY <1>5 DEF DevFund, Take
  <2>2. \A v \in Workers : d \notin Holds(worker[v])
    BY <1>2, <2>1 DEF Holds
  <2>3. Steady(d)' /\ AtRest(d)'
    BY <1>1, <2>2, Free, StillKeeps
  <2>4. RequestOK(k, d)'
    BY <1>1, <1>3, <1>5 DEF RequestOK, Busy, Still
  <2>5. \A v \in Workers \ {w} : d \notin Holds(worker'[v])
    BY <1>1, <2>1
  <2>6. QED
    BY <2>3, <2>4, <2>5, SoleHolder
<1>6. QED
  BY <1>4, <1>5

\* A fault disturbs the deposit its request is at work on.
LEMMA FaultElsewhere ==
    ASSUME NEW d, d \notin disturbed', NEW w, NEW kind, Fault(kind, w)
    PROVE  d \notin At(worker[w])
  BY DEF Fault

\* The treasury pays into the wallet of another deposit.
LEMMA AdvanceElsewhere ==
    ASSUME RelayInv, NEW d \in Deposits, NEW e \in Deposits, e # d, Advance(e)
    PROVE  wallet'[d] = wallet[d] /\ advanced'[d] = advanced[d]
  BY DEF Advance, RelayInv, LedgersOK

LEMMA DevPayPeace ==
    ASSUME RelayInv, NEW d \in Deposits \ disturbed', Peace(d),
           NEW w \in Workers, DevPay(w)
    PROVE  Peace(d)'
<1> DEFINE k == worker[w]
<1>0. PICK e \in Deposits : e = k.dep
  BY DEF DevPay, RelayInv, Sound
<1>1. /\ worker \in [Workers -> Worker] /\ k \in Worker /\ k.pc = "pay"
      /\ UNCHANGED <<deposit, reported, given, tries>>
      /\ Advance(e) \/ UNCHANGED <<wallet, advanced>>
  BY <1>0 DEF DevPay, RelayInv
<1>2. \/ Call(w, e, Funded, "idle") /\ Advance(e)
      \/ worker' = [worker EXCEPT ![w] = Idle] /\ UNCHANGED <<wallet, advanced>>
      \/ worker' = [worker EXCEPT ![w] = Idle] /\ Fault("lostConfirmation", w)
  BY <1>0 DEF DevPay
<1>3. CASE e # d
  <2>1. Still(d)
    BY <1>1, <1>3, AdvanceElsewhere DEF Still
  <2>2. /\ worker' = [worker EXCEPT ![w] = k']
        /\ k' = Calling(k, e, Funded, "idle") \/ k' = Idle
    BY <1>1, <1>2, CallMoves
  <2>3. /\ k'.rows = k.rows \/ k'.rows = {}
        /\ k'.pc = "idle" \/ k'.dep = e
    <3>1. CASE k' = Calling(k, e, Funded, "idle")
      BY <1>1, <3>1, CallingFields
    <3>2. CASE k' = Idle
      BY <3>2 DEF Idle
    <3>3. QED
      BY <2>2, <3>1, <3>2
  <2>4. d \notin At(k) /\ d \notin At(k')
    BY <1>0, <1>3, <2>3 DEF At
  <2>5. QED
    BY <1>1, <2>1, <2>2, <2>3, <2>4, Away
<1>4. CASE e = d
  <2>1. d \in At(k) /\ d \in Holds(k) /\ ~Busy(k, d)
    BY <1>0, <1>1, <1>4 DEF At, Holds, Busy
  <2>2. /\ RequestOK(k, d) /\ Steady(d) /\ AtRest(d)
        /\ \A v \in Workers \ {w} : d \notin Holds(worker[v])
        /\ given[d] \in Nat /\ wallet[d] \in Nat /\ advanced[d] \in Nat
    BY <2>1, Held
  <2>3. /\ deposit[d].status = "pending" /\ given[d] = 0 /\ advanced[d] = 0
        /\ \A r \in k.rows : r[1] # d
    BY <1>0, <1>1, <1>4, <2>1, <2>2 DEF RequestOK, AtRest
  <2>4. CASE Call(w, d, Funded, "idle") /\ Advance(d)
    <3>1. wallet'[d] = wallet[d] + 1 /\ advanced'[d] = 1
      BY <2>3, <2>4 DEF Advance, RelayInv, LedgersOK
    <3>2. Steady(d)'
      BY <1>1, <2>2, <2>3, <3>1 DEF Steady
    <3>3. tries'[d] = deposit'[d].attempts
      BY <1>1, <2>2 DEF AtRest
    <3>4. Funded.status = "funded" /\ ~Funded.bump
      BY DEF Funded, NoPatch
    <3>5. deposit'[d].status = "pending" /\ given'[d] = 0
      BY <1>1, <2>3
    <3> HIDE DEF k
    <3>6. QED
      BY <1>1, <2>2, <2>3, <2>4, <3>2, <3>3, <3>4, <3>5, ReportPeace DEF k
  <2>5. CASE worker' = [worker EXCEPT ![w] = Idle] /\ UNCHANGED <<wallet, advanced>>
    <3>1. Still(d)
      BY <1>1, <2>5 DEF Still
    <3>2. k' = Idle /\ d \notin Holds(k')
      BY <1>1, <2>5 DEF Holds, At, Idle
    <3>3. \A v \in Workers \ {w} : d \notin Holds(worker'[v])
      BY <2>2, <2>5
    <3>4. RequestOK(k, d)'
      BY <3>2, AwayKnowsNothingNext
    <3>5. QED
      BY <2>2, <3>1, <3>3, <3>4, StillKeeps, SoleHolder
  <2>6. ~Fault("lostConfirmation", w)
    BY <2>1, FaultElsewhere
  <2>7. QED
    BY <1>2, <1>4, <2>4, <2>5, <2>6
<1>5. QED
  BY <1>3, <1>4

LEMMA SweepPeace ==
    ASSUME RelayInv, IdleInv, NEW d \in Deposits \ disturbed', Peace(d),
           NEW w \in Workers, Sweep(w)
    PROVE  Peace(d)'
<1> DEFINE k == worker[w]
           rows == {<<x, deposit[x].attempts>> : x \in {y \in Deposits : Selectable(y)}}
<1>1. /\ worker \in [Workers -> Worker] /\ k = Idle /\ Still(d)
      /\ worker' = [worker EXCEPT ![w] = k']
      /\ k' = [k EXCEPT !.pc = "next", !.rows = rows]
  BY DEF Sweep, IdleInv, RelayInv, Still
<1>2. k'.pc = "next" /\ k'.rows = rows /\ k.rows = {} /\ d \notin At(k)
      /\ d \notin At(k')
  BY <1>1 DEF Idle, At
<1>3. CASE ~Selectable(d)
  <2>1. \A r \in rows : r[1] # d
    BY <1>3
  <2>2. QED
    BY <1>1, <1>2, <2>1, Away
<1>4. CASE Selectable(d)
  <2>1. \A v \in Workers \ {w} : d \notin Holds(worker[v])
    BY <1>4 DEF Sweep, Take
  <2>2. \A v \in Workers : d \notin Holds(worker[v])
    BY <1>2, <2>1 DEF Holds
  <2>3. Steady(d)' /\ AtRest(d)'
    BY <1>1, <2>2, Free, StillKeeps
  <2>4. \A r \in rows : r[1] = d => r[2] = deposit[d].attempts
    OBVIOUS
  <2>5. RequestOK(k, d)'
    BY <1>1, <1>2, <1>4, <2>4, StillKeeps DEF RequestOK, Busy, Still, At
  <2>6. \A v \in Workers \ {w} : d \notin Holds(worker'[v])
    BY <1>1, <2>1
  <2>7. QED
    BY <2>3, <2>5, <2>6, SoleHolder
<1>5. QED
  BY <1>3, <1>4

LEMMA NextRowPeace ==
    ASSUME RelayInv, NEW d \in Deposits, Peace(d), NEW w \in Workers, NextRow(w)
    PROVE  Peace(d)'
<1> DEFINE k == worker[w]
<1>1. /\ worker \in [Workers -> Worker] /\ k \in Worker /\ k.pc = "next"
      /\ tries \in [Deposits -> 0 .. MAX_ATTEMPTS + 1]
      /\ UNCHANGED <<deposit, reported, given, advanced, wallet>>
      /\ d \notin At(k)
      /\ \A r \in k.rows : r \in Deposits \X Nat
  BY DEF NextRow, RelayInv, LedgersOK, At, Worker
<1>2. CASE worker' = [worker EXCEPT ![w] = Idle] /\ tries' = tries
  <2>1. Still(d) /\ k' = Idle
    BY <1>1, <1>2 DEF Still
  <2>2. d \notin At(k') /\ k'.rows = {}
    BY <2>1 DEF At, Idle
  <2>3. QED
    BY <1>1, <1>2, <2>1, <2>2, Away
<1>3. ASSUME NEW row \in k.rows,
             worker' = [worker EXCEPT ![w].pc = "prefund", ![w].dep = row[1],
                                      ![w].attempts = row[2], ![w].rows = @ \ {row}],
             tries' = [tries EXCEPT ![row[1]] = IF @ <= MAX_ATTEMPTS THEN @ + 1 ELSE @]
      PROVE  Peace(d)'
  <2>1. /\ worker' = [worker EXCEPT ![w] = k']
        /\ k' = [k EXCEPT !.pc = "prefund", !.dep = row[1], !.attempts = row[2],
                          !.rows = @ \ {row}]
    BY <1>1, <1>3
  <2>2. /\ k'.pc = "prefund" /\ k'.dep = row[1] /\ k'.attempts = row[2]
        /\ k'.rows = k.rows \ {row}
    BY <1>1, <2>1 DEF Worker
  <2>3. CASE row[1] # d
    <3>1. Still(d)
      BY <1>1, <1>3, <2>3 DEF Still
    <3>2. d \notin At(k')
      BY <2>2, <2>3 DEF At
    <3>3. QED
      BY <1>1, <2>1, <2>2, <3>1, <3>2, Away
  <2>4. CASE row[1] = d
    <3>1. d \in Holds(k) /\ ~Busy(k, d)
      BY <1>1, <2>4 DEF Holds, Busy
    <3>2. /\ RequestOK(k, d) /\ Steady(d) /\ AtRest(d)
          /\ \A v \in Workers \ {w} : d \notin Holds(worker[v])
          /\ deposit[d] \in Row /\ given[d] \in Nat /\ MAX_ATTEMPTS \in Nat \ {0}
      BY <3>1, Held
    <3>3. \A r \in k.rows : r[1] = d => r = <<d, deposit[d].attempts>>
      BY <1>1, <3>2 DEF RequestOK
    <3>4. /\ deposit[d].status = "funded" /\ deposit[d].attempts < MAX_ATTEMPTS
          /\ row[2] = deposit[d].attempts /\ deposit[d].attempts \in Nat
      BY <2>4, <3>2 DEF RequestOK, Selectable, Row
    <3>5. tries[d] = deposit[d].attempts /\ given[d] = 0
      BY <3>2, <3>4 DEF AtRest
    <3>6. tries'[d] = row[2] + 1
      BY <1>1, <1>3, <2>4, <3>2, <3>4, <3>5
    <3>7. \A r \in k'.rows : r[1] # d
      BY <2>2, <2>4, <3>3
    <3>8. SweepOK(k, d)'
      BY <1>1, <2>2, <3>4, <3>5, <3>6 DEF SweepOK, Trying
    <3>9. RequestOK(k, d)' /\ Busy(k', d)
      BY <2>2, <2>4, <3>7, <3>8 DEF RequestOK, Busy, Sweeps
    <3>10. Steady(d)'
      BY <1>1, <3>2 DEF Steady
    <3>11. \A v \in Workers \ {w} : d \notin Holds(worker'[v])
      BY <1>1, <2>1, <3>2
    <3>12. QED
      BY <3>9, <3>10, <3>11, SoleHolder
  <2>5. QED
    BY <2>3, <2>4
<1>4. QED
  BY <1>2, <1>3 DEF NextRow

\* A request at work on another deposit moves on.
LEMMA Elsewhere ==
    ASSUME NEW d \in Deposits, Peace(d), Still(d), NEW w \in Workers,
           worker \in [Workers -> Worker], worker[w].dep # d,
           NEW k2, worker' = [worker EXCEPT ![w] = k2],
           k2.pc = "idle" \/ k2.dep # d, k2.rows \subseteq worker[w].rows
    PROVE  Peace(d)'
<1>1. worker'[w] = k2
  OBVIOUS
<1>2. d \notin At(worker[w]) /\ d \notin At(worker'[w])
  BY <1>1 DEF At
<1>3. QED
  BY <1>1, <1>2, Away

\* The sweep at work on d enters its catch block.
LEMMA CatchPeace ==
    ASSUME RelayInv, NEW d \in Deposits, NEW w \in Workers,
           worker[w].dep = d, Catch(w),
           \A v \in Workers \ {w} : d \notin Holds(worker[v]),
           \A r \in worker[w].rows : r[1] # d,
           Steady(d)', Trying(worker[w], d), given'[d] = 0,
           deposit' = deposit, tries' = tries
    PROVE  Peace(d)'
<1> DEFINE k == worker[w]
<1>1. /\ worker \in [Workers -> Worker] /\ k \in Worker
      /\ worker' = [worker EXCEPT ![w] = k']
      /\ k' = Calling(k, d, Retry(k.attempts), "next")
  BY CallMoves DEF RelayInv, Catch
<1>2. /\ k'.pc = "read" /\ k'.dep = d /\ k'.rows = k.rows
      /\ k'.attempts = k.attempts /\ k'.patch = Retry(k.attempts)
      /\ k'.after = "next"
  BY <1>1, CallingFields
<1>3. SweepOK(k, d)'
  BY <1>2 DEF SweepOK, Trying
<1>4. RequestOK(k, d)' /\ Busy(k', d)
  BY <1>2, <1>3 DEF RequestOK, Busy, Sweeps
<1>5. \A v \in Workers \ {w} : d \notin Holds(worker'[v])
  BY <1>1
<1>6. QED
  BY <1>4, <1>5, SoleHolder

LEMMA CatchElsewhere ==
    ASSUME RelayInv, NEW d \in Deposits, Peace(d), Still(d), NEW w \in Workers,
           worker[w].dep # d, NEW patch, NEW after,
           Call(w, worker[w].dep, patch, after)
    PROVE  Peace(d)'
<1> DEFINE k == worker[w]
<1>1. /\ worker \in [Workers -> Worker] /\ k \in Worker
      /\ worker' = [worker EXCEPT ![w] = k']
      /\ k' = Calling(k, k.dep, patch, after)
  BY CallMoves DEF RelayInv
<1>2. k'.dep = k.dep /\ k'.rows = k.rows
  BY <1>1, CallingFields
<1>3. QED
  BY <1>1, <1>2, Elsewhere

\* What holds of the deposit a sweep tries.
LEMMA Tried ==
    ASSUME RelayInv, NEW d \in Deposits, Peace(d), NEW w \in Workers,
           worker[w].dep = d, worker[w].pc \in {"prefund", "topUp", "give"}
    PROVE  /\ SweepOK(worker[w], d) /\ Steady(d) /\ given[d] = 0
           /\ \A v \in Workers \ {w} : d \notin Holds(worker[v])
           /\ \A r \in worker[w].rows : r[1] # d
           /\ wallet[d] \in Nat /\ advanced[d] \in Nat
           /\ worker[w] \in Worker /\ worker \in [Workers -> Worker]
           /\ advanced[d] <= wallet[d]
<1> DEFINE k == worker[w]
<1>1. d \in At(k) /\ d \in Holds(k) /\ Busy(k, d) /\ Sweeps(k)
  BY DEF At, Holds, Busy, Sweeps
<1>2. /\ RequestOK(k, d) /\ Steady(d) /\ k \in Worker
      /\ \A v \in Workers \ {w} : d \notin Holds(worker[v])
      /\ wallet[d] \in Nat /\ advanced[d] \in Nat
  BY <1>1, Held
<1>3. SweepOK(k, d)
  BY <1>1, <1>2 DEF RequestOK
<1>4. given[d] = 0
  BY <1>3 DEF SweepOK
<1>5. \A r \in k.rows : r[1] # d
  BY <1>1, <1>2 DEF RequestOK
<1>6. advanced[d] <= wallet[d]
  BY <1>2, <1>4 DEF Steady
<1>7. QED
  BY <1>2, <1>3, <1>4, <1>5, <1>6 DEF RelayInv

\* The sweep at work on d goes on to its next await.
LEMMA GoesOn ==
    ASSUME NEW d \in Deposits, NEW w \in Workers, NEW pc \in {"topUp", "give"},
           worker[w] \in Worker, worker \in [Workers -> Worker],
           worker[w].dep = d, worker' = [worker EXCEPT ![w].pc = pc],
           \A v \in Workers \ {w} : d \notin Holds(worker[v]),
           \A r \in worker[w].rows : r[1] # d,
           Steady(d)', Trying(worker[w], d), given'[d] = 0,
           pc = "topUp" => advanced'[d] = 0,
           deposit' = deposit, tries' = tries
    PROVE  Peace(d)'
<1> DEFINE k == worker[w]
<1>1. worker' = [worker EXCEPT ![w] = k'] /\ k' = [k EXCEPT !.pc = pc]
  OBVIOUS
<1>2. /\ k'.pc = pc /\ k'.dep = d /\ k'.rows = k.rows /\ k'.attempts = k.attempts
  BY <1>1 DEF Worker
<1>3. SweepOK(k, d)'
  BY <1>2 DEF SweepOK, Trying
<1>4. RequestOK(k, d)' /\ Busy(k', d)
  BY <1>2, <1>3 DEF RequestOK, Busy, Sweeps
<1>5. \A v \in Workers \ {w} : d \notin Holds(worker'[v])
  BY <1>1
<1>6. QED
  BY <1>4, <1>5, SoleHolder

LEMMA PrefundPeace ==
    ASSUME RelayInv, NEW d \in Deposits, Peace(d), NEW w \in Workers, Prefund(w)
    PROVE  Peace(d)'
<1> DEFINE k == worker[w]
<1>1. /\ k.pc = "prefund" /\ Still(d) /\ worker \in [Workers -> Worker]
      /\ k \in Worker /\ deposit' = deposit /\ tries' = tries
  BY DEF Prefund, Still, RelayInv
<1>2. PICK pc \in {"topUp", "give"} :
        /\ pc = "topUp" => Short(k.dep)
        /\ worker' = [worker EXCEPT ![w].pc = pc]
  BY DEF Prefund
<1>3. CASE k.dep # d
  <2>1. worker' = [worker EXCEPT ![w] = [k EXCEPT !.pc = pc]]
    BY <1>1, <1>2
  <2>2. [k EXCEPT !.pc = pc].dep = k.dep /\ [k EXCEPT !.pc = pc].rows = k.rows
    BY <1>1 DEF Worker
  <2>3. QED
    BY <1>1, <1>3, <2>1, <2>2, Elsewhere
<1>4. CASE k.dep = d
  <2>1. /\ SweepOK(k, d) /\ Steady(d) /\ given[d] = 0
        /\ \A v \in Workers \ {w} : d \notin Holds(worker[v])
        /\ \A r \in k.rows : r[1] # d
        /\ advanced[d] \in Nat /\ advanced[d] <= wallet[d]
    BY <1>1, <1>4, Tried
  <2>2. Steady(d)' /\ Trying(k, d)
    BY <1>1, <2>1, StillKeeps DEF SweepOK
  <2>3. pc = "topUp" => advanced'[d] = 0
    BY <1>1, <1>2, <1>4, <2>1 DEF Short, Still
  <2>4. given'[d] = 0
    BY <1>1, <2>1 DEF Still
  <2> HIDE DEF k
  <2>5. QED
    BY <1>1, <1>2, <1>4, <2>1, <2>2, <2>3, <2>4, GoesOn DEF k
<1>5. QED
  BY <1>3, <1>4

LEMMA TopUpPeace ==
    ASSUME RelayInv, NEW d \in Deposits \ disturbed', Peace(d),
           NEW w \in Workers, TopUp(w)
    PROVE  Peace(d)'
<1> DEFINE k == worker[w]
<1>0. PICK e \in Deposits : e = k.dep
  BY DEF TopUp, RelayInv, Sound
<1>1. /\ k.pc = "topUp" /\ worker \in [Workers -> Worker] /\ k \in Worker
      /\ UNCHANGED <<deposit, reported, given, tries>>
      /\ Advance(e) \/ UNCHANGED <<wallet, advanced>>
  BY <1>0 DEF TopUp, RelayInv
<1>2. \/ Advance(e) /\ worker' = [worker EXCEPT ![w].pc = "give"]
      \/ Fault("lostConfirmation", w) /\ Catch(w)
      \/ Catch(w) /\ UNCHANGED <<wallet, advanced>>
  BY <1>0 DEF TopUp
<1>3. CASE e # d
  <2>1. Still(d)
    BY <1>1, <1>3, AdvanceElsewhere DEF Still
  <2>2. CASE worker' = [worker EXCEPT ![w].pc = "give"]
    <3>1. worker' = [worker EXCEPT ![w] = [k EXCEPT !.pc = "give"]]
      BY <1>1, <2>2
    <3>2. [k EXCEPT !.pc = "give"].dep = k.dep /\ [k EXCEPT !.pc = "give"].rows = k.rows
      BY <1>1 DEF Worker
    <3>3. QED
      BY <1>0, <1>1, <1>3, <2>1, <3>1, <3>2, Elsewhere
  <2>3. CASE Catch(w)
    BY <1>0, <1>3, <2>1, <2>3, CatchElsewhere DEF Catch
  <2>4. QED
    BY <1>2, <2>2, <2>3
<1>4. CASE e = d
  <2>1. /\ SweepOK(k, d) /\ Steady(d) /\ given[d] = 0
        /\ \A v \in Workers \ {w} : d \notin Holds(worker[v])
        /\ \A r \in k.rows : r[1] # d
        /\ wallet[d] \in Nat /\ advanced[d] \in Nat
    BY <1>0, <1>1, <1>4, Tried
  <2>2. Trying(k, d) /\ advanced[d] = 0 /\ given'[d] = 0
    BY <1>1, <2>1 DEF SweepOK
  <2>3. CASE Advance(d) /\ worker' = [worker EXCEPT ![w].pc = "give"]
    <3>1. wallet'[d] = wallet[d] + 1 /\ advanced'[d] = 1
      BY <2>2, <2>3 DEF Advance, RelayInv, LedgersOK
    <3>2. Steady(d)'
      BY <1>1, <2>1, <3>1 DEF Steady
    <3> HIDE DEF k
    <3>3. QED
      BY <1>0, <1>1, <1>4, <2>1, <2>2, <2>3, <3>2, GoesOn DEF k
  <2>4. CASE Catch(w) /\ UNCHANGED <<wallet, advanced>>
    <3>1. Steady(d)'
      BY <1>1, <2>1, <2>4 DEF Steady
    <3>2. QED
      BY <1>0, <1>1, <1>4, <2>1, <2>2, <2>4, <3>1, CatchPeace
  <2>5. ~Fault("lostConfirmation", w)
    <3>1. d \in At(k)
      BY <1>0, <1>1, <1>4 DEF At
    <3>2. QED
      BY <3>1, FaultElsewhere
  <2>6. QED
    BY <1>2, <1>4, <2>3, <2>4, <2>5
<1>5. QED
  BY <1>3, <1>4

LEMMA GivePeace ==
    ASSUME RelayInv, NEW d \in Deposits \ disturbed', Peace(d),
           NEW w \in Workers, Give(w)
    PROVE  Peace(d)'
<1> DEFINE k == worker[w]
<1>0. PICK e \in Deposits : e = k.dep
  BY DEF Give, RelayInv, Sound
<1>1. /\ k.pc = "give" /\ worker \in [Workers -> Worker] /\ k \in Worker
      /\ UNCHANGED <<deposit, reported, advanced, tries>>
  BY DEF Give, RelayInv
<1>2. \/ /\ wallet[e] > 0
         /\ wallet' = [wallet EXCEPT ![e] = @ - 1]
         /\ given' = [given EXCEPT ![e] = @ + 1]
         /\ \/ Call(w, e, Contributed, "name")
            \/ Fault("lostConfirmation", w) /\ Catch(w)
      \/ Catch(w) /\ UNCHANGED <<wallet, given>>
      \/ /\ e \in disturbed /\ disturbed' = disturbed
         /\ Call(w, e, Contributed, "name") /\ UNCHANGED <<wallet, given>>
  BY <1>0 DEF Give
<1>3. CASE e # d
  <2>1. Still(d)
    BY <1>1, <1>2, <1>3 DEF Still, RelayInv, LedgersOK
  <2>2. Catch(w) \/ Call(w, e, Contributed, "name")
    BY <1>2
  <2>3. QED
    BY <1>0, <1>3, <2>1, <2>2, CatchElsewhere DEF Catch
<1>4. CASE e = d
  <2>1. /\ SweepOK(k, d) /\ Steady(d) /\ given[d] = 0
        /\ \A v \in Workers \ {w} : d \notin Holds(worker[v])
        /\ \A r \in k.rows : r[1] # d
        /\ wallet[d] \in Nat /\ advanced[d] \in Nat
    BY <1>0, <1>1, <1>4, Tried
  <2>2. Trying(k, d)
    BY <2>1 DEF SweepOK
  <2>3. ~Fault("lostConfirmation", w)
    <3>1. d \in At(k)
      BY <1>0, <1>1, <1>4 DEF At
    <3>2. QED
      BY <3>1, FaultElsewhere
  <2>4. CASE /\ wallet[d] > 0
             /\ wallet' = [wallet EXCEPT ![d] = @ - 1]
             /\ given' = [given EXCEPT ![d] = @ + 1]
             /\ Call(w, d, Contributed, "name")
    <3>1. wallet'[d] = wallet[d] - 1 /\ given'[d] = 1
      BY <2>1, <2>4 DEF RelayInv, LedgersOK
    <3>2. Steady(d)'
      BY <1>1, <2>1, <2>4, <3>1 DEF Steady
    <3>3. /\ worker' = [worker EXCEPT ![w] = k']
          /\ k' = Calling(k, d, Contributed, "name")
      BY <1>1, <2>4, CallMoves
    <3>4. /\ k'.pc = "read" /\ k'.dep = d /\ k'.rows = k.rows
          /\ k'.attempts = k.attempts /\ k'.patch = Contributed
          /\ k'.after = "name"
      BY <1>1, <3>3, CallingFields
    <3>5. SweepOK(k, d)'
      BY <1>1, <2>2, <3>4 DEF SweepOK, Trying
    <3>6. RequestOK(k, d)' /\ Busy(k', d)
      BY <2>1, <3>4, <3>5 DEF RequestOK, Busy, Sweeps
    <3>7. \A v \in Workers \ {w} : d \notin Holds(worker'[v])
      BY <1>1, <2>1, <3>3
    <3>8. QED
      BY <3>2, <3>6, <3>7, SoleHolder
  <2>5. CASE Catch(w) /\ UNCHANGED <<wallet, given>>
    <3>1. Steady(d)'
      BY <1>1, <2>1, <2>5 DEF Steady
    <3>2. QED
      BY <1>0, <1>1, <1>4, <2>1, <2>2, <2>5, <3>1, CatchPeace
  <2>6. ~(d \in disturbed /\ disturbed' = disturbed)
    OBVIOUS
  <2>7. QED
    BY <1>2, <1>4, <2>3, <2>4, <2>5, <2>6
<1>5. QED
  BY <1>3, <1>4

\* recordDonorName follows the row's write: the sweep lets go of the deposit.
LEMMA RecordNamePeace ==
    ASSUME RelayInv, NEW d \in Deposits \ disturbed', Peace(d),
           NEW w \in Workers, RecordName(w)
    PROVE  Peace(d)'
<1> DEFINE k == worker[w]
<1>0. /\ k.pc = "name" /\ worker \in [Workers -> Worker] /\ k \in Worker /\ Still(d)
  BY DEF RecordName, RelayInv, Still
<1>1. CASE k.dep # d
  <2>1. CASE worker' = [worker EXCEPT ![w].pc = "next"]
    <3>1. worker' = [worker EXCEPT ![w] = [k EXCEPT !.pc = "next"]]
      BY <1>0, <2>1
    <3>2. [k EXCEPT !.pc = "next"].dep = k.dep /\ [k EXCEPT !.pc = "next"].rows = k.rows
      BY <1>0 DEF Worker
    <3>3. QED
      BY <1>0, <1>1, <3>1, <3>2, Elsewhere
  <2>2. CASE Catch(w)
    BY <1>0, <1>1, <2>2, CatchElsewhere DEF Catch
  <2>3. QED
    BY <2>1, <2>2 DEF RecordName
<1>2. CASE k.dep = d
  <2>1. d \in At(k) /\ d \in Holds(k) /\ ~Busy(k, d)
    BY <1>0, <1>2 DEF At, Holds, Busy
  <2>2. /\ RequestOK(k, d) /\ Steady(d) /\ AtRest(d)
        /\ \A v \in Workers \ {w} : d \notin Holds(worker[v])
    BY <2>1, Held
  <2>3. worker' = [worker EXCEPT ![w].pc = "next"]
    BY <2>1, FaultElsewhere DEF RecordName
  <2>4. worker' = [worker EXCEPT ![w] = k'] /\ k'.pc = "next" /\ k'.rows = k.rows
    BY <1>0, <2>3 DEF Worker
  <2>5. d \notin Holds(k')
    BY <2>1, <2>2, <2>4 DEF RequestOK, Holds, At
  <2>6. RequestOK(k, d)'
    BY <2>5, AwayKnowsNothingNext
  <2>7. \A v \in Workers \ {w} : d \notin Holds(worker'[v])
    BY <1>0, <2>2, <2>4
  <2>8. QED
    BY <1>0, <2>2, <2>6, <2>7, StillKeeps, SoleHolder
<1>3. QED
  BY <1>1, <1>2

LEMMA CrashPeace ==
    ASSUME RelayInv, NEW d \in Deposits \ disturbed', Peace(d),
           NEW w \in Workers, Crash(w)
    PROVE  Peace(d)'
<1>1. /\ worker \in [Workers -> Worker] /\ Still(d)
      /\ worker' = [worker EXCEPT ![w] = Idle] /\ worker'[w] = Idle
  BY DEF Crash, RelayInv, Still
<1>2. d \notin At(worker[w])
  BY FaultElsewhere DEF Crash
<1>3. d \notin At(worker'[w]) /\ worker'[w].rows = {}
  BY <1>1 DEF At, Idle
<1>4. QED
  BY <1>1, <1>2, <1>3, Away

---------------------------------------------------------------------------
(* Orders and new rows, whoever holds the deposit.                         *)

\* A deposit that is held has a row.
LEMMA HeldHasRow ==
    ASSUME RelayInv, NEW d \in Deposits, Peace(d), NEW w \in Workers,
           d \in Holds(worker[w])
    PROVE  deposit[d].status # "none"
<1> DEFINE k == worker[w]
<1>1. /\ k \in Worker /\ RequestOK(k, d) /\ Steady(d)
      /\ ~Busy(k, d) => AtRest(d)
  BY Held
<1>2. CASE Busy(k, d)
  BY <1>1, <1>2 DEF RequestOK, SweepOK, Trying, ReportOK
<1>3. CASE \E row \in k.rows : row[1] = d
  BY <1>1, <1>3 DEF RequestOK, Selectable
<1>4. CASE k.pc = "pay" /\ k.dep = d
  BY <1>1, <1>4 DEF RequestOK
<1>5. CASE k.pc = "name" /\ k.dep = d
  <2>1. d \in PaidFor
    BY <1>5 DEF RelayInv, Sound
  <2>2. AtRest(d)
    BY <1>1, <1>5 DEF Busy
  <2>3. advanced[d] \in Nat
    BY DEF RelayInv, LedgersOK
  <2>4. QED
    BY <1>1, <2>1, <2>2, <2>3 DEF PaidFor, Paid, Steady, AtRest
<1>6. QED
  BY <1>1, <1>2, <1>3, <1>4, <1>5 DEF Holds, At, Busy, Worker

\* A step outside the requests.
LEMMA EnvironmentPeace ==
    ASSUME RelayInv, NEW d \in Deposits, Peace(d), worker' = worker,
           given'[d] = given[d], tries'[d] = tries[d], advanced'[d] = advanced[d],
           \/ deposit'[d] = deposit[d]
           \/ /\ deposit[d].status = "none"
              /\ deposit'[d].status = "pending"
              /\ deposit'[d].attempts = deposit[d].attempts,
           wallet'[d] \in Nat, wallet'[d] >= wallet[d],
           reported[d] \subseteq reported'[d],
           ~({"COMPLETED", "FAILED"} \subseteq reported'[d]),
           deposit'[d].status = "none" => reported'[d] = {}
    PROVE  Peace(d)'
<1>1. Steady(d)' /\ (AtRest(d) => AtRest(d)')
  <2>1. Steady(d) /\ wallet[d] \in Nat /\ given[d] \in Nat /\ advanced[d] \in Nat
    BY DEF Peace, RelayInv, LedgersOK
  <2>2. QED
    BY <2>1 DEF Steady, AtRest
<1>2. ASSUME NEW w \in Workers PROVE RequestOK(worker[w], d)'
  <2> DEFINE k == worker[w]
  <2>1. CASE d \notin Holds(k)
    BY <2>1, AwayKnowsNothingNext
  <2>2. CASE d \in Holds(k)
    <3>1. RequestOK(k, d)
      BY DEF Peace
    <3>2. deposit'[d] = deposit[d]
      BY <2>2, HeldHasRow
    <3>3. SweepOK(k, d) => SweepOK(k, d)'
      BY <3>2 DEF SweepOK, Trying
    <3>4. ReportOK(k, d) => ReportOK(k, d)'
      BY <1>1, <3>2 DEF ReportOK
    <3>5. Selectable(d)' <=> Selectable(d)
      BY <3>2 DEF Selectable
    <3>6. QED
      BY <3>1, <3>2, <3>3, <3>4, <3>5 DEF RequestOK
  <2>3. QED
    BY <2>1, <2>2
<1>3. QED
  BY <1>1, <1>2 DEF Peace

LEMMA OrdersPeace ==
    ASSUME RelayInv, NEW d \in Deposits, Peace(d), NEW e \in Deposits,
           \/ \E asset \in {"sol", "usdc"} : InitDeposit(e, asset)
           \/ OrderProcesses(e)
           \/ OrderFails(e)
           \/ \E sent \in {0, 1} : OrderCompletes(e, sent)
    PROVE  Peace(d)'
<1>1. /\ Steady(d) /\ wallet[d] \in Nat /\ deposit[d] \in Row
      /\ reported \in [Deposits -> SUBSET {"PROCESSING", "COMPLETED", "FAILED"}]
      /\ wallet \in [Deposits -> Nat] /\ deposit \in [Deposits -> Row]
  BY DEF Peace, RelayInv, LedgersOK
<1>2. ASSUME NEW asset \in {"sol", "usdc"}, InitDeposit(e, asset) PROVE Peace(d)'
  <2> DEFINE row == [ NoRow EXCEPT !.status = "pending", !.asset = asset ]
  <2>0. deposit'[d] = IF e = d THEN row ELSE deposit[d]
    BY <1>1, <1>2 DEF InitDeposit
  <2>1. row.status = "pending" /\ row.attempts = 0
    BY DEF NoRow
  <2>2. e = d => deposit[d].status = "none" /\ deposit[d].attempts = 0
    BY <1>1, <1>2 DEF InitDeposit, Steady
  <2>3. UNCHANGED <<worker, given, tries, advanced, wallet, reported>>
    BY <1>2 DEF InitDeposit
  <2> HIDE DEF row
  <2>4. \/ deposit'[d] = deposit[d]
        \/ /\ deposit[d].status = "none"
           /\ deposit'[d].status = "pending"
           /\ deposit'[d].attempts = deposit[d].attempts
    BY <2>0, <2>1, <2>2
  <2>5. /\ ~({"COMPLETED", "FAILED"} \subseteq reported'[d])
        /\ deposit'[d].status = "none" => reported'[d] = {}
        /\ reported[d] \subseteq reported'[d]
    BY <1>1, <2>3, <2>4 DEF Steady
  <2>6. wallet'[d] \in Nat /\ wallet'[d] >= wallet[d]
    BY <1>1, <2>3
  <2>7. QED
    BY <2>3, <2>4, <2>5, <2>6, EnvironmentPeace
<1>3. CASE \/ OrderProcesses(e) \/ OrderFails(e)
           \/ \E sent \in {0, 1} : OrderCompletes(e, sent)
  <2>1. PICK more \in {"PROCESSING", "COMPLETED", "FAILED"} :
          /\ reported' = [reported EXCEPT ![e] = @ \union {more}]
          /\ \/ /\ reported[e] = {} /\ more = "PROCESSING"
                /\ deposit[e].status # "none"
             \/ reported[e] = {"PROCESSING"}
    <3>1. CASE OrderProcesses(e)
      BY <1>1, <3>1 DEF OrderProcesses
    <3>2. CASE OrderFails(e)
      BY <1>1, <3>2 DEF OrderFails
    <3>3. CASE \E sent \in {0, 1} : OrderCompletes(e, sent)
      BY <1>1, <3>3 DEF OrderCompletes
    <3>4. QED
      BY <1>3, <3>1, <3>2, <3>3
  <2>2. /\ UNCHANGED <<worker, deposit, given, tries, advanced>>
        /\ wallet'[d] \in Nat /\ wallet'[d] >= wallet[d]
    BY <1>1, <1>3 DEF OrderProcesses, OrderFails, OrderCompletes
  <2>3. /\ reported[d] \subseteq reported'[d]
        /\ ~({"COMPLETED", "FAILED"} \subseteq reported'[d])
        /\ deposit'[d].status = "none" => reported'[d] = {}
    <3>1. CASE e = d
      BY <1>1, <2>1, <2>2, <3>1 DEF Steady
    <3>2. CASE e # d
      BY <1>1, <2>1, <2>2, <3>2 DEF Steady
    <3>3. QED
      BY <3>1, <3>2
  <2>4. QED
    BY <2>2, <2>3, EnvironmentPeace
<1>4. QED
  BY <1>2, <1>3

---------------------------------------------------------------------------

\* What was disturbed stays so.
LEMMA DisturbedGrows ==
    ASSUME [Next]_vars
    PROVE  disturbed \subseteq disturbed'
<1>1. ASSUME NEW w \in Workers, Step(w) \/ Crash(w) \/ Sweep(w)
      PROVE  disturbed \subseteq disturbed'
  BY <1>1 DEF Step, Crash, Sweep, Take, Fault, ReadRow, WriteRow, DevPay, NextRow,
              Prefund, TopUp, Give, RecordName
<1>2. ASSUME NEW w \in Workers, NEW d \in Deposits, NEW status,
             Webhook(w, d, status) \/ DevFund(w, d)
      PROVE  disturbed \subseteq disturbed'
  BY <1>2 DEF Webhook, DevFund, Take
<1>3. QED
  BY <1>1, <1>2
  DEF Next, vars, JarCloses, InitDeposit, OrderProcesses, OrderFails, OrderCompletes

\* A request that is idle knows nothing.
LEMMA IdleInvStep == RelayInv /\ IdleInv /\ [Next]_vars => IdleInv'
<1> SUFFICES ASSUME RelayInv, IdleInv, [Next]_vars,
                    NEW v \in Workers, worker'[v].pc = "idle"
             PROVE  worker'[v] = Idle
  BY DEF IdleInv
<1>1. worker \in [Workers -> Worker] /\ (worker[v].pc = "idle" => worker[v] = Idle)
  BY DEF RelayInv, IdleInv
<1>2. ASSUME NEW w \in Workers, NEW d, NEW patch, NEW after, Call(w, d, patch, after)
      PROVE  worker'[v] = Idle
  <2>1. w = v => worker'[v].pc = "read"
    BY <1>1, <1>2, CallMoves, CallingFields
  <2>2. QED
    BY <1>1, <1>2, <2>1 DEF Call
<1>3. ASSUME NEW w \in Workers, NEW k2, worker' = [worker EXCEPT ![w] = k2],
             k2 = Idle \/ k2.pc # "idle"
      PROVE  worker'[v] = Idle
  BY <1>1, <1>3
<1>4. ASSUME NEW w \in Workers, WriteRow(w) PROVE worker'[v] = Idle
  <2>1. /\ worker' = [worker EXCEPT ![w] = worker'[w]]
        /\ worker'[w] = IF worker[w].after = "idle" THEN Idle
                        ELSE [worker[w] EXCEPT !.pc = worker[w].after]
    BY <1>1, <1>4 DEF WriteRow
  <2>2. worker'[w] = Idle \/ worker'[w].pc # "idle"
    BY <1>1, <2>1 DEF Worker
  <2>3. QED
    BY <1>3, <2>1, <2>2
<1>5. ASSUME NEW w \in Workers,
             \/ \E d \in Deposits : DevFund(w, d)
             \/ Sweep(w) \/ ReadRow(w) \/ NextRow(w) \/ Prefund(w) \/ Crash(w)
      PROVE  worker'[v] = Idle
  <2>1. PICK k2 :
          /\ worker' = [worker EXCEPT ![w] = k2]
          /\ k2 = Idle \/ k2.pc # "idle"
    <3>1. CASE \E d \in Deposits : DevFund(w, d)
      <4>1. PICK d : worker' = [worker EXCEPT ![w].pc = "pay", ![w].dep = d]
        BY <3>1 DEF DevFund
      <4>2. worker' = [worker EXCEPT ![w] = worker'[w]] /\ worker'[w].pc = "pay"
        BY <1>1, <4>1 DEF Worker
      <4>3. QED
        BY <4>2
    <3>2. CASE Sweep(w)
      <4>1. PICK rows : worker' = [worker EXCEPT ![w].pc = "next", ![w].rows = rows]
        BY <3>2 DEF Sweep
      <4>2. worker' = [worker EXCEPT ![w] = worker'[w]] /\ worker'[w].pc = "next"
        BY <1>1, <4>1 DEF Worker
      <4>3. QED
        BY <4>2
    <3>3. CASE ReadRow(w)
      <4>1. worker' = [worker EXCEPT ![w] = worker'[w]] /\ worker'[w].pc = "write"
        BY <1>1, <3>3 DEF ReadRow, Worker
      <4>2. QED
        BY <4>1
    <3>4. CASE NextRow(w)
      <4>1. ASSUME NEW row \in worker[w].rows,
                   worker' = [worker EXCEPT ![w].pc = "prefund", ![w].dep = row[1],
                                ![w].attempts = row[2], ![w].rows = @ \ {row}]
            PROVE  worker' = [worker EXCEPT ![w] = worker'[w]] /\ worker'[w].pc = "prefund"
        BY <1>1, <4>1 DEF Worker
      <4>2. QED
        BY <3>4, <4>1 DEF NextRow
    <3>5. CASE Prefund(w)
      <4>1. PICK pc \in {"topUp", "give"} : worker' = [worker EXCEPT ![w].pc = pc]
        BY <3>5 DEF Prefund
      <4>2. worker' = [worker EXCEPT ![w] = [worker[w] EXCEPT !.pc = pc]]
        BY <1>1, <4>1
      <4>3. [worker[w] EXCEPT !.pc = pc].pc # "idle"
        BY <1>1 DEF Worker
      <4>4. QED
        BY <4>2, <4>3
    <3>6. CASE Crash(w)
      BY <3>6 DEF Crash
    <3>7. QED
      BY <1>5, <3>1, <3>2, <3>3, <3>4, <3>5, <3>6
  <2>2. QED
    BY <1>3, <2>1
<1>6. ASSUME NEW w \in Workers, DevPay(w) \/ TopUp(w) \/ Give(w) \/ RecordName(w)
      PROVE  worker'[v] = Idle
  <2>1. \/ \E d, patch, after : Call(w, d, patch, after)
        \/ worker' = [worker EXCEPT ![w] = Idle]
        \/ worker' = [worker EXCEPT ![w].pc = "give"]
        \/ worker' = [worker EXCEPT ![w].pc = "next"]
    BY <1>6 DEF DevPay, TopUp, Give, RecordName, Catch
  <2>2. ASSUME NEW pc \in {"give", "next"}, worker' = [worker EXCEPT ![w].pc = pc]
        PROVE  worker'[v] = Idle
    <3>1. /\ worker' = [worker EXCEPT ![w] = worker'[w]]
          /\ worker'[w].pc # "idle"
      BY <1>1, <2>2 DEF Worker
    <3>2. QED
      BY <1>3, <3>1
  <2>3. QED
    BY <1>2, <1>3, <2>1, <2>2
<1>7. CASE worker' = worker
  BY <1>1, <1>7
<1>8. ASSUME NEW w \in Workers, NEW d \in Deposits, NEW status, Webhook(w, d, status)
      PROVE  worker'[v] = Idle
  BY <1>2, <1>8 DEF Webhook
<1>9. QED
  BY <1>4, <1>5, <1>6, <1>7, <1>8
  DEF Next, vars, Step, JarCloses, InitDeposit, OrderProcesses, OrderFails,
      OrderCompletes

LEMMA PeaceInit == Init => PeaceInv
<1> SUFFICES ASSUME Init PROVE PeaceInv
  OBVIOUS
<1>1. \A w \in Workers : worker[w] = Idle
  BY DEF Init
<1>2. ASSUME NEW d \in Deposits PROVE Peace(d)
  <2>1. Steady(d) /\ AtRest(d)
    BY RelayAssumption DEF Init, Steady, AtRest, NoRow
  <2>2. d \notin Holds(Idle)
    BY DEF Holds, At, Idle
  <2>3. \A w \in Workers : RequestOK(worker[w], d)
    BY <1>1, <2>2, AwayKnowsNothing
  <2>4. QED
    BY <1>1, <2>1, <2>2, <2>3 DEF Peace
<1>3. QED
  BY <1>1, <1>2 DEF PeaceInv, IdleInv

LEMMA PeaceInvStep == RelayInv /\ PeaceInv /\ [Next]_vars => PeaceInv'
<1> SUFFICES ASSUME RelayInv, PeaceInv, [Next]_vars PROVE PeaceInv'
  OBVIOUS
<1>1. IdleInv /\ IdleInv'
  BY IdleInvStep DEF PeaceInv
<1>2. ASSUME NEW d \in Deposits \ disturbed' PROVE Peace(d)'
  <2>0. Peace(d)
    BY DisturbedGrows DEF PeaceInv
  <2>1. CASE JarCloses \/ UNCHANGED vars
    <3>1. Still(d) /\ worker' = worker
      BY <2>1 DEF JarCloses, vars, Still
    <3>2. Steady(d) /\ wallet[d] \in Nat
      BY <2>0 DEF Peace, RelayInv, LedgersOK
    <3>3. QED
      BY <2>0, <3>1, <3>2, EnvironmentPeace DEF Still, Steady
  <2>2. ASSUME NEW e \in Deposits,
               \/ \E asset \in Assets : InitDeposit(e, asset)
               \/ OrderProcesses(e)
               \/ OrderFails(e)
               \/ \E sent \in {0, 1} : OrderCompletes(e, sent)
        PROVE  Peace(d)'
    BY <2>0, <2>2, OrdersPeace, RelayAssumption
  <2>3. ASSUME NEW w \in Workers, NEW e \in Deposits, NEW status,
               Webhook(w, e, status) \/ DevFund(w, e)
        PROVE  Peace(d)'
    BY <1>1, <2>0, <2>3, WebhookPeace, DevFundPeace
  <2>4. ASSUME NEW w \in Workers, Sweep(w) \/ Step(w) \/ Crash(w)
        PROVE  Peace(d)'
    BY <1>1, <2>0, <2>4, SweepPeace, CrashPeace, ReadRowPeace, WriteRowPeace,
       DevPayPeace, NextRowPeace, PrefundPeace, TopUpPeace, GivePeace, RecordNamePeace
    DEF Step
  <2>5. QED
    BY <2>1, <2>2, <2>3, <2>4 DEF Next
<1>3. QED
  BY <1>1, <1>2 DEF PeaceInv

LEMMA PeaceAlways == Spec => [](RelayInv /\ PeaceInv)
  BY RelayInvInit, PeaceInit, RelayInvStep, PeaceInvStep, PTL DEF Spec

\* Until two requests hold a deposit at a time, or a fault hits one at work on
\* it, the relay contributes to its jar at most once, however often webhooks are
\* repeated, whenever sweepFundedDeposits runs and whatever befalls the others.
THEOREM OneContribution == Spec => []ContributedOnce
<1>1. PeaceInv => ContributedOnce
  BY DEF PeaceInv, Peace, Steady, ContributedOnce, Undisturbed
<1>2. QED
  BY <1>1, PeaceAlways, PTL

\* Until then, the treasury tops a deposit's wallet up at most once
\* (relayContribute, dev-fund's route).
THEOREM OneAdvance == Spec => []AdvancedOnce
<1>1. PeaceInv => AdvancedOnce
  BY DEF PeaceInv, Peace, Steady, AdvancedOnce, Undisturbed
<1>2. QED
  BY <1>1, PeaceAlways, PTL

\* Until then, a deposit is never tried more often than MAX_ATTEMPTS: the row
\* counts every try of sweepFundedDeposits.
THEOREM TriesEnd == Spec => []TriesAreBounded
<1>1. RelayInv /\ PeaceInv => TriesAreBounded
  <2> SUFFICES ASSUME RelayInv, PeaceInv, NEW d \in Deposits \ disturbed
               PROVE  tries[d] <= MAX_ATTEMPTS
    BY DEF TriesAreBounded, Undisturbed
  <2>0. Peace(d)
    BY DEF PeaceInv
  <2>1. Steady(d) /\ deposit[d].attempts \in Nat /\ MAX_ATTEMPTS \in Nat
    BY <2>0, RelayAssumption DEF Peace, RelayInv, LedgersOK, Row
  <2>2. CASE tries[d] = deposit[d].attempts
    BY <2>1, <2>2 DEF Steady
  <2>3. ASSUME NEW w \in Workers, Busy(worker[w], d) PROVE tries[d] <= MAX_ATTEMPTS
    <3>1. SweepOK(worker[w], d) \/ ReportOK(worker[w], d)
      BY <2>0, <2>3 DEF Peace, RequestOK
    <3>2. QED
      BY <2>1, <3>1 DEF SweepOK, Trying, ReportOK, Steady
  <2>4. QED
    BY <2>0, <2>2, <2>3 DEF Peace, AtRest
<1>2. QED
  BY <1>1, PeaceAlways, PTL

---------------------------------------------------------------------------
(* The life of a deposit.                                                  *)

StatusMap == [d \in Deposits |-> IF d \in disturbed THEN "disturbed"
                                 ELSE deposit[d].status]

LEMMA AfterEach ==
    /\ Life!After["none"] = {"pending"}
    /\ Life!After["pending"] = {"funded", "failed"}
    /\ Life!After["funded"] = {"contributed", "failed"}
    /\ Life!After["contributed"] = {"failed"}
    /\ Life!After["failed"] = {"funded"}
  BY DEF Life!After

\* The row of an undisturbed deposit moves as its life says, or stays.
LEMMA WriteRowLives ==
    ASSUME RelayInv, PeaceInv, NEW w \in Workers, WriteRow(w),
           NEW d \in Deposits \ disturbed, d = worker[w].dep
    PROVE  \/ deposit'[d].status = deposit[d].status
           \/ deposit'[d].status \in Life!After[deposit[d].status]
<1> DEFINE k == worker[w]
<1>0. k.pc = "write" /\ Peace(d) /\ d \in Holds(k) /\ Busy(k, d)
  BY DEF WriteRow, PeaceInv, Holds, At, Busy
<1>1. k \in Worker /\ RequestOK(k, d) /\ deposit[d] \in Row
  BY <1>0, Held
<1>2. deposit'[d] = Patched(deposit[d], k.patch)
  BY <1>0, <1>1 DEF WriteRow, RelayInv, LedgersOK, RequestOK
<1>3. deposit'[d].status = IF k.patch.status = "keep" THEN deposit[d].status
                           ELSE k.patch.status
  BY <1>2 DEF Patched
<1>4. CASE Sweeps(k)
  <2>1. SweepOK(k, d)
    BY <1>0, <1>1, <1>4 DEF RequestOK
  <2>2. /\ deposit[d].status = "funded"
        /\ k.patch.status \in {"funded", "failed", "contributed"}
    BY <1>0, <2>1 DEF SweepOK, Trying, Retry, Contributed
  <2>3. QED
    BY <1>3, <2>2, AfterEach
<1>5. CASE ~Sweeps(k)
  <2>1. ReportOK(k, d)
    BY <1>0, <1>1, <1>5 DEF RequestOK
  <2>2. k.patch.status \in {"keep", "funded", "contributed", "failed"}
    BY <1>1, <2>1 DEF ReportOK, Worker, Patch, Statuses
  <2>3. deposit[d].status \in {"pending", "funded", "contributed", "failed"}
    BY <1>1, <2>1 DEF ReportOK, Row, Statuses
  <2>4. /\ k.patch.status = "funded" => deposit[d].status # "contributed"
        /\ k.patch.status = "contributed" => deposit[d].status = "contributed"
    BY <2>1 DEF ReportOK
  <2>5. QED
    BY <1>3, <2>2, <2>3, <2>4, AfterEach
<1>6. QED
  BY <1>4, <1>5

\* Only deposits with a row are disturbed.
LEMMA DisturbedHasRow ==
    ASSUME RelayInv, PeaceInv, [Next]_vars, NEW d \in disturbed' \ disturbed,
           d \in Deposits
    PROVE  deposit[d].status # "none"
<1>0. Peace(d)
  BY DEF PeaceInv
<1>1. ASSUME NEW v \in Workers, d \in Holds(worker[v]) \/ d \in At(worker[v])
      PROVE  deposit[d].status # "none"
  BY <1>0, <1>1, HeldHasRow DEF Holds
<1>2. ASSUME NEW w \in Workers, NEW ds, Take(w, ds) PROVE deposit[d].status # "none"
  BY <1>1, <1>2 DEF Take
<1>3. ASSUME NEW w \in Workers, NEW kind, Fault(kind, w)
      PROVE  deposit[d].status # "none"
  BY <1>1, <1>3 DEF Fault
<1>4. ASSUME NEW w \in Workers, NEW e \in Deposits, NEW status,
             Webhook(w, e, status) \/ DevFund(w, e)
      PROVE  deposit[d].status # "none"
  BY <1>2, <1>4 DEF Webhook, DevFund
<1>5. ASSUME NEW w \in Workers, Sweep(w) PROVE deposit[d].status # "none"
  BY <1>2, <1>5 DEF Sweep
<1>6. ASSUME NEW w \in Workers, Step(w) \/ Crash(w)
      PROVE  disturbed' = disturbed \/ \E kind : Fault(kind, w)
  BY <1>6 DEF Step, Crash, ReadRow, WriteRow, DevPay, NextRow, Prefund, TopUp,
              Give, RecordName
<1>7. QED
  BY <1>3, <1>4, <1>5, <1>6
  DEF Next, vars, JarCloses, InitDeposit, OrderProcesses, OrderFails, OrderCompletes

LEMMA LifeStep ==
    RelayInv /\ PeaceInv /\ DisturbedOK /\ [Next]_vars => [Life!Next]_StatusMap
<1> SUFFICES ASSUME RelayInv, PeaceInv, disturbed \subseteq Deposits,
                    disturbed' \subseteq Deposits, [Next]_vars
             PROVE  [Life!Next]_StatusMap
  BY DisturbedStep DEF DisturbedOK
<1>1. CASE deposit' = deposit
  <2>0. PICK ds \in SUBSET Deposits : ds = disturbed' \ disturbed
    OBVIOUS
  <2>1. \A d \in ds : StatusMap[d] # "none"
    BY <2>0, DisturbedHasRow DEF StatusMap
  <2>2. StatusMap' = [d \in Deposits |-> IF d \in ds THEN "disturbed" ELSE StatusMap[d]]
    BY <1>1, <2>0, DisturbedGrows DEF StatusMap
  <2>3. Life!Disturb(ds)
    <3>1. \A d \in ds : [e \in Deposits |-> IF e \in disturbed THEN "disturbed"
                                        ELSE deposit[e].status][d] # "none"
      BY <2>1 DEF StatusMap
    <3>2. [e \in Deposits |-> IF e \in disturbed THEN "disturbed"
                             ELSE deposit[e].status]'
          = [d \in Deposits |->
               IF d \in ds THEN "disturbed"
               ELSE [e \in Deposits |-> IF e \in disturbed THEN "disturbed"
                                       ELSE deposit[e].status][d]]
      BY <2>2 DEF StatusMap
    <3>3. QED
      BY <3>1, <3>2 DEF Life!Disturb
  <2>4. QED
    BY <2>3 DEF Life!Next
<1>2. ASSUME NEW d \in Deposits, disturbed' = disturbed,
             \A e \in Deposits \ {d} : deposit'[e] = deposit[e],
             d \notin disturbed =>
                \/ deposit'[d].status = deposit[d].status
                \/ deposit'[d].status \in Life!After[deposit[d].status]
      PROVE  [Life!Next]_StatusMap
  <2>1. CASE d \in disturbed \/ deposit'[d].status = deposit[d].status
    <3>1. StatusMap' = StatusMap
      BY <1>2, <2>1 DEF StatusMap
    <3>2. QED
      BY <3>1
  <2>2. CASE d \notin disturbed /\ deposit'[d].status \in Life!After[deposit[d].status]
    <3>1. StatusMap' = [StatusMap EXCEPT ![d] = deposit'[d].status]
      BY <1>2, <2>2 DEF StatusMap
    <3>2. Life!Move(d)
      BY <2>2, <3>1 DEF Life!Move, StatusMap
    <3>3. QED
      BY <3>2 DEF Life!Next
  <2>3. QED
    BY <1>2, <2>1, <2>2
<1>3. ASSUME NEW d \in Deposits, NEW asset, InitDeposit(d, asset)
      PROVE  [Life!Next]_StatusMap
  <2>1. /\ \A e \in Deposits \ {d} : deposit'[e] = deposit[e]
        /\ deposit[d].status = "none" /\ deposit'[d].status = "pending"
        /\ disturbed' = disturbed
    BY <1>3 DEF InitDeposit, RelayInv, LedgersOK, NoRow
  <2>2. QED
    BY <1>2, <2>1, AfterEach
<1>4. ASSUME NEW w \in Workers, WriteRow(w)
      PROVE  [Life!Next]_StatusMap
  <2>0. PICK d \in Deposits : d = worker[w].dep
    BY <1>4 DEF WriteRow, RelayInv, Sound
  <2>1. /\ \A e \in Deposits \ {d} : deposit'[e] = deposit[e]
        /\ disturbed' = disturbed
    BY <1>4, <2>0 DEF WriteRow, RelayInv, LedgersOK
  <2>2. QED
    BY <1>2, <1>4, <2>0, <2>1, WriteRowLives
<1>5. QED
  <2>1. \/ deposit' = deposit
        \/ \E d \in Deposits, asset \in Assets : InitDeposit(d, asset)
        \/ \E w \in Workers : WriteRow(w)
    BY DEF Next, vars, JarCloses, OrderProcesses, OrderFails, OrderCompletes, Webhook,
           DevFund, Sweep, Step, Crash, ReadRow, DevPay, NextRow, Prefund, TopUp, Give,
           RecordName
  <2>2. QED
    BY <1>1, <1>3, <1>4, <2>1

LEMMA DisturbedInit == Init => DisturbedOK
  BY DEF Init, DisturbedOK

\* Until a deposit is disturbed, its row moves as DepositLife says: no status is
\* taken back except as that module allows, whatever webhooks and sweeps do in
\* between; and only a deposit that has a row is ever disturbed.
THEOREM KeepsTheLife == Spec => FollowsLife
<1>1. Init => Life!Init
  BY DEF Init, Life!Init, NoRow
<1>2. Spec => []DisturbedOK
  BY RelayInvAlways, DisturbedInit, DisturbedStep, PTL DEF Spec
<1>3. QED
  BY <1>1, <1>2, PeaceAlways, LifeStep, PTL DEF Spec, FollowsLife, Life!Spec, StatusMap
=============================================================================
