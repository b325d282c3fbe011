------------------------------ MODULE CardRelay ------------------------------
(***************************************************************************)
(* The card relay: a donor pays Transak by card, Transak sends the crypto  *)
(* to a wallet made for this deposit, and the relay contributes it to the  *)
(* jar on the donor's behalf.                                              *)
(*                                                                         *)
(* A deposit is a row of transak_deposits.  Requests run in workers that   *)
(* may overlap; every await (a database statement, a transaction) is one   *)
(* step of a worker.  setDepositStatus reads the row and writes all its    *)
(* columns back in a second statement.                                     *)
(*                                                                         *)
(* Money is counted in whole gifts: a wallet, or the relay's treasury,     *)
(* holds enough for that many contributions (the small prefund for rent    *)
(* and transaction fees is left out).  Transak and the chain are external, *)
(* modelled from how the relay uses them.                                  *)
(***************************************************************************)
EXTENDS Naturals, FiniteSets

CONSTANTS
    Deposits,           \* the rows of transak_deposits
    Workers,            \* requests in progress; one: they never overlap
    Assets,             \* subset of {"sol", "usdc"}: the jar's asset
    MAX_ATTEMPTS,       \* 5 in the source
    Faults,             \* subset of {"crash", "lostConfirmation", "nameWrite"}
    TreasuryGifts,      \* gifts the relay's treasury can pay for
    MaxWebhooks,        \* bound: webhook deliveries
    NoDeposit

ASSUME RelayAssumption ==
    /\ Assets \subseteq {"sol", "usdc"}
    /\ MAX_ATTEMPTS \in Nat \ {0}
    /\ TreasuryGifts \in Nat /\ MaxWebhooks \in Nat
    /\ NoDeposit \notin Deposits

VARIABLES
    jarOpen,        \* the jar on chain is active
    deposit,        \* per deposit: its row
    reported,       \* per deposit: statuses its Transak order went through
    wallet,         \* per deposit: gifts its wallet holds
    given,          \* per deposit: contributions that landed on chain
    tries,          \* per deposit: how often a sweep tried it (saturates)
    treasury,       \* gifts left in the relay's treasury
    advanced,       \* per deposit: gifts the treasury paid into its wallet
    webhooks,       \* webhook deliveries so far
    worker,         \* per worker: where its request is
    failedGifts,    \* deposits of which a contribution that may have a copy
                    \* was executed and failed
    disturbed       \* history: deposits that two requests held at a time, or
                    \* that a fault hit while a request was at work on them

vars == <<jarOpen, deposit, reported, wallet, given, tries, treasury, advanced,
          webhooks, worker, failedGifts, disturbed>>

Statuses == {"pending", "funded", "contributed", "failed"}

Row == [status : Statuses \union {"none"}, asset : {"sol", "usdc"},
        attempts : Nat, signed : BOOLEAN]

NoRow == [status |-> "none", asset |-> "sol", attempts |-> 0, signed |-> FALSE]

\* What a call of setDepositStatus changes; "keep" is an undefined status.
Patch == [status : Statuses \union {"keep"}, signed : BOOLEAN, bump : BOOLEAN]

NoPatch == [status |-> "keep", signed |-> FALSE, bump |-> FALSE]

Worker == [ pc : {"idle", "pay", "next", "prefund", "topUp", "give", "read",
                  "write", "name"},
            dep : Deposits \union {NoDeposit},
            rows : SUBSET (Deposits \X Nat),    \* selected: id and attempts
            attempts : Nat,                     \* of the row being swept
            patch : Patch, seen : Row,
            after : {"idle", "next", "name"} ]  \* once the row is written

Idle == [ pc |-> "idle", dep |-> NoDeposit, rows |-> {}, attempts |-> 0,
          patch |-> NoPatch, seen |-> NoRow, after |-> "idle" ]

TypeOK ==
    /\ jarOpen \in BOOLEAN
    /\ deposit \in [Deposits -> Row]
    /\ reported \in [Deposits -> SUBSET {"PROCESSING", "COMPLETED", "FAILED"}]
    /\ wallet \in [Deposits -> Nat]
    /\ given \in [Deposits -> Nat]
    /\ tries \in [Deposits -> 0 .. MAX_ATTEMPTS + 1]
    /\ treasury \in Nat
    /\ advanced \in [Deposits -> Nat]
    /\ webhooks \in 0 .. MaxWebhooks
    /\ worker \in [Workers -> Worker]
    /\ failedGifts \subseteq Deposits
    /\ disturbed \subseteq Deposits

Init ==
    /\ jarOpen = TRUE
    /\ deposit = [d \in Deposits |-> NoRow]
    /\ reported = [d \in Deposits |-> {}]
    /\ wallet = [d \in Deposits |-> 0]
    /\ given = [d \in Deposits |-> 0]
    /\ tries = [d \in Deposits |-> 0]
    /\ treasury = TreasuryGifts
    /\ advanced = [d \in Deposits |-> 0]
    /\ webhooks = 0
    /\ worker = [w \in Workers |-> Idle]
    /\ failedGifts = {}
    /\ disturbed = {}

---------------------------------------------------------------------------
(* The chain, Transak and the donor.                                       *)

JarCloses ==
    /\ jarOpen
    /\ jarOpen' = FALSE
    /\ UNCHANGED <<deposit, reported, wallet, given, tries, treasury, advanced,
                   webhooks, worker, failedGifts, disturbed>>

InitDeposit(d, asset) ==
    /\ jarOpen
    /\ deposit[d].status = "none"
    /\ deposit' = [deposit EXCEPT ![d] = [ NoRow EXCEPT !.status = "pending",
                                                        !.asset = asset ]]
    /\ UNCHANGED <<jarOpen, reported, wallet, given, tries, treasury, advanced,
                   webhooks, worker, failedGifts, disturbed>>

OrderProcesses(d) ==
    /\ deposit[d].status # "none"
    /\ reported[d] = {}
    /\ reported' = [reported EXCEPT ![d] = {"PROCESSING"}]
    /\ UNCHANGED <<jarOpen, deposit, wallet, given, tries, treasury, advanced,
                   webhooks, worker, failedGifts, disturbed>>

OrderFails(d) ==
    /\ reported[d] = {"PROCESSING"}
    /\ reported' = [reported EXCEPT ![d] = @ \union {"FAILED"}]
    /\ UNCHANGED <<jarOpen, deposit, wallet, given, tries, treasury, advanced,
                   webhooks, worker, failedGifts, disturbed>>

\* What Transak sends may fall short of what was asked for.
OrderCompletes(d, sent) ==
    /\ reported[d] = {"PROCESSING"}
    /\ reported' = [reported EXCEPT ![d] = @ \union {"COMPLETED"}]
    /\ wallet' = [wallet EXCEPT ![d] = @ + sent]
    /\ UNCHANGED <<jarOpen, deposit, given, tries, treasury, advanced,
                   webhooks, worker, failedGifts, disturbed>>

---------------------------------------------------------------------------
(* setDepositStatus, called with a patch and a place to go on to.          *)

\* The deposits a request holds: the one it is at work on, and those it has
\* selected.
At(k) == IF k.pc \in {"idle", "next"} THEN {} ELSE {k.dep}

Holds(k) == At(k) \union {row[1] : row \in k.rows}

\* Request w takes hold of the deposits ds, which others may hold already.
Take(w, ds) ==
    disturbed' = disturbed \union
        {d \in ds : \E v \in Workers \ {w} : d \in Holds(worker[v])}

Call(w, d, patch, after) ==
    worker' = [worker EXCEPT ![w].pc = "read", ![w].dep = d,
                             ![w].patch = patch, ![w].after = after]

Funded == [NoPatch EXCEPT !.status = "funded"]

ReadRow(w) ==
    /\ worker[w].pc = "read"
    /\ worker' = [worker EXCEPT ![w].pc = "write",
                                ![w].seen = deposit[worker[w].dep]]
    /\ UNCHANGED <<jarOpen, deposit, reported, wallet, given, tries, treasury,
                   advanced, webhooks, failedGifts, disturbed>>

\* Mutation: attempts are never counted.
PatchedNoBump(row, patch) ==
    [ status |-> IF patch.status = "keep" THEN row.status ELSE patch.status,
      asset |-> row.asset,
      attempts |-> row.attempts,
      signed |-> row.signed \/ patch.signed ]

Patched(row, patch) ==
    [ status |-> IF patch.status = "keep" THEN row.status ELSE patch.status,
      asset |-> row.asset,
      attempts |-> IF patch.bump THEN row.attempts + 1 ELSE row.attempts,
      signed |-> row.signed \/ patch.signed ]

WriteRow(w) ==
    LET k == worker[w]
    IN  /\ k.pc = "write"
        /\ deposit' = [deposit EXCEPT ![k.dep] = Patched(k.seen, k.patch)]
        /\ worker' = [worker EXCEPT ![w] =
                        IF k.after = "idle" THEN Idle
                        ELSE [k EXCEPT !.pc = k.after]]
        /\ UNCHANGED <<jarOpen, reported, wallet, given, tries, treasury,
                       advanced, webhooks, failedGifts, disturbed>>

---------------------------------------------------------------------------
(* POST /api/transak/webhook: any status of the order, again or late.      *)

\* Mutation: a repeated report re-opens a contributed deposit.
WebhookPatchReopens(status, current) ==
    CASE status = "COMPLETED" -> Funded
      [] status = "FAILED" -> [NoPatch EXCEPT !.status = "failed"]
      [] OTHER -> NoPatch

\* Mutation: a report of completion always says contributed.
WebhookPatchContributes(status, current) ==
    IF status = "COMPLETED" THEN [NoPatch EXCEPT !.status = "contributed"]
    ELSE NoPatch

WebhookPatch(status, current) ==
    CASE status = "COMPLETED" ->
            [NoPatch EXCEPT !.status = IF current = "contributed"
                                       THEN "contributed" ELSE "funded"]
      [] status = "FAILED" -> [NoPatch EXCEPT !.status = "failed"]
      [] OTHER -> NoPatch

Webhook(w, d, status) ==
    /\ worker[w].pc = "idle"
    /\ webhooks < MaxWebhooks
    /\ status \in reported[d]
    /\ webhooks' = webhooks + 1
    /\ Call(w, d, WebhookPatch(status, deposit[d].status), "idle")
    /\ Take(w, {d})
    /\ UNCHANGED <<jarOpen, deposit, reported, wallet, given, tries, treasury,
                   advanced, failedGifts>>

---------------------------------------------------------------------------
(* The relay's treasury pays one gift into a deposit's wallet.             *)

Advance(d) ==
    /\ treasury > 0
    /\ treasury' = treasury - 1
    /\ wallet' = [wallet EXCEPT ![d] = @ + 1]
    /\ advanced' = [advanced EXCEPT ![d] = @ + 1]

\* What befalls a request at work on a deposit.
Fault(kind, w) ==
    /\ kind \in Faults
    /\ disturbed' = disturbed \union At(worker[w])

\* POST /api/transak/dev-fund: the operator pays a pending deposit.
DevFund(w, d) ==
    /\ worker[w].pc = "idle"
    /\ deposit[d].status = "pending"
    /\ worker' = [worker EXCEPT ![w].pc = "pay", ![w].dep = d]
    /\ Take(w, {d})
    /\ UNCHANGED <<jarOpen, deposit, reported, wallet, given, tries, treasury,
                   advanced, webhooks, failedGifts>>

DevPay(w) ==
    /\ worker[w].pc = "pay"
    /\ \/ /\ Advance(worker[w].dep)
          /\ \/ Call(w, worker[w].dep, Funded, "idle") /\ UNCHANGED disturbed
             \/ /\ Fault("lostConfirmation", w)
                /\ worker' = [worker EXCEPT ![w] = Idle]
       \/ /\ worker' = [worker EXCEPT ![w] = Idle]
          /\ UNCHANGED <<treasury, wallet, advanced, disturbed>>
    /\ UNCHANGED <<jarOpen, deposit, reported, given, tries, webhooks,
                   failedGifts>>

---------------------------------------------------------------------------
(* sweepFundedDeposits, called by the cron job after the indexer.          *)

\* Mutation: every deposit that has not ended is swept.
SelectableOpen(d) ==
    /\ deposit[d].status \in {"pending", "funded"}
    /\ deposit[d].attempts < MAX_ATTEMPTS

Selectable(d) ==
    /\ deposit[d].status = "funded"
    /\ deposit[d].attempts < MAX_ATTEMPTS

Sweep(w) ==
    LET rows == {<<d, deposit[d].attempts>> : d \in {x \in Deposits : Selectable(x)}}
    IN  /\ worker[w].pc = "idle"
        /\ rows # {}
        /\ worker' = [worker EXCEPT ![w].pc = "next", ![w].rows = rows]
        /\ Take(w, {d \in Deposits : Selectable(d)})
        /\ UNCHANGED <<jarOpen, deposit, reported, wallet, given, tries,
                       treasury, advanced, webhooks, failedGifts>>

\* The query names no order.
NextRow(w) ==
    /\ worker[w].pc = "next"
    /\ \/ /\ worker[w].rows = {}
          /\ worker' = [worker EXCEPT ![w] = Idle]
          /\ UNCHANGED tries
       \/ \E row \in worker[w].rows :
             /\ worker' = [worker EXCEPT ![w].pc = "prefund",
                                         ![w].dep = row[1],
                                         ![w].attempts = row[2],
                                         ![w].rows = @ \ {row}]
             /\ tries' = [tries EXCEPT ![row[1]] =
                            IF @ <= MAX_ATTEMPTS THEN @ + 1 ELSE @]
    /\ UNCHANGED <<jarOpen, deposit, reported, wallet, given, treasury,
                   advanced, webhooks, failedGifts, disturbed>>

\* Mutation: the last failure is tried again.
RetryForever(attempts) == [status |-> "funded", signed |-> FALSE, bump |-> TRUE]

\* The catch block decides from the attempts the row had when selected.
Retry(attempts) ==
    [ status |-> IF attempts + 1 >= MAX_ATTEMPTS THEN "failed" ELSE "funded",
      signed |-> FALSE, bump |-> TRUE ]

Catch(w) == Call(w, worker[w].dep, Retry(worker[w].attempts), "next")

\* Mutation: the wallet is topped up without looking at its balance.
ShortAlways(d) == deposit[d].asset = "sol"

\* Only lamports are topped up from the treasury.
Short(d) == deposit[d].asset = "sol" /\ wallet[d] = 0

Prefund(w) ==
    /\ worker[w].pc = "prefund"
    /\ worker' = [worker EXCEPT ![w].pc = IF Short(worker[w].dep)
                                          THEN "topUp" ELSE "give"]
    /\ UNCHANGED <<jarOpen, deposit, reported, wallet, given, tries, treasury,
                   advanced, webhooks, failedGifts, disturbed>>

TopUp(w) ==
    /\ worker[w].pc = "topUp"
    /\ \/ /\ Advance(worker[w].dep)
          /\ \/ /\ worker' = [worker EXCEPT ![w].pc = "give"]
                /\ UNCHANGED disturbed
             \/ Fault("lostConfirmation", w) /\ Catch(w)
       \/ /\ Catch(w)
          /\ UNCHANGED <<treasury, wallet, advanced, disturbed>>
    /\ UNCHANGED <<jarOpen, deposit, reported, given, tries, webhooks,
                   failedGifts>>

Contributed == [status |-> "contributed", signed |-> TRUE, bump |-> TRUE]

\* relayContribute: the gift lands, or it is refused, before it is sent or when
\* it is executed.  Overlapping requests may send identical transactions, and
\* the client takes "already been processed" for success, whatever became of the
\* one that was.
Give(w) ==
    LET d == worker[w].dep
    IN  /\ worker[w].pc = "give"
        /\ \/ /\ jarOpen
              /\ wallet[d] > 0
              /\ wallet' = [wallet EXCEPT ![d] = @ - 1]
              /\ given' = [given EXCEPT ![d] = @ + 1]
              /\ \/ Call(w, d, Contributed, "name") /\ UNCHANGED disturbed
                 \/ Fault("lostConfirmation", w) /\ Catch(w)
              /\ UNCHANGED failedGifts
           \/ /\ Catch(w)
              /\ failedGifts' \in {failedGifts, failedGifts \union ({d} \cap disturbed)}
              /\ UNCHANGED <<wallet, given, disturbed>>
           \/ /\ d \in disturbed
              /\ given[d] > 0 \/ d \in failedGifts
              /\ Call(w, d, Contributed, "name")
              /\ UNCHANGED <<wallet, given, failedGifts, disturbed>>
        /\ UNCHANGED <<jarOpen, deposit, reported, tries, treasury, advanced,
                       webhooks>>

\* recordDonorName runs inside the same try block.
RecordName(w) ==
    /\ worker[w].pc = "name"
    /\ \/ /\ worker' = [worker EXCEPT ![w].pc = "next"]
          /\ UNCHANGED disturbed
       \/ Fault("nameWrite", w) /\ Catch(w)
    /\ UNCHANGED <<jarOpen, deposit, reported, wallet, given, tries, treasury,
                   advanced, webhooks, failedGifts>>

\* The platform ends a request between two awaits.
Crash(w) ==
    /\ Fault("crash", w)
    /\ worker[w].pc # "idle"
    /\ worker' = [worker EXCEPT ![w] = Idle]
    /\ UNCHANGED <<jarOpen, deposit, reported, wallet, given, tries, treasury,
                   advanced, webhooks, failedGifts>>

---------------------------------------------------------------------------

Step(w) ==
    \/ ReadRow(w) \/ WriteRow(w)
    \/ DevPay(w)
    \/ NextRow(w) \/ Prefund(w) \/ TopUp(w) \/ Give(w) \/ RecordName(w)

Next ==
    \/ JarCloses
    \/ \E d \in Deposits :
          \/ \E asset \in Assets : InitDeposit(d, asset)
          \/ OrderProcesses(d)
          \/ OrderFails(d)
          \/ \E sent \in {0, 1} : OrderCompletes(d, sent)
    \/ \E w \in Workers :
          \/ \E d \in Deposits :
                \/ \E status \in {"PROCESSING", "COMPLETED", "FAILED"} :
                      Webhook(w, d, status)
                \/ DevFund(w, d)
          \/ Sweep(w)
          \/ Step(w)
          \/ Crash(w)

Spec == Init /\ [][Next]_vars

\* A request that is not ended by the platform goes on, and the cron job,
\* which runs every minute, finds a free worker again and again.
Fairness == \A w \in Workers : WF_vars(Step(w)) /\ SF_vars(Sweep(w))

FairSpec == Spec /\ Fairness

---------------------------------------------------------------------------
(* What must hold however requests overlap, fail or are repeated.          *)

\* A deposit shown as contributed, which tells the donor that the payment is
\* in the jar, has a contribution on chain: no stale write, repeated webhook
\* or failed sweep ever makes it up.  The one thing that can is a copy that was
\* executed and failed, which the client takes for success.
ContributedHasLanded ==
    \A d \in Deposits :
        deposit[d].status = "contributed" => given[d] > 0 \/ d \in failedGifts

\* Somebody paid for the deposit: its order completed, or the operator's
\* treasury paid for it before any sweep did.
Paid(d) == "COMPLETED" \in reported[d] \/ advanced[d] > 0

\* The relay never starts to contribute, which for SOL may cost its treasury a
\* whole gift, for a deposit nobody paid for.
PaidBeforeSwept == \A d \in Deposits : tries[d] > 0 => Paid(d)

---------------------------------------------------------------------------
(* What each deposit is owed until it is disturbed: requests that overlap, *)
(* or that a fault hits, are harmless to all deposits but those they were  *)
(* at work on or had both selected.                                        *)

Undisturbed == Deposits \ disturbed

\* A deposit becomes one contribution, whatever webhooks are repeated.
ContributedOnce == \A d \in Undisturbed : given[d] <= 1

\* The treasury covers at most one gift of a deposit, by topping the wallet up
\* or at the operator's request.
AdvancedOnce == \A d \in Undisturbed : advanced[d] <= 1

\* A deposit is tried at most MAX_ATTEMPTS times before it is given up.
TriesAreBounded == \A d \in Undisturbed : tries[d] <= MAX_ATTEMPTS

\* A deposit's row goes through the statuses the rest of the app expects: it
\* never starts over, and what was contributed is never funded again.
Life == INSTANCE DepositLife WITH
            status <- [d \in Deposits |->
                          IF d \in disturbed THEN "disturbed"
                          ELSE deposit[d].status]

FollowsLife == Life!Spec

---------------------------------------------------------------------------
(* What holds of requests that neither overlap nor fail half-way.          *)

\* A funded deposit that has tries left ends: in the jar, or given up.
DepositsSettle ==
    \A d \in Deposits :
        Selectable(d) ~> deposit[d].status \in {"contributed", "failed"}

\* What the donor is told of every funded deposit: that the contribution is
\* being sent.  A late report of completion makes a deposit funded that has no
\* tries left, and nothing ever happens to it.
FundedIsRelayed ==
    \A d \in Deposits :
        deposit[d].status = "funded" ~>
            deposit[d].status \in {"contributed", "failed"}
============================================================================
