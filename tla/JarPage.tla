------------------------------- MODULE JarPage -------------------------------
(***************************************************************************)
(* A jar's page in several browsers, and the calls made from it: JarView   *)
(* with its contribution form, ContributeModal, OwnerControls and the four *)
(* modals behind it, RefundBanner, the SDK's methods they call, and the    *)
(* server behind router.refresh() and the donors list.                     *)
(*                                                                         *)
(* The chain is the sequence of the states the jar account went through;   *)
(* a page shows one of them, not always the last, and offers what it       *)
(* allows.  Every await of a call is a step.  Wallets, the RPC node, the   *)
(* indexer and the bucket are external.                                    *)
(***************************************************************************)
EXTENDS Naturals, Sequences

CONSTANTS
    People, Owner,      \* browsers with a wallet; the jar's owner among them
    Away,               \* donors who gave earlier and look at no page
    Titles,
    MaxCalls            \* bound: presses of a button, over all pages

ASSUME PageAssumption ==
    /\ Owner \in People /\ Away \intersect People = {}
    /\ MaxCalls \in Nat
    /\ Titles # {}

VARIABLES
    kind,               \* what creation fixed: lock, asset, staking
    unlocked,           \* the sides whose clock is past the unlock time
    history,            \* the states of the jar account, the last one current
    flight, landed,     \* transactions on their way; those that took effect
    refused,            \* those that were executed and failed
    indexed,            \* which of history the cache row in D1 holds
    bucket,             \* the title in the stored metadata
    page,               \* per person: what the browser shows
    calls               \* the calls, in the order of their presses

pageVars == <<kind, unlocked, history, flight, landed, refused, indexed, bucket,
              page, calls>>

chain == <<kind, history, flight, landed, refused>>
server == <<unlocked, indexed, bucket>>

Contributing == {"inline", "contribute"}
OwnersForms == {"withdraw", "cancel", "edit", "refundAll"}
Modals == {"contribute"} \union OwnersForms
Forms == Modals \union {"inline", "claim"}

Donors == People \union Away
Ended == {"told", "error", "stopped", "unsigned"}

Kinds == {k \in [timeLocked : BOOLEAN, asset : {"sol", "usdc"}, staked : BOOLEAN] :
            k.staked => k.asset = "sol" /\ k.timeLocked}

Snapshots == [status : {"active", "withdrawn", "cancelled"},
              owed : SUBSET Donors, title : Titles]

Views == [ at : Nat \ {0}, title : Titles, marinade : BOOLEAN,
           fetching : BOOLEAN, refreshing : BOOLEAN, listing : BOOLEAN,
           open : Modals \union {"none"}, running : SUBSET Forms,
           listed : SUBSET Donors ]

Calls == [ by : People, form : Forms, marinade : BOOLEAN, title : Titles,
           pc : {"setup", "read", "message", "upload", "sign", "sent"} \union Ended,
           donor : Donors, left : SUBSET Donors, reported : SUBSET Donors,
           list : SUBSET Donors, alone : BOOLEAN ]

PageTypeOK ==
    /\ kind \in Kinds
    /\ unlocked \subseteq {"chain", "browser"}
    /\ history \in Seq(Snapshots)
    /\ calls \in Seq(Calls)
    /\ flight \subseteq (DOMAIN calls) \X Donors
    /\ landed \subseteq (DOMAIN calls) \X Donors
    /\ refused \subseteq (DOMAIN calls) \X Donors
    /\ indexed \in DOMAIN history
    /\ bucket \in Titles
    /\ page \in [People -> Views]
    /\ \A p \in People : page[p].at \in DOMAIN history

FirstTitle == CHOOSE t \in Titles : TRUE

PageInit ==
    /\ kind \in Kinds
    /\ unlocked = {}
    /\ history = <<[status |-> "active", owed |-> Away, title |-> FirstTitle]>>
    /\ flight = {} /\ landed = {} /\ refused = {}
    /\ indexed = 1
    /\ bucket = FirstTitle
    /\ page = [p \in People |->
         [ at |-> 1, title |-> FirstTitle, marinade |-> kind.staked,
           fetching |-> TRUE, refreshing |-> FALSE, listing |-> FALSE,
           open |-> "none", running |-> {}, listed |-> {} ]]
    /\ calls = <<>>

Latest == history[Len(history)]

---------------------------------------------------------------------------
(* The program's side: what it accepts and does.                           *)

Unlock(side) ==
    /\ kind.timeLocked /\ side \notin unlocked
    /\ unlocked' = unlocked \union {side}
    /\ UNCHANGED <<chain, indexed, bucket, page, calls>>

\* A staked jar asks for the accounts of Marinade, which a page may not know of.
WithMarinade(c) == kind.staked => c.marinade

AcceptsGift(c) == Latest.status = "active" /\ WithMarinade(c)

AcceptsWithdrawal(c) ==
    /\ Latest.status = "active" /\ WithMarinade(c)
    /\ kind.timeLocked => "chain" \in unlocked

AcceptsCancel ==
    Latest.status = "active" /\ kind.timeLocked /\ "chain" \notin unlocked

\* For USDC the SDK's refund() passes no token accounts, which the program wants.
AcceptsRefund(c) ==
    /\ Latest.status = "cancelled" /\ WithMarinade(c)
    /\ c.donor \in Latest.owed
    /\ kind.asset = "sol"

Accepts(c) ==
    /\ c.form \in Contributing => AcceptsGift(c)
    /\ c.form = "withdraw" => AcceptsWithdrawal(c)
    /\ c.form = "cancel" => AcceptsCancel
    /\ c.form \in {"refundAll", "claim"} => AcceptsRefund(c)

\* What else a transaction needs (funds, a program not paused, a working Marinade)
\* may be missing, except that the two that move no money need nothing else.
MayFail(c) == c.form \in {"cancel", "edit"} => ~Accepts(c)

\* A flexible jar stays active when something is left in it.
Outcomes(c) ==
    CASE c.form \in Contributing -> {[Latest EXCEPT !.owed = @ \union {c.donor}]}
      [] c.form = "withdraw" ->
           {[Latest EXCEPT !.status = "withdrawn"]}
             \union (IF kind.timeLocked THEN {} ELSE {Latest})
      [] c.form = "cancel" -> {[Latest EXCEPT !.status = "cancelled"]}
      [] c.form \in {"refundAll", "claim"} -> {[Latest EXCEPT !.owed = @ \ {c.donor}]}
      [] c.form = "edit" -> {[Latest EXCEPT !.title = c.title]}

\* A transaction lands, or is executed and fails, or never reaches a block,
\* whoever waits.
Land(i, d) ==
    /\ <<i, d>> \in flight
    /\ flight' = flight \ {<<i, d>>}
    /\ LET c == [calls[i] EXCEPT !.donor = d] IN
       \/ /\ Accepts(c)
          /\ \E after \in Outcomes(c) : history' = Append(history, after)
          /\ landed' = landed \union {<<i, d>>}
          /\ UNCHANGED refused
       \/ /\ MayFail(c)
          /\ refused' = refused \union {<<i, d>>}
          /\ UNCHANGED <<history, landed>>
       \/ UNCHANGED <<history, landed, refused>>
    /\ UNCHANGED <<kind, server, page, calls>>

---------------------------------------------------------------------------
(* What a page shows, and where it learns it from.                         *)

Snapshot(p) == history[page[p].at]

\* A payload with another title empties the edit form and its status.
Receive(p, at, title, marinade) ==
    LET emptied == IF page[p].open = "edit" /\ title # page[p].title
                   THEN {"edit"} ELSE {}
    IN  page' = [page EXCEPT ![p].at = at, ![p].title = title,
                             ![p].marinade = marinade,
                             ![p].running = @ \ emptied,
                             ![p].refreshing = FALSE]

\* The read made when the page was mounted is answered, with what was true then
\* or is true now, or fails.
FetchJar(p) ==
    /\ page[p].fetching
    /\ \E k \in page[p].at .. Len(history) \union {1} :
         page' = [page EXCEPT ![p].fetching = FALSE, ![p].at = k]
    /\ UNCHANGED <<chain, server, calls>>

\* A notification brings figures and status, not the title.
OnJarChange(p) ==
    /\ \E k \in page[p].at + 1 .. Len(history) : page' = [page EXCEPT ![p].at = k]
    /\ UNCHANGED <<chain, server, calls>>

BuildPayload(p) ==
    \E k \in page[p].at .. Len(history) : Receive(p, k, bucket, kind.staked)

\* The cache's payload is of an unstaked jar.
PayloadFromCache(p) == Receive(p, indexed, bucket, FALSE)

Refreshed(p) ==
    /\ page[p].refreshing
    /\ BuildPayload(p) \/ PayloadFromCache(p)
    /\ UNCHANGED <<chain, server, calls>>

---------------------------------------------------------------------------
(* The modals.                                                             *)

CanWithdraw(p) ==
    /\ Snapshot(p).status = "active"
    /\ kind.timeLocked => "browser" \in unlocked

CanCancel(p) == Snapshot(p).status = "active" /\ kind.timeLocked

Opens(p, modal) ==
    /\ modal \in OwnersForms => p = Owner
    /\ modal = "contribute" => Snapshot(p).status = "active"
    /\ modal = "withdraw" => CanWithdraw(p)
    /\ modal = "cancel" => CanCancel(p)
    /\ modal = "refundAll" => Snapshot(p).status = "cancelled"

\* Opening the edit form empties it, whatever it was doing; opening the refunds
\* asks for the donors.
OpenModal(p, modal) ==
    /\ page[p].open = "none"
    /\ Opens(p, modal)
    /\ page' = [page EXCEPT ![p].open = modal,
                            ![p].running = IF modal = "edit" THEN @ \ {"edit"} ELSE @,
                            ![p].listing = @ \/ modal = "refundAll"]
    /\ UNCHANGED <<chain, server, calls>>

CloseModal(p) ==
    /\ page[p].open # "none"
    /\ page' = [page EXCEPT ![p].open = "none"]
    /\ UNCHANGED <<chain, server, calls>>

\* The donors whom the cache holds as not refunded, or nobody after an error.
DonorsListed(p) ==
    /\ page[p].listing
    /\ \E donors \in {history[indexed].owed, {}} :
         page' = [page EXCEPT ![p].listing = FALSE, ![p].listed = donors]
    /\ UNCHANGED <<chain, server, calls>>

---------------------------------------------------------------------------
(* A press of a form's button, and the steps of the call it starts.        *)

InlineForm(p) == Snapshot(p).status = "active"
ContributeForm(p) == page[p].open = "contribute"
WithdrawForm(p) == page[p].open = "withdraw"
CancelForm(p) == page[p].open = "cancel"
EditForm(p) == page[p].open = "edit"
RefundAllForm(p) == page[p].open = "refundAll" /\ page[p].listed # {}
RefundBanner(p) == Snapshot(p).status = "cancelled"

\* A form's button is dead while its call runs, whatever was reopened meanwhile.
Offered(p, form) ==
    /\ form \notin page[p].running
    /\ \/ form = "inline" /\ InlineForm(p)
       \/ form = "contribute" /\ ContributeForm(p)
       \/ form = "withdraw" /\ WithdrawForm(p)
       \/ form = "cancel" /\ CancelForm(p)
       \/ form = "edit" /\ EditForm(p)
       \/ form = "refundAll" /\ RefundAllForm(p)
       \/ form = "claim" /\ RefundBanner(p)

\* Token accounts that do not exist yet are made by a transaction of their own.
FirstSteps(form) ==
    CASE form = "edit" -> {"read"}
      [] form \in Contributing \union {"withdraw"} /\ kind.asset = "usdc" ->
           {"setup", "sign"}
      [] OTHER -> {"sign"}

Refunded(p, form) == IF form = "refundAll" THEN page[p].listed ELSE {p}

EditUnderWay ==
    \/ \E i \in 1 .. Len(calls) : calls[i].form = "edit" /\ calls[i].pc \notin Ended
    \/ \E tx \in flight : calls[tx[1]].form = "edit"

\* Those edits that were alone no longer are.
Crowded(form) ==
    [i \in DOMAIN calls |->
        IF form = "edit" THEN [calls[i] EXCEPT !.alone = @ /\ calls[i].pc \in Ended]
                         ELSE calls[i]]

Press(p, form) ==
    /\ Len(calls) < MaxCalls
    /\ Offered(p, form)
    /\ \E pc \in FirstSteps(form), d \in Refunded(p, form),
          t \in IF form = "edit" THEN Titles \ {page[p].title} ELSE {page[p].title} :
         calls' = Append(Crowded(form),
            [ by |-> p, form |-> form, marinade |-> page[p].marinade, title |-> t,
              pc |-> pc, donor |-> d, left |-> Refunded(p, form), reported |-> {},
              list |-> Refunded(p, form), alone |-> ~EditUnderWay ])
    /\ page' = [page EXCEPT ![p].running = @ \union {form}]
    /\ UNCHANGED <<chain, server>>

At(i, pc) == calls[i].pc = pc
Go(i, pc) == calls' = [calls EXCEPT ![i].pc = pc] /\ UNCHANGED page

\* The form is free again; after a success the page is refreshed, and the
\* owner's modals close.
End(i, pc) ==
    LET p == calls[i].by  form == calls[i].form IN
    /\ calls' = [calls EXCEPT ![i].pc = pc]
    /\ page' = [page EXCEPT
         ![p].running = @ \ {form},
         ![p].refreshing = @ \/ pc = "told" \/ form = "refundAll",
         ![p].open = IF pc = "told" /\ @ = form
                           /\ form \in {"withdraw", "cancel", "edit"}
                     THEN "none" ELSE @]

\* The round of refunds goes on with those left, and reports a failure.
Round(i, left, ok) ==
    LET failed == IF ok THEN {} ELSE {calls[i].donor}
        c == [calls[i] EXCEPT !.left = left, !.reported = @ \union failed]
    IN
    \/ /\ left = {}
       /\ calls' = [calls EXCEPT ![i] = [c EXCEPT !.pc = "told"]]
       /\ page' = [page EXCEPT ![c.by].running = @ \ {"refundAll"},
                               ![c.by].refreshing = TRUE]
    \/ /\ \E d \in left :
             calls' = [calls EXCEPT ![i] = [c EXCEPT !.pc = "sign", !.donor = d]]
       /\ UNCHANGED page

\* Mutation: a refund that failed ends the round.
NextDonorBreaks(i, ok) ==
    Round(i, IF ok THEN calls[i].left \ {calls[i].donor} ELSE {}, ok)

NextDonor(i, ok) == Round(i, calls[i].left \ {calls[i].donor}, ok)

Succeed(i) == IF calls[i].form = "refundAll" THEN NextDonor(i, TRUE) ELSE End(i, "told")
Fail(i) == IF calls[i].form = "refundAll" THEN NextDonor(i, FALSE) ELSE End(i, "error")

\* The wallet says no: the only failure that ends a round of refunds.
Reject(i) == End(i, "stopped")

\* An account that exists already fails the setup with "already been processed"
\* when the same transaction was sent before, and that counts as the call's success.
Setup(i) ==
    /\ At(i, "setup")
    /\ Go(i, "sign") \/ Fail(i) \/ Reject(i) \/ Succeed(i)
    /\ UNCHANGED <<chain, server>>

ReadOwnJar(i) ==
    /\ At(i, "read")
    /\ Go(i, "message") \/ Fail(i)
    /\ UNCHANGED <<chain, server>>

SignMessage(i) ==
    /\ At(i, "message")
    /\ Go(i, "upload") \/ Reject(i)
    /\ UNCHANGED <<chain, server>>

\* Mutation: an upload that was refused counts as done.
UploadLoosely(i) ==
    /\ At(i, "upload")
    /\ bucket' \in {calls[i].title, bucket}
    /\ Go(i, "sign")
    /\ UNCHANGED <<chain, unlocked, indexed>>

\* Refused, or stored, or stored without the browser learning it.
Upload(i) ==
    /\ At(i, "upload")
    /\ \/ bucket' = calls[i].title /\ Go(i, "sign")
       \/ bucket' \in {calls[i].title, bucket} /\ Fail(i)
    /\ UNCHANGED <<chain, unlocked, indexed>>

\* refund() names the payer as a signer; a wallet signs for itself only.
Payer(c) == IF c.form = "claim" THEN Owner ELSE c.by

Sign(i) ==
    /\ At(i, "sign")
    /\ \/ Reject(i) /\ UNCHANGED flight
       \/ /\ Payer(calls[i]) # calls[i].by
          /\ End(i, "unsigned")
          /\ UNCHANGED flight
       \/ /\ Payer(calls[i]) = calls[i].by
          /\ Fail(i)
          /\ UNCHANGED flight
       \/ /\ Payer(calls[i]) = calls[i].by
          /\ Go(i, "sent")
          /\ flight' = flight \union {<<i, calls[i].donor>>}
    /\ UNCHANGED <<kind, history, landed, refused, server>>

\* Mutation: no answer is taken for a good one.
AnswerHopefully(i) ==
    /\ At(i, "sent")
    /\ Succeed(i) \/ Fail(i)
    /\ UNCHANGED <<chain, server>>

\* A transaction sent once more than needed is answered with "already been
\* processed", and that is a success, even of one that was executed and failed.
\* Without an answer in time the call fails, though its transaction may have
\* landed or may still do so.
Answer(i) ==
    /\ At(i, "sent")
    /\ \/ <<i, calls[i].donor>> \in landed \union refused /\ Succeed(i)
       \/ Fail(i)
    /\ UNCHANGED <<chain, server>>

---------------------------------------------------------------------------
(* The indexer copies the account's states into the cache, one by one.      *)

Index ==
    /\ indexed < Len(history)
    /\ indexed' = indexed + 1
    /\ UNCHANGED <<chain, unlocked, bucket, page, calls>>

---------------------------------------------------------------------------

\* Bound: the pages are followed until the last press.
PageMoves ==
    /\ Len(calls) < MaxCalls
    /\ \E p \in People :
          \/ FetchJar(p) \/ OnJarChange(p) \/ Refreshed(p)
          \/ \E modal \in Modals : OpenModal(p, modal)
          \/ CloseModal(p) \/ DonorsListed(p)
          \/ \E form \in Forms : Press(p, form)

CallMoves ==
    \E i \in DOMAIN calls :
        \/ Setup(i) \/ ReadOwnJar(i) \/ SignMessage(i) \/ Upload(i)
        \/ Sign(i) \/ Answer(i)
        \/ \E d \in Donors : Land(i, d)

PageNext ==
    \/ PageMoves
    \/ CallMoves
    \/ \E side \in {"chain", "browser"} : Unlock(side)
    \/ Index

PageSpec == PageInit /\ [][PageNext]_pageVars

---------------------------------------------------------------------------

\* "Jar cancelled" or "already landed" (cancel-modal.tsx) is never told of a jar
\* that can still be given to and still be cancelled: a call told so closed the
\* jar, or failed because something else had or because the unlock time had come.
CancelToldIsOver ==
    \A i \in DOMAIN calls : calls[i].form = "cancel" /\ At(i, "told") => ~AcceptsCancel

\* A round of refunds that the wallet did not stop leaves no listed donor out:
\* each one was reported, or got the refund, or is the donor of a transaction that
\* was executed and failed (whose second copy refund-all-modal.tsx:77 takes for a
\* success).
NobodySkipped ==
    \A i \in DOMAIN calls : calls[i].form = "refundAll" /\ At(i, "told") =>
        \A d \in calls[i].list :
            d \in calls[i].reported \/ <<i, d>> \in landed \union refused

LastEdit(i) ==
    calls[i].form = "edit" /\ \A j \in DOMAIN calls : calls[j].form = "edit" => j <= i

\* An edit that was alone and was told done has its title on the chain and in
\* the stored metadata, until the next edit.
BucketMatchesChain ==
    \A i \in DOMAIN calls : LastEdit(i) /\ calls[i].alone /\ At(i, "told") =>
        bucket = calls[i].title /\ Latest.title = calls[i].title

\* "If you contributed, you can claim a refund" (refund-banner.tsx): no claim
\* lacks a signature that the claimant's wallet cannot give.
ClaimsCanBeSigned ==
    \A i \in DOMAIN calls : ~At(i, "unsigned")
==============================================================================
