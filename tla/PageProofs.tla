------------------------------ MODULE PageProofs ------------------------------
(***************************************************************************)
(* Proofs about the two pages of MCPage: the wizard, for any covers,       *)
(* friends, presets and dates, and a jar's page, for any people, donors,   *)
(* titles and any number of presses.                                       *)
(***************************************************************************)
EXTENDS CreateWizard, JarPage, TLAPS

(***************************************************************************)
(* The wizard.                                                             *)
(***************************************************************************)

\* What is filled in has these fields; of the dates and signers no more is needed.
IsForm ==
    form = [ title |-> form.title, emoji |-> form.emoji, photo |-> form.photo,
             jarType |-> form.jarType, goalEnabled |-> form.goalEnabled,
             goalAmount |-> form.goalAmount, unlockDate |-> form.unlockDate,
             signers |-> form.signers, threshold |-> form.threshold ]

RulesFilled ==
    /\ form.jarType = "goal" => form.goalEnabled /\ form.goalAmount = "fair"
    /\ form.goalEnabled /\ form.goalAmount # "empty" => form.goalAmount = "fair"

\* What was sent, apart from its date.
SentWell ==
    status \in {"running", "done"} =>
        /\ submitted.jarType = "flexible" => submitted.unlock = None
        /\ submitted.variant = "goal" => submitted.hasGoal
        /\ submitted.hasGoal => submitted.goal = "fair"
        /\ (submitted.emoji = None) # (submitted.photo = None)

\* A photo is on its way, or in the dialog, only if it is one.
Crops ==
    /\ cropper \in [open : BOOLEAN, file : Photos \union {None}, running : BOOLEAN]
    /\ cropper.open => cropper.file \in Photos
    /\ jobs \subseteq Photos \X {"here", "gone"}

\* Past the rules, the rules stay filled in: only step 2 changes them.
WizardInv ==
    /\ IsForm
    /\ step \in 1 .. 4
    /\ step > 2 => RulesFilled
    /\ Crops
    /\ OneCover
    /\ SentWell

LEMMA WizardInvInit == Init => WizardInv
  BY WizardAssumption
  DEF Init, WizardInv, IsForm, RulesFilled, SentWell, Crops, OneCover, Closed

\* Going from one step to another.
LEMMA StepsKeep ==
  ASSUME WizardInv, NEW s \in 1 .. 4, GoTo(s), s > 2 => RulesFilled
  PROVE  WizardInv'
<1>1. /\ form' = form /\ status' = status /\ submitted' = submitted
      /\ step' = s
  BY DEF GoTo
<1>2. Crops'
  <2>1. cropper' \in {Closed, cropper}
    BY DEF GoTo
  <2>2. jobs \subseteq Photos \X {"here", "gone"}
    BY DEF WizardInv, Crops
  <2>3. jobs' \subseteq Photos \X {"here", "gone"}
    <3>1. CASE step # 1
      BY <2>2, <3>1 DEF GoTo
    <3>2. CASE step = 1
      <4>1. jobs' = {<<job[1], "gone">> : job \in jobs}
        BY <3>2 DEF GoTo
      <4>2. \A job \in jobs : <<job[1], "gone">> \in Photos \X {"here", "gone"}
        BY <2>2
      <4>3. QED
        BY <4>1, <4>2
    <3>3. QED
      BY <3>1, <3>2
  <2>4. CASE cropper' = Closed
    BY <2>3, <2>4 DEF Crops, Closed
  <2>5. CASE cropper' = cropper
    BY <2>3, <2>5 DEF WizardInv, Crops
  <2>6. QED
    BY <2>1, <2>4, <2>5
<1>3. QED
  BY <1>1, <1>2 DEF WizardInv, IsForm, RulesFilled, SentWell, OneCover

\* Filling in something that leaves the cover alone.
LEMMA FillKeeps ==
  ASSUME WizardInv, NEW new, Fill(new),
         new = [ title |-> new.title, emoji |-> new.emoji, photo |-> new.photo,
                 jarType |-> new.jarType, goalEnabled |-> new.goalEnabled,
                 goalAmount |-> new.goalAmount, unlockDate |-> new.unlockDate,
                 signers |-> new.signers, threshold |-> new.threshold ],
         new.emoji = form.emoji /\ new.photo = form.photo,
         step > 2 => /\ new.jarType = form.jarType
                     /\ new.goalEnabled = form.goalEnabled
                     /\ new.goalAmount = form.goalAmount
  PROVE  WizardInv'
  BY DEF Fill, WizardInv, IsForm, RulesFilled, SentWell, Crops, OneCover

LEMMA DetailsKeep ==
  ASSUME WizardInv,
         \/ \E filled \in BOOLEAN : EditTitle(filled)
         \/ \E emoji \in Emojis : SelectEmoji(emoji)
         \/ \E photo \in Photos : ChooseFile(photo)
         \/ CancelCrop \/ DoneCropping
         \/ \E job \in jobs : Cropped(job) \/ CropFails(job)
  PROVE  WizardInv'
<1>1. ASSUME NEW filled \in BOOLEAN, EditTitle(filled) PROVE WizardInv'
  <2> DEFINE new == [form EXCEPT !.title = filled]
  <2>1. Fill(new)
    BY <1>1 DEF EditTitle
  <2>2. new = [ title |-> new.title, emoji |-> new.emoji, photo |-> new.photo,
                jarType |-> new.jarType, goalEnabled |-> new.goalEnabled,
                goalAmount |-> new.goalAmount, unlockDate |-> new.unlockDate,
                signers |-> new.signers, threshold |-> new.threshold ]
    BY DEF WizardInv, IsForm
  <2>3. /\ new.emoji = form.emoji /\ new.photo = form.photo
        /\ new.jarType = form.jarType /\ new.goalEnabled = form.goalEnabled
        /\ new.goalAmount = form.goalAmount
    BY DEF WizardInv, IsForm
  <2> HIDE DEF new
  <2>4. QED
    BY <2>1, <2>2, <2>3, FillKeeps
<1>2. ASSUME NEW emoji \in Emojis, SelectEmoji(emoji) PROVE WizardInv'
  BY <1>2, WizardAssumption DEF SelectEmoji, Fill, WizardInv, IsForm,
              RulesFilled, SentWell, Crops, OneCover
<1>3. ASSUME NEW photo \in Photos, ChooseFile(photo) PROVE WizardInv'
  BY <1>3 DEF ChooseFile, WizardInv, IsForm, RulesFilled, SentWell, Crops, OneCover
<1>4. CASE CancelCrop \/ DoneCropping
  <2>1. UNCHANGED <<step, form, status, submitted>>
    BY <1>4 DEF CancelCrop, DoneCropping
  <2>2. cropper' = [cropper EXCEPT !.open = FALSE, !.file = None] /\ jobs' = jobs
          => Crops'
    BY DEF WizardInv, Crops
  <2>3. cropper.open => cropper.file \in Photos
    BY DEF WizardInv, Crops
  <2>4. cropper' = [cropper EXCEPT !.running = TRUE] /\ cropper.open
          => /\ cropper' \in [open : BOOLEAN, file : Photos \union {None}, running : BOOLEAN]
             /\ cropper'.file = cropper.file
    BY DEF WizardInv, Crops
  <2>5. DoneCropping => jobs' \subseteq Photos \X {"here", "gone"}
    BY <2>3 DEF DoneCropping, WizardInv, Crops
  <2>6. Crops'
    BY <1>4, <2>2, <2>3, <2>4, <2>5 DEF CancelCrop, DoneCropping, Crops
  <2>7. QED
    BY <2>1, <2>6 DEF WizardInv, IsForm, RulesFilled, SentWell, OneCover
<1>5. ASSUME NEW job \in jobs, Cropped(job) PROVE WizardInv'
  <2>1. job[1] \in Photos /\ job[1] # None
    BY WizardAssumption DEF WizardInv, Crops
  <2>2. form' = [form EXCEPT !.photo = job[1], !.emoji = None]
    BY <1>5 DEF Cropped, WithPhoto
  <2>3. IsForm' /\ OneCover' /\ form'.jarType = form.jarType
          /\ form'.goalEnabled = form.goalEnabled
          /\ form'.goalAmount = form.goalAmount
    BY <2>1, <2>2 DEF WizardInv, IsForm, OneCover
  <2>4. Crops'
    BY <1>5 DEF Cropped, Closed, WizardInv, Crops
  <2>5. QED
    BY <1>5, <2>3, <2>4 DEF Cropped, WizardInv, RulesFilled, SentWell
<1>6. ASSUME NEW job \in jobs, CropFails(job) PROVE WizardInv'
  BY <1>6 DEF CropFails, WizardInv, IsForm, RulesFilled, SentWell, Crops, OneCover
<1>7. QED
  BY <1>1, <1>2, <1>3, <1>4, <1>5, <1>6

LEMMA RulesKeep ==
  ASSUME WizardInv,
         \/ \E jarType \in Types : SelectType(jarType)
         \/ \E day \in Days : PickDate(day)
         \/ \E days \in Presets : PickPreset(days)
         \/ \E amount \in Amounts : EditGoal(amount)
         \/ ToggleGoal
  PROVE  WizardInv'
<1> USE FillKeeps DEF WizardInv, IsForm
<1>1. ASSUME NEW jarType \in Types, SelectType(jarType) PROVE WizardInv'
  BY <1>1 DEF SelectType
<1>2. ASSUME NEW day, NEW new, new = [form EXCEPT !.unlockDate = day], Fill(new)
      PROVE  WizardInv'
  BY <1>2
<1>3. ASSUME NEW amount \in Amounts, EditGoal(amount) PROVE WizardInv'
  BY <1>3 DEF EditGoal
<1>4. CASE ToggleGoal
  BY <1>4 DEF ToggleGoal
<1>5. QED
  BY <1>1, <1>2, <1>3, <1>4 DEF PickDate, PickPreset

LEMMA ControlsKeep ==
  ASSUME WizardInv,
         \/ \E friend \in Friends : AddSigner(friend) \/ RemoveSigner(friend)
         \/ \E n \in 1 .. Cardinality(Friends) + 1 : SetThreshold(n)
  PROVE  WizardInv'
<1> USE FillKeeps DEF WizardInv, IsForm
<1>1. ASSUME NEW friend \in Friends, AddSigner(friend) PROVE WizardInv'
  BY <1>1 DEF AddSigner
<1>2. ASSUME NEW friend \in Friends, RemoveSigner(friend) PROVE WizardInv'
  <2>1. PICK left, n :
          Fill([form EXCEPT !.signers = left, !.threshold = n])
    BY <1>2 DEF RemoveSigner
  <2> DEFINE new == [ title |-> form.title, emoji |-> form.emoji,
                      photo |-> form.photo, jarType |-> form.jarType,
                      goalEnabled |-> form.goalEnabled,
                      goalAmount |-> form.goalAmount,
                      unlockDate |-> form.unlockDate,
                      signers |-> left, threshold |-> n ]
  <2>2. [form EXCEPT !.signers = left, !.threshold = n] = new
    <3>1. form = [ title |-> form.title, emoji |-> form.emoji,
                   photo |-> form.photo, jarType |-> form.jarType,
                   goalEnabled |-> form.goalEnabled,
                   goalAmount |-> form.goalAmount,
                   unlockDate |-> form.unlockDate,
                   signers |-> form.signers, threshold |-> form.threshold ]
      OBVIOUS
    <3> DEFINE fewer == [form EXCEPT !.signers = left]
    <3>2. fewer
             = [ title |-> form.title, emoji |-> form.emoji,
                 photo |-> form.photo, jarType |-> form.jarType,
                 goalEnabled |-> form.goalEnabled,
                 goalAmount |-> form.goalAmount,
                 unlockDate |-> form.unlockDate,
                 signers |-> left, threshold |-> form.threshold ]
      BY <3>1
    <3>3. [form EXCEPT !.signers = left, !.threshold = n]
             = [fewer EXCEPT !.threshold = n]
      OBVIOUS
    <3> HIDE DEF fewer
    <3>4. [fewer EXCEPT !.threshold = n] = new
      BY <3>2
    <3>5. QED
      BY <3>3, <3>4
  <2>3. Fill(new)
    BY <2>1, <2>2
  <2>4. QED
    BY <2>3
<1>3. ASSUME NEW n, SetThreshold(n) PROVE WizardInv'
  BY <1>3 DEF SetThreshold
<1>4. QED
  BY <1>1, <1>2, <1>3

\* Sending: the rules were filled in, and the one cover is sent.
LEMMA SubmitKeeps ==
  ASSUME WizardInv, NEW connected \in BOOLEAN, Submit(connected)
  PROVE  WizardInv'
<1>1. step = 4 /\ RulesFilled /\ OneCover
  BY DEF Submit, WizardInv
<1>2. UNCHANGED <<step, form, cropper, jobs>>
  BY DEF Submit
<1>3. SentWell'
  <2>1. CASE Submittable(Args, connected)
    <3>1. submitted' = Args
      BY <2>1 DEF Submit
    <3>2. Args.variant = "goal" => Args.hasGoal
      BY <1>1 DEF RulesFilled, Args
    <3>3. Args.hasGoal => Args.goal = "fair"
      BY <1>1 DEF RulesFilled, Args
    <3>4. Args.jarType = "flexible" => Args.unlock = None
      BY DEF Args
    <3>5. (Args.emoji = None) # (Args.photo = None)
      BY <1>1 DEF OneCover, Args
    <3>6. QED
      BY <3>1, <3>2, <3>3, <3>4, <3>5 DEF SentWell
  <2>2. CASE ~Submittable(Args, connected)
    BY <2>2 DEF Submit, SentWell
  <2>3. QED
    BY <2>1, <2>2
<1>4. QED
  BY <1>2, <1>3 DEF WizardInv, IsForm, RulesFilled, Crops, OneCover

LEMMA WizardInvStep == WizardInv /\ [Next]_vars => WizardInv'
<1> SUFFICES ASSUME WizardInv, [Next]_vars PROVE WizardInv'
  OBVIOUS
<1>1. CASE Continue
  <2>1. step + 1 \in 1 .. 4
    BY <1>1 DEF Continue, WizardInv
  <2>2. CASE step = 1
    BY <1>1, <2>1, <2>2, StepsKeep DEF Continue
  <2>3. CASE step = 2
    <3>1. RulesFilled
      BY <1>1, <2>3 DEF Continue, CanProceed, GoalAmountValid, RulesFilled
    <3>2. QED
      BY <1>1, <2>1, <3>1, StepsKeep DEF Continue
  <2>4. CASE step > 2
    BY <1>1, <2>1, <2>4, StepsKeep DEF Continue, WizardInv
  <2>5. QED
    BY <2>2, <2>3, <2>4 DEF WizardInv
<1>2. ASSUME NEW s \in 1 .. 4, StepNav(s) PROVE WizardInv'
  <2>1. s > 2 => RulesFilled
    BY <1>2 DEF StepNav, WizardInv
  <2>2. QED
    BY <1>2, <2>1, StepsKeep DEF StepNav
<1>3. ASSUME NEW connected \in BOOLEAN, Submit(connected) PROVE WizardInv'
  BY <1>3, SubmitKeeps
<1>4. CASE Midnight \/ Created \/ CreationFails \/ UNCHANGED vars
  BY <1>4 DEF Midnight, Created, CreationFails, vars, WizardInv, IsForm,
              RulesFilled, Crops, OneCover, SentWell
<1>5. QED
  BY <1>1, <1>2, <1>3, <1>4, DetailsKeep, RulesKeep, ControlsKeep DEF Next

\* Whenever a photo comes back from the cropper, the jar has one cover.
THEOREM CoverIsOne == Spec => []OneCover
<1>1. WizardInv => OneCover
  BY DEF WizardInv
<1>2. Init => WizardInv
  BY WizardInvInit
<1>3. WizardInv /\ [Next]_vars => WizardInv'
  BY WizardInvStep
<1>4. QED
  BY <1>1, <1>2, <1>3, PTL DEF Spec

\* For any way through the steps, back and forth, what is sent keeps the rules of
\* all of them, though submit checks next to nothing again.
THEOREM RulesAreKept == Spec => []RulesWereChecked
<1>1. WizardInv => RulesWereChecked
  BY DEF WizardInv, SentWell, RulesWereChecked, LockAccepted
<1>2. Init => WizardInv
  BY WizardInvInit
<1>3. WizardInv /\ [Next]_vars => WizardInv'
  BY WizardInvStep
<1>4. QED
  BY <1>1, <1>2, <1>3, PTL DEF Spec

\* A step that sends something sends the rows of the review and the cover of the
\* preview.
LEMMA StepSendsShown ==
  ASSUME WizardInv, [Next]_vars, submitted' \notin {submitted, NoJar}
  PROVE  /\ \A row \in DOMAIN Shown : submitted'[row] = Shown[row]
         /\ CoverOf(submitted') = CoverOf(form)
<1>1. submitted' = Args
  BY DEF Next, vars, Midnight, Continue, StepNav, GoTo, EditTitle, SelectEmoji,
         ChooseFile, CancelCrop, DoneCropping, Cropped, CropFails, SelectType,
         PickDate, PickPreset, EditGoal, ToggleGoal, AddSigner, RemoveSigner,
         SetThreshold, Fill, Submit, Created, CreationFails
<1>2. \A row \in DOMAIN Shown : Args[row] = Shown[row]
  BY DEF Args, Shown
<1>3. CoverOf(Args) = CoverOf(form)
  BY DEF Args, CoverOf
<1>4. QED
  BY <1>1, <1>2, <1>3

\* What is sent is what the review shows, for any way through the steps.
THEOREM ReviewIsSent == Spec => SendsWhatIsShown
<1>1. Init => WizardInv
  BY WizardInvInit
<1>2. WizardInv /\ [Next]_vars => WizardInv'
  BY WizardInvStep
<1>3. WizardInv /\ [Next]_vars =>
        [ submitted' \notin {submitted, NoJar} =>
            /\ \A row \in DOMAIN Shown : submitted'[row] = Shown[row]
            /\ CoverOf(submitted') = CoverOf(form) ]_vars
  BY StepSendsShown
<1>4. QED
  BY <1>1, <1>2, <1>3, PTL DEF Spec, SendsWhatIsShown

(***************************************************************************)
(* A jar's page.                                                           *)
(*                                                                         *)
(* What a call is told rests on what was executed, which stays; so CallOK, *)
(* which is about one call, survives the steps of every other.  What an    *)
(* execution says of the jar stays true too: a jar that can no longer be   *)
(* cancelled never can again (TxOK).  Only the bucket and the title on the *)
(* chain are shared, and there the last edit is what counts: if it was     *)
(* alone, every other edit is over, in the sense that neither its call nor *)
(* a transaction of it is left (EditOK).                                   *)
(***************************************************************************)

\* Call i, as record c: what its form allows, whom it asked for, and, if it was
\* told done, the transaction that landed or failed.  A round of refunds has
\* somebody to go on with, and knows of every listed donor where the refund is.
CallOK(i, c) ==
    /\ c.form # "refundAll" => c.donor = c.by
    /\ c.pc = "setup" =>
          c.form \in Contributing \union {"withdraw"} /\ kind.asset = "usdc"
    /\ c.pc \in {"read", "message", "upload"} => c.form = "edit"
    /\ c.pc = "told" /\ c.form \in {"cancel", "edit"} =>
          <<i, c.by>> \in landed \union refused
    /\ c.form = "refundAll" /\ c.pc \in {"sign", "sent"} => c.donor \in c.left
    /\ c.form = "refundAll" /\ c.pc = "told" => c.left = {}
    /\ c.form = "refundAll" /\ c.pc \in {"sign", "sent", "told"} =>
          \A d \in c.list :
              \/ d \in c.left \/ d \in c.reported
              \/ <<i, d>> \in landed \union refused

\* An edit is never refused, and a cancellation only of a jar that is closed or
\* unlocked already; one that landed has closed it.
TxOK(tx) ==
    /\ calls[tx[1]].form = "edit" => tx \notin refused
    /\ calls[tx[1]].form = "cancel" /\ tx \in landed \union refused => ~AcceptsCancel

\* No other edit than call i can still reach the bucket or the chain.
OthersOver(i) ==
    \A j \in DOMAIN calls : j # i /\ calls[j].form = "edit" =>
        calls[j].pc \in Ended /\ \A d \in Donors : <<j, d>> \notin flight

\* The last edit, if it was alone: how far its title has come.
EditOK(i) ==
    /\ OthersOver(i)
    /\ At(i, "read") \/ At(i, "message") \/ At(i, "upload") \/ At(i, "sign") =>
          \A d \in Donors : <<i, d>> \notin flight \union landed
    /\ At(i, "sign") \/ At(i, "sent") \/ At(i, "told") => bucket = calls[i].title
    /\ At(i, "sent") \/ At(i, "told") =>
          \A d \in Donors : <<i, d>> \in landed => Latest.title = calls[i].title

PageInv ==
    /\ PageTypeOK
    /\ \A i \in DOMAIN calls : CallOK(i, calls[i])
    /\ \A i \in DOMAIN calls, d \in Donors : TxOK(<<i, d>>)
    /\ \A i \in DOMAIN calls : LastEdit(i) /\ calls[i].alone => EditOK(i)

LEMMA PageInvInit == PageInit => PageInv
<1> SUFFICES ASSUME PageInit PROVE PageInv
  OBVIOUS
<1>1. FirstTitle \in Titles
  BY PageAssumption DEF FirstTitle
<1>2. calls = <<>> /\ DOMAIN calls = {} /\ calls \in Seq(Calls)
  BY DEF PageInit
<1> DEFINE first == [status |-> "active", owed |-> Away, title |-> FirstTitle]
<1>3. first \in Snapshots
  BY <1>1 DEF Snapshots, Donors
<1>4. history = <<first>> /\ history \in Seq(Snapshots) /\ DOMAIN history = {1}
  BY <1>3 DEF PageInit
<1>5. page \in [People -> Views] /\ \A p \in People : page[p].at = 1
  BY <1>1 DEF PageInit, Views, Kinds
<1>6. QED
  BY <1>1, <1>2, <1>4, <1>5 DEF PageInit, PageInv, PageTypeOK

LEMMA CallsTyped ==
    ASSUME PageTypeOK
    PROVE  /\ Len(calls) \in Nat /\ DOMAIN calls = 1 .. Len(calls)
           /\ \A i \in DOMAIN calls : calls[i] \in Calls
  BY DEF PageTypeOK

LEMMA HistoryTyped ==
    ASSUME PageTypeOK
    PROVE  /\ Len(history) \in Nat \ {0} /\ DOMAIN history = 1 .. Len(history)
           /\ Latest \in Snapshots
           /\ \A k \in DOMAIN history : history[k] \in Snapshots
<1>1. history \in Seq(Snapshots) /\ indexed \in DOMAIN history
  BY DEF PageTypeOK
<1>2. Len(history) \in Nat /\ DOMAIN history = 1 .. Len(history)
  BY <1>1
<1>3. QED
  BY <1>1, <1>2 DEF Latest

---------------------------------------------------------------------------
(* Steps that change what the pages show and nothing else.                 *)

PagesStay ==
    /\ page \in [People -> Views]
    /\ \A p \in People : page[p].at \in DOMAIN history

LEMMA OnlyPages ==
    ASSUME PageInv, PagesStay',
           UNCHANGED <<kind, unlocked, history, flight, landed, refused, indexed, bucket,
                       calls>>
    PROVE  PageInv'
<1>1. PageTypeOK'
  BY DEF PageInv, PageTypeOK, PagesStay
<1>2. (\A i \in DOMAIN calls : CallOK(i, calls[i]))'
  BY DEF PageInv, CallOK
<1>3. (\A i \in DOMAIN calls, d \in Donors : TxOK(<<i, d>>))'
  BY DEF PageInv, TxOK, AcceptsCancel, Latest
<1>4. (\A i \in DOMAIN calls : LastEdit(i) /\ calls[i].alone => EditOK(i))'
  BY DEF PageInv, LastEdit, EditOK, OthersOver, At, Latest
<1>5. QED
  BY <1>1, <1>2, <1>3, <1>4 DEF PageInv

\* One browser shows something else.
LEMMA OneView ==
    ASSUME PageTypeOK, NEW p \in People, NEW v \in Views,
           page' = [page EXCEPT ![p] = v], history' = history, v.at \in DOMAIN history
    PROVE  PagesStay'
<1>1. page \in [People -> Views] /\ \A q \in People : page[q].at \in DOMAIN history
  BY DEF PageTypeOK
<1>2. page' \in [People -> Views]
  BY <1>1
<1>3. \A q \in People : page'[q].at \in DOMAIN history
  BY <1>1
<1>4. QED
  BY <1>2, <1>3 DEF PagesStay

LEMMA PageMovesKeep ==
    ASSUME PageInv, NEW p \in People,
           \/ FetchJar(p) \/ OnJarChange(p) \/ Refreshed(p)
           \/ \E modal \in Modals : OpenModal(p, modal)
           \/ CloseModal(p) \/ DonorsListed(p)
    PROVE  PageInv'
<1>1. UNCHANGED <<kind, unlocked, history, flight, landed, refused, indexed, bucket,
                       calls>>
  BY DEF FetchJar, OnJarChange, Refreshed, OpenModal, CloseModal, DonorsListed,
         chain, server
<1>2. page[p] \in Views /\ page[p].at \in DOMAIN history
  BY DEF PageInv, PageTypeOK
<1>t. PageTypeOK /\ DOMAIN history = 1 .. Len(history) /\ Len(history) \in Nat \ {0}
  BY HistoryTyped DEF PageInv
<1>h. \A k \in DOMAIN history : k \in Nat \ {0}
  BY <1>t
<1>3. \E v \in Views : page' = [page EXCEPT ![p] = v] /\ v.at \in DOMAIN history
  <2>1. ASSUME NEW k \in DOMAIN history, NEW title \in Titles, NEW marinade \in BOOLEAN,
               Receive(p, k, title, marinade)
        PROVE  <1>3
    <3> DEFINE e == IF page[p].open = "edit" /\ title # page[p].title
                    THEN {"edit"} ELSE {}
               v == [page[p] EXCEPT !.at = k, !.title = title, !.marinade = marinade,
                                    !.running = @ \ e, !.refreshing = FALSE]
    <3>1. page' = [page EXCEPT ![p].at = k, ![p].title = title,
                               ![p].marinade = marinade, ![p].running = @ \ e,
                               ![p].refreshing = FALSE]
      BY <2>1 DEF Receive
    <3> HIDE DEF e
    <3>2. page' = [page EXCEPT ![p] = v]
      BY <3>1, <1>2 DEF Views
    <3>3. v \in Views /\ v.at = k
      BY <1>2, <1>h DEF Views
    <3> HIDE DEF v
    <3>4. QED
      BY <3>2, <3>3
  <2>2. CASE FetchJar(p) \/ OnJarChange(p)
    <3>1. PICK k \in DOMAIN history, fetching \in BOOLEAN :
            page' = [page EXCEPT ![p] =
                        [page[p] EXCEPT !.at = k, !.fetching = fetching]]
      <4>1. CASE FetchJar(p)
        <5>1. PICK k \in page[p].at .. Len(history) \union {1} :
                page' = [page EXCEPT ![p].fetching = FALSE, ![p].at = k]
          BY <4>1 DEF FetchJar
        <5>2. k \in DOMAIN history
          BY <1>2, <1>t DEF Views
        <5>3. page' = [page EXCEPT ![p] =
                        [page[p] EXCEPT !.at = k, !.fetching = FALSE]]
          BY <5>1, <1>2 DEF Views
        <5>4. QED
          BY <5>2, <5>3
      <4>2. CASE OnJarChange(p)
        <5>1. PICK k \in page[p].at + 1 .. Len(history) :
                page' = [page EXCEPT ![p].at = k]
          BY <4>2 DEF OnJarChange
        <5>2. k \in DOMAIN history
          BY <1>2, <1>t DEF Views
        <5>3. page' = [page EXCEPT ![p] =
                        [page[p] EXCEPT !.at = k, !.fetching = page[p].fetching]]
          BY <5>1, <1>2 DEF Views
        <5>4. page[p].fetching \in BOOLEAN
          BY <1>2 DEF Views
        <5>5. QED
          BY <5>2, <5>3, <5>4
      <4>3. QED
        BY <2>2, <4>1, <4>2
    <3>2. [page[p] EXCEPT !.at = k, !.fetching = fetching] \in Views
      BY <1>2, <1>h DEF Views
    <3>3. [page[p] EXCEPT !.at = k, !.fetching = fetching].at = k
      BY <1>2 DEF Views
    <3>4. QED
      BY <3>1, <3>2, <3>3
  <2>3. CASE Refreshed(p)
    <3>1. CASE BuildPayload(p)
      <4>1. PICK k \in page[p].at .. Len(history) : Receive(p, k, bucket, kind.staked)
        BY <3>1 DEF BuildPayload
      <4>2. k \in DOMAIN history
        BY <1>2, <1>t DEF Views
      <4>3. bucket \in Titles /\ kind.staked \in BOOLEAN
        BY <1>t DEF PageTypeOK, Kinds
      <4>4. QED
        BY <2>1, <4>1, <4>2, <4>3
    <3>2. CASE PayloadFromCache(p)
      BY <2>1, <3>2, <1>t DEF PayloadFromCache, PageTypeOK
    <3>3. QED
      BY <2>3, <3>1, <3>2 DEF Refreshed
  <2>4. ASSUME NEW modal \in Modals, OpenModal(p, modal) PROVE <1>3
    <3> DEFINE v == [page[p] EXCEPT
                       !.open = modal,
                       !.running = IF modal = "edit" THEN @ \ {"edit"} ELSE @,
                       !.listing = @ \/ modal = "refundAll"]
    <3>1. v \in Views /\ v.at = page[p].at
      BY <1>2 DEF Views
    <3>2. page' = [page EXCEPT ![p] = v]
      BY <2>4, <1>2 DEF OpenModal, Views
    <3> HIDE DEF v
    <3>3. QED
      BY <1>2, <3>1, <3>2
  <2>5. CASE CloseModal(p)
    <3>1. page' = [page EXCEPT ![p] = [page[p] EXCEPT !.open = "none"]]
      BY <2>5 DEF CloseModal
    <3>2. [page[p] EXCEPT !.open = "none"] \in Views
      BY <1>2 DEF Views
    <3>3. [page[p] EXCEPT !.open = "none"].at = page[p].at
      BY <1>2 DEF Views
    <3>4. QED
      BY <1>2, <3>1, <3>2, <3>3
  <2>6. CASE DonorsListed(p)
    <3>1. PICK donors \in {history[indexed].owed, {}} :
            page' = [page EXCEPT ![p].listing = FALSE, ![p].listed = donors]
      BY <2>6 DEF DonorsListed
    <3>2. donors \subseteq Donors
      BY HistoryTyped, <1>t DEF PageTypeOK, Snapshots
    <3> DEFINE v == [page[p] EXCEPT !.listing = FALSE, !.listed = donors]
    <3>3. page' = [page EXCEPT ![p] = v]
      BY <3>1, <1>2 DEF Views
    <3>4. v \in Views /\ v.at = page[p].at
      BY <1>2, <3>2 DEF Views
    <3> HIDE DEF v
    <3>5. QED
      BY <1>2, <3>3, <3>4
  <2>7. QED
    BY <2>2, <2>3, <2>4, <2>5, <2>6
<1>4. PagesStay'
  BY <1>1, <1>3, <1>t, OneView
<1>5. QED
  BY <1>1, <1>4, OnlyPages

---------------------------------------------------------------------------
(* Steps of a call.                                                        *)

\* Call i goes on as c; the pages show the same state of the jar.
Moves(i, c) ==
    /\ c \in Calls
    /\ calls' = [calls EXCEPT ![i] = c]
    /\ c.by = calls[i].by /\ c.form = calls[i].form /\ c.title = calls[i].title
    /\ c.list = calls[i].list /\ c.alone = calls[i].alone
    /\ PagesStay'

LEMMA GoMoves ==
    ASSUME PageTypeOK, NEW i \in DOMAIN calls, NEW pc, history' = history,
           [calls[i] EXCEPT !.pc = pc] \in Calls, Go(i, pc)
    PROVE  Moves(i, [calls[i] EXCEPT !.pc = pc])
<1>1. calls[i] \in Calls
  BY CallsTyped
<1>2. calls' = [calls EXCEPT ![i] = [calls[i] EXCEPT !.pc = pc]] /\ page' = page
  BY DEF Go
<1>3. PagesStay'
  BY <1>2 DEF PagesStay, PageTypeOK
<1>4. QED
  BY <1>1, <1>2, <1>3 DEF Moves, Calls

LEMMA EndMoves ==
    ASSUME PageTypeOK, NEW i \in DOMAIN calls, NEW pc \in Ended, history' = history,
           End(i, pc)
    PROVE  Moves(i, [calls[i] EXCEPT !.pc = pc])
<1> DEFINE p == calls[i].by
           f == calls[i].form
           open == IF pc = "told" /\ page[p].open = f
                        /\ f \in {"withdraw", "cancel", "edit"}
                   THEN "none" ELSE page[p].open
           refreshing == page[p].refreshing \/ pc = "told" \/ f = "refundAll"
           running == page[p].running \ {f}
           v == [page[p] EXCEPT !.running = running, !.refreshing = refreshing,
                                !.open = open]
<1>1. calls[i] \in Calls /\ p \in People /\ page \in [People -> Views]
  BY CallsTyped DEF Calls, PageTypeOK
<1>2. [calls[i] EXCEPT !.pc = pc] \in Calls
  BY <1>1 DEF Calls
<1>3. /\ open \in Modals \union {"none"}
      /\ refreshing \in BOOLEAN /\ running \in SUBSET Forms
  BY <1>1 DEF Views
<1>4. page' = [page EXCEPT ![p] = v]
  BY <1>1 DEF End, Views
<1> HIDE DEF open, refreshing, running
<1>5. page[p] \in Views
  BY <1>1
<1>6. v \in Views /\ v.at = page[p].at
  <2> HIDE DEF p, f
  <2>1. QED
    BY <1>3, <1>5 DEF Views
<1> HIDE DEF v
<1>7. PagesStay'
  BY <1>1, <1>4, <1>6, OneView DEF PageTypeOK
<1>8. calls' = [calls EXCEPT ![i] = [calls[i] EXCEPT !.pc = pc]]
  BY DEF End
<1>9. QED
  BY <1>1, <1>2, <1>7, <1>8 DEF Moves, Calls

\* A round of refunds is over, or goes on with one of those left.
RoundAfter(i, left, ok, c) ==
    /\ c.left = left
    /\ c.reported = calls[i].reported \union (IF ok THEN {} ELSE {calls[i].donor})
    /\ \/ left = {} /\ c.pc = "told"
       \/ c.donor \in left /\ c.pc = "sign"

LEMMA RoundMoves ==
    ASSUME PageTypeOK, NEW i \in DOMAIN calls, NEW left \in SUBSET Donors,
           NEW ok \in BOOLEAN, history' = history, Round(i, left, ok)
    PROVE  \E c : Moves(i, c) /\ RoundAfter(i, left, ok, c)
<1> DEFINE failed == IF ok THEN {} ELSE {calls[i].donor}
           b == [calls[i] EXCEPT !.left = left, !.reported = @ \union failed]
           p == calls[i].by
<1>1. calls[i] \in Calls /\ p \in People /\ page \in [People -> Views]
  BY CallsTyped DEF Calls, PageTypeOK
<1>2. failed \subseteq Donors
  BY <1>1 DEF Calls
<1>3. \/ /\ left = {}
         /\ calls' = [calls EXCEPT ![i] = [b EXCEPT !.pc = "told"]]
         /\ page' = [page EXCEPT ![p].running = @ \ {"refundAll"},
                                 ![p].refreshing = TRUE]
      \/ /\ \E d \in left :
               calls' = [calls EXCEPT ![i] = [b EXCEPT !.pc = "sign", !.donor = d]]
         /\ UNCHANGED page
  BY <1>1 DEF Round, Calls
<1>4. CASE /\ left = {}
           /\ calls' = [calls EXCEPT ![i] = [b EXCEPT !.pc = "told"]]
           /\ page' = [page EXCEPT ![p].running = @ \ {"refundAll"},
                                   ![p].refreshing = TRUE]
  <2> DEFINE c == [b EXCEPT !.pc = "told"]
             v == [page[p] EXCEPT !.running = @ \ {"refundAll"}, !.refreshing = TRUE]
  <2>1. page' = [page EXCEPT ![p] = v] /\ v \in Views /\ v.at = page[p].at
    <3>1. page[p] \in Views
      BY <1>1
    <3>2. page' = [page EXCEPT ![p].running = @ \ {"refundAll"},
                               ![p].refreshing = TRUE]
      BY <1>4
    <3> HIDE DEF p, b
    <3>3. QED
      BY <1>1, <3>1, <3>2 DEF Views
  <2> HIDE DEF v
  <2>3. PagesStay'
    BY <1>1, <2>1, OneView DEF PageTypeOK
  <2> HIDE DEF failed
  <2>4. /\ c \in Calls
        /\ c.by = calls[i].by /\ c.form = calls[i].form /\ c.title = calls[i].title
        /\ c.list = calls[i].list /\ c.alone = calls[i].alone
        /\ c.left = left /\ c.pc = "told" /\ c.reported = calls[i].reported \union failed
    BY <1>1, <1>2 DEF Calls, Ended
  <2>5. Moves(i, c)
    BY <1>4, <2>3, <2>4 DEF Moves
  <2>6. RoundAfter(i, left, ok, c)
    BY <1>4, <2>4 DEF RoundAfter, failed
  <2>7. QED
    BY <2>5, <2>6
<1>5. ASSUME NEW d \in left,
             calls' = [calls EXCEPT ![i] = [b EXCEPT !.pc = "sign", !.donor = d]],
             page' = page
      PROVE  \E c : Moves(i, c) /\ RoundAfter(i, left, ok, c)
  <2> DEFINE c == [b EXCEPT !.pc = "sign", !.donor = d]
  <2>1. PagesStay'
    BY <1>5 DEF PagesStay, PageTypeOK
  <2>d. d \in Donors
    OBVIOUS
  <2> HIDE DEF failed
  <2>2. /\ c \in Calls
        /\ c.by = calls[i].by /\ c.form = calls[i].form /\ c.title = calls[i].title
        /\ c.list = calls[i].list /\ c.alone = calls[i].alone
        /\ c.left = left /\ c.pc = "sign" /\ c.donor = d
        /\ c.reported = calls[i].reported \union failed
    BY <1>1, <1>2, <2>d DEF Calls
  <2>3. Moves(i, c)
    BY <1>5, <2>1, <2>2 DEF Moves
  <2>4. RoundAfter(i, left, ok, c)
    BY <2>2 DEF RoundAfter, failed
  <2>5. QED
    BY <2>3, <2>4
<1>6. QED
  BY <1>3, <1>4, <1>5

\* What a step of call i, now c, may have done besides.
CallStep(i, c) ==
    /\ Moves(i, c)
    /\ CallOK(i, c)
    /\ calls[i].pc \notin Ended
    /\ UNCHANGED <<kind, history, landed, refused, unlocked, indexed>>
    /\ bucket' \in Titles /\ (bucket' = bucket \/ At(i, "upload"))
    /\ \/ flight' = flight /\ c.pc # "sent"
       \/ At(i, "sign") /\ c.pc = "sent" /\ flight' = flight \union {<<i, c.donor>>}
    /\ c.form = "edit" =>
         \/ c.pc \in Ended \ {"told"}
         \/ At(i, "read") /\ c.pc = "message"
         \/ At(i, "message") /\ c.pc = "upload"
         \/ At(i, "upload") /\ c.pc = "sign" /\ bucket' = c.title
         \/ At(i, "sign") /\ c.pc = "sent"
         \/ At(i, "sent") /\ c.pc = "told"

LEMMA CallStepKeeps ==
    ASSUME PageInv, NEW i \in DOMAIN calls, NEW c, CallStep(i, c)
    PROVE  PageInv'
<1>t. PageTypeOK /\ calls \in Seq(Calls) /\ calls[i] \in Calls
  BY CallsTyped DEF PageInv, PageTypeOK
<1>1. /\ DOMAIN calls' = DOMAIN calls /\ calls' \in Seq(Calls) /\ calls'[i] = c
      /\ \A j \in DOMAIN calls : j # i => calls'[j] = calls[j]
  BY <1>t DEF CallStep, Moves
<1>2. PageTypeOK'
  <2>1. flight' \subseteq (DOMAIN calls) \X Donors
    BY <1>t DEF CallStep, Moves, PageTypeOK, Calls
  <2>2. QED
    BY <1>1, <1>t, <2>1 DEF CallStep, Moves, PageTypeOK, PagesStay
<1>3. (\A j \in DOMAIN calls : CallOK(j, calls[j]))'
  <2>1. SUFFICES ASSUME NEW j \in DOMAIN calls PROVE CallOK(j, calls[j])'
    BY <1>1
  <2>2. CallOK(j, calls'[j])
    BY <1>1 DEF CallStep, PageInv
  <2>3. kind' = kind /\ landed' = landed /\ refused' = refused
    BY DEF CallStep
  <2>4. QED
    BY <2>2, <2>3 DEF CallOK
<1>4. \A j \in DOMAIN calls : /\ calls'[j].form = calls[j].form
                              /\ calls'[j].title = calls[j].title
                              /\ calls'[j].alone = calls[j].alone
                              /\ calls[j].pc \in Ended => calls'[j].pc = calls[j].pc
  BY <1>1 DEF CallStep, Moves
<1>5. \A j \in DOMAIN calls, d \in Donors :
        j # i => (<<j, d>> \in flight' <=> <<j, d>> \in flight)
  BY DEF CallStep
<1>6. ASSUME NEW k \in DOMAIN calls, LastEdit(k)', calls'[k].alone PROVE EditOK(k)'
  <2>1. LastEdit(k) /\ calls[k].alone /\ EditOK(k)
    <3>1. LastEdit(k) /\ calls[k].alone
      BY <1>1, <1>4, <1>6 DEF LastEdit
    <3>2. QED
      BY <3>1 DEF PageInv
  <2>2. CASE k = i
    <3>1. OthersOver(k)'
      BY <1>1, <1>5, <2>1, <2>2 DEF EditOK, OthersOver
    <3>2. c.form = "edit" /\ c.title = calls[i].title /\ c.pc = calls'[i].pc
      BY <1>1, <1>4, <2>1, <2>2 DEF LastEdit
    <3>3. /\ landed' = landed /\ history' = history
          /\ bucket' = bucket \/ At(i, "upload")
          /\ c.pc # "sent" => flight' = flight
      BY DEF CallStep
    <3>4. \/ c.pc \in Ended \ {"told"}
          \/ At(i, "read") /\ c.pc = "message"
          \/ At(i, "message") /\ c.pc = "upload"
          \/ At(i, "upload") /\ c.pc = "sign" /\ bucket' = c.title
          \/ At(i, "sign") /\ c.pc = "sent"
          \/ At(i, "sent") /\ c.pc = "told"
      BY <3>2 DEF CallStep
    <3>5. At(i, "read")' \/ At(i, "message")' \/ At(i, "upload")' \/ At(i, "sign")' =>
            \A d \in Donors : <<i, d>> \notin flight' \union landed'
      <4> SUFFICES ASSUME At(i, "read")' \/ At(i, "message")' \/ At(i, "upload")'
                            \/ At(i, "sign")'
                   PROVE  \A d \in Donors : <<i, d>> \notin flight' \union landed'
        OBVIOUS
      <4>1. c.pc \in {"read", "message", "upload", "sign"}
        BY <1>1 DEF At
      <4>2. At(i, "read") \/ At(i, "message") \/ At(i, "upload")
        BY <3>4, <4>1 DEF Ended
      <4>3. \A d \in Donors : <<i, d>> \notin flight \union landed
        BY <2>1, <2>2, <4>2 DEF EditOK
      <4>4. flight' = flight /\ landed' = landed
        BY <3>3, <4>1
      <4>5. QED
        BY <4>3, <4>4
    <3>6. At(i, "sign")' \/ At(i, "sent")' \/ At(i, "told")' => bucket' = c.title
      BY <1>1, <2>1, <2>2, <3>2, <3>3, <3>4 DEF EditOK, At, Ended
    <3>7. At(i, "sent")' \/ At(i, "told")' =>
            \A d \in Donors : <<i, d>> \in landed' => Latest'.title = c.title
      BY <1>1, <2>1, <2>2, <3>2, <3>3, <3>4 DEF EditOK, At, Ended, Latest
    <3>8. QED
      BY <1>1, <2>2, <3>1, <3>5, <3>6, <3>7 DEF EditOK
  <2>3. CASE k # i
    <3>1. calls[i].form # "edit"
      BY <2>1, <2>3 DEF EditOK, OthersOver, CallStep
    <3>2. bucket' = bucket
      <4>1. ~At(i, "upload")
        BY <3>1 DEF PageInv, CallOK, At
      <4>2. QED
        BY <4>1 DEF CallStep
    <3>3. OthersOver(k)'
      BY <1>1, <1>5, <2>1, <2>3, <3>1 DEF EditOK, OthersOver, CallStep, Moves
    <3>4. calls'[k] = calls[k] /\ landed' = landed /\ history' = history
      BY <1>1, <2>3 DEF CallStep
    <3>5. \A d \in Donors : <<k, d>> \in flight' <=> <<k, d>> \in flight
      BY <1>5, <2>3
    <3>6. QED
      BY <2>1, <3>2, <3>3, <3>4, <3>5 DEF EditOK, At, Latest
  <2>4. QED
    BY <2>2, <2>3
<1>7. (\A j \in DOMAIN calls, d \in Donors : TxOK(<<j, d>>))'
  BY <1>1, <1>4 DEF PageInv, TxOK, AcceptsCancel, Latest, CallStep
<1>8. QED
  BY <1>1, <1>2, <1>3, <1>6, <1>7 DEF PageInv

LEMMA ChangedPc ==
    ASSUME PageTypeOK, NEW i \in DOMAIN calls, NEW pc, NEW c,
           c = [calls[i] EXCEPT !.pc = pc]
    PROVE  /\ c.pc = pc
           /\ c.by = calls[i].by /\ c.form = calls[i].form /\ c.title = calls[i].title
           /\ c.donor = calls[i].donor /\ c.left = calls[i].left
           /\ c.reported = calls[i].reported /\ c.list = calls[i].list
           /\ pc \in {"setup", "read", "message", "upload", "sign", "sent"} \union Ended
                => c \in Calls
<1>1. calls[i] \in Calls
  BY CallsTyped
<1>2. QED
  BY <1>1 DEF Calls

\* The round of refunds goes on after a donor who was refunded or is reported.
LEMMA NextDonorKeeps ==
    ASSUME PageInv, NEW i \in DOMAIN calls, NEW ok \in BOOLEAN, NextDonor(i, ok),
           calls[i].form = "refundAll", At(i, "sign") \/ At(i, "sent"),
           ok => <<i, calls[i].donor>> \in landed \union refused,
           UNCHANGED <<kind, unlocked, history, flight, landed, refused, indexed,
                       bucket>>
    PROVE  PageInv'
<1> DEFINE left == calls[i].left \ {calls[i].donor}
<1>t. PageTypeOK /\ calls[i] \in Calls /\ CallOK(i, calls[i])
  BY CallsTyped DEF PageInv
<1>1. left \in SUBSET Donors
  BY <1>t DEF Calls
<1>2. PICK c : Moves(i, c) /\ RoundAfter(i, left, ok, c)
  BY <1>1, <1>t, RoundMoves DEF NextDonor
<1>3. c.form = "refundAll" /\ c.list = calls[i].list /\ c.left = left
  BY <1>2 DEF Moves, RoundAfter
<1>4. \A d \in c.list :
         \/ d \in c.left \/ d \in c.reported
         \/ <<i, d>> \in landed \union refused
  <2>1. \A d \in calls[i].list :
           \/ d \in calls[i].left \/ d \in calls[i].reported
           \/ <<i, d>> \in landed \union refused
    BY <1>t DEF CallOK, At
  <2>2. QED
    BY <1>2, <1>3, <2>1 DEF RoundAfter
<1>5. CallOK(i, c)
  BY <1>2, <1>3, <1>4 DEF CallOK, RoundAfter
<1>6. c.pc # "sent" /\ calls[i].pc \notin Ended
  BY <1>2 DEF RoundAfter, At, Ended
<1>7. CallStep(i, c)
  BY <1>2, <1>3, <1>5, <1>6, <1>t DEF CallStep, PageTypeOK
<1>8. QED
  BY <1>7, CallStepKeeps

\* A call ends without having been told done.
LEMMA EndKeeps ==
    ASSUME PageInv, NEW i \in DOMAIN calls, NEW pc \in Ended \ {"told"}, End(i, pc),
           calls[i].pc \notin Ended,
           UNCHANGED <<kind, unlocked, history, flight, landed, refused, indexed>>,
           bucket' \in Titles, bucket' = bucket \/ At(i, "upload")
    PROVE  PageInv'
<1> DEFINE c == [calls[i] EXCEPT !.pc = pc]
<1>t. PageTypeOK /\ CallOK(i, calls[i])
  BY DEF PageInv
<1>1. Moves(i, c)
  BY <1>t, EndMoves
<1>2. /\ c.pc = pc /\ c.by = calls[i].by
      /\ c.form = calls[i].form /\ c.donor = calls[i].donor
  BY <1>t, ChangedPc
<1> HIDE DEF c
<1>3. CallOK(i, c)
  BY <1>t, <1>2 DEF CallOK, Ended
<1>4. CallStep(i, c)
  BY <1>1, <1>2, <1>3 DEF CallStep, Ended
<1>5. QED
  BY <1>4, CallStepKeeps

LEMMA FailKeeps ==
    ASSUME PageInv, NEW i \in DOMAIN calls, Fail(i), calls[i].pc \notin Ended,
           UNCHANGED <<kind, unlocked, history, flight, landed, refused, indexed>>,
           bucket' \in Titles, bucket' = bucket \/ At(i, "upload")
    PROVE  PageInv'
<1>1. CASE calls[i].form = "refundAll"
  <2>1. At(i, "sign") \/ At(i, "sent")
    <3>1. calls[i] \in Calls /\ CallOK(i, calls[i])
      BY CallsTyped DEF PageInv
    <3>2. QED
      BY <1>1, <3>1 DEF CallOK, Calls, At, Contributing
  <2>2. bucket' = bucket
    BY <2>1 DEF At
  <2>3. NextDonor(i, FALSE)
    BY <1>1 DEF Fail
  <2>4. QED
    BY <1>1, <2>1, <2>2, <2>3, NextDonorKeeps
<1>2. CASE calls[i].form # "refundAll"
  <2>1. End(i, "error")
    BY <1>2 DEF Fail
  <2>2. QED
    BY <2>1, EndKeeps DEF Ended
<1>3. QED
  BY <1>1, <1>2

\* A call goes on to its next await.
LEMMA GoKeeps ==
    ASSUME PageInv, NEW i \in DOMAIN calls, NEW pc, Go(i, pc),
           \/ At(i, "setup") /\ pc = "sign"
           \/ At(i, "read") /\ pc = "message"
           \/ At(i, "message") /\ pc = "upload"
           \/ At(i, "upload") /\ pc = "sign"
           \/ At(i, "sign") /\ pc = "sent",
           UNCHANGED <<kind, unlocked, history, landed, refused, indexed>>,
           flight' = IF pc = "sent" THEN flight \union {<<i, calls[i].donor>>}
                                    ELSE flight,
           bucket' = IF At(i, "upload") THEN calls[i].title ELSE bucket
    PROVE  PageInv'
<1> DEFINE c == [calls[i] EXCEPT !.pc = pc]
<1>t. PageTypeOK /\ CallOK(i, calls[i]) /\ calls[i] \in Calls
  BY CallsTyped DEF PageInv
<1>0. pc \in {"message", "upload", "sign", "sent"}
  OBVIOUS
<1>1. /\ c \in Calls /\ c.pc = pc /\ c.by = calls[i].by /\ c.form = calls[i].form
      /\ c.title = calls[i].title /\ c.donor = calls[i].donor
      /\ c.left = calls[i].left /\ c.reported = calls[i].reported
      /\ c.list = calls[i].list
  BY <1>0, <1>t, ChangedPc
<1>2. Moves(i, c)
  BY <1>1, <1>t, GoMoves
<1> HIDE DEF c
<1>3. CallOK(i, c)
  BY <1>1, <1>t DEF CallOK, At, Contributing
<1>4. bucket' \in Titles
  BY <1>t DEF PageTypeOK, Calls
<1>5. c.form = "edit" => ~At(i, "setup")
  BY <1>1, <1>t DEF CallOK, At, Contributing
<1>6. calls[i].pc \notin Ended
  BY DEF At, Ended
<1>7. CallStep(i, c)
  BY <1>1, <1>2, <1>3, <1>4, <1>5, <1>6 DEF CallStep, At
<1>8. QED
  BY <1>7, CallStepKeeps

\* A call is told done.
LEMMA TellKeeps ==
    ASSUME PageInv, NEW i \in DOMAIN calls, End(i, "told"),
           calls[i].form # "refundAll",
           \/ At(i, "setup")
           \/ At(i, "sent") /\ <<i, calls[i].donor>> \in landed \union refused,
           UNCHANGED <<kind, unlocked, history, flight, landed, refused, indexed,
                       bucket>>
    PROVE  PageInv'
<1> DEFINE c == [calls[i] EXCEPT !.pc = "told"]
<1>t. PageTypeOK /\ CallOK(i, calls[i])
  BY DEF PageInv
<1>1. Moves(i, c)
  BY <1>t, EndMoves DEF Ended
<1>2. /\ c.pc = "told" /\ c.by = calls[i].by
      /\ c.form = calls[i].form /\ c.donor = calls[i].donor
  BY <1>t, ChangedPc
<1> HIDE DEF c
<1>3. At(i, "setup") => c.form \notin {"cancel", "edit"}
  BY <1>t, <1>2 DEF CallOK, At, Contributing
<1>4. CallOK(i, c)
  BY <1>t, <1>2, <1>3 DEF CallOK
<1>5. calls[i].pc \notin Ended
  BY DEF At, Ended
<1>6. CallStep(i, c)
  BY <1>1, <1>2, <1>3, <1>4, <1>5, <1>t DEF CallStep, PageTypeOK, At
<1>7. QED
  BY <1>6, CallStepKeeps

LEMMA CallMovesKeep ==
    ASSUME PageInv, NEW i \in DOMAIN calls,
           \/ Setup(i) \/ ReadOwnJar(i) \/ SignMessage(i) \/ Upload(i)
           \/ Sign(i) \/ Answer(i)
    PROVE  PageInv'
<1>t. bucket \in Titles /\ calls[i] \in Calls /\ CallOK(i, calls[i])
  BY CallsTyped DEF PageInv, PageTypeOK
<1> USE DEF chain, server
<1>1. CASE Setup(i)
  <2>1. /\ UNCHANGED <<kind, unlocked, history, flight, landed, refused, indexed,
                       bucket>>
        /\ calls[i].pc \notin Ended /\ At(i, "setup") /\ ~At(i, "upload")
        /\ calls[i].form # "refundAll"
    BY <1>1, <1>t DEF Setup, At, Ended, CallOK, Contributing
  <2>2. CASE Go(i, "sign")
    BY <2>1, <2>2, GoKeeps
  <2>3. CASE Fail(i)
    BY <1>t, <2>1, <2>3, FailKeeps
  <2>4. CASE Reject(i)
    BY <1>t, <2>1, <2>4, EndKeeps DEF Reject, Ended
  <2>5. CASE Succeed(i)
    BY <2>1, <2>5, TellKeeps DEF Succeed
  <2>6. QED
    BY <1>1, <2>2, <2>3, <2>4, <2>5 DEF Setup
<1>2. CASE ReadOwnJar(i) \/ SignMessage(i)
  <2>1. /\ UNCHANGED <<kind, unlocked, history, flight, landed, refused, indexed,
                       bucket>>
        /\ calls[i].pc \notin Ended /\ ~At(i, "upload")
    BY <1>2 DEF ReadOwnJar, SignMessage, At, Ended
  <2>2. CASE At(i, "read") /\ Go(i, "message")
    BY <2>1, <2>2, GoKeeps
  <2>3. CASE At(i, "message") /\ Go(i, "upload")
    BY <2>1, <2>3, GoKeeps
  <2>4. CASE Fail(i)
    BY <1>t, <2>1, <2>4, FailKeeps
  <2>5. CASE Reject(i)
    BY <1>t, <2>1, <2>5, EndKeeps DEF Reject, Ended
  <2>6. QED
    BY <1>2, <2>2, <2>3, <2>4, <2>5 DEF ReadOwnJar, SignMessage
<1>3. CASE Upload(i)
  <2>1. /\ UNCHANGED <<kind, unlocked, history, flight, landed, refused, indexed>>
        /\ calls[i].pc \notin Ended /\ At(i, "upload")
    BY <1>3 DEF Upload, At, Ended
  <2>2. CASE bucket' = calls[i].title /\ Go(i, "sign")
    BY <2>1, <2>2, GoKeeps
  <2>3. CASE bucket' \in {calls[i].title, bucket} /\ Fail(i)
    <3>1. bucket' \in Titles
      BY <1>t, <2>3 DEF Calls
    <3>2. QED
      BY <2>1, <2>3, <3>1, FailKeeps
  <2>4. QED
    BY <1>3, <2>2, <2>3 DEF Upload
<1>4. CASE Sign(i)
  <2>1. /\ UNCHANGED <<kind, unlocked, history, landed, refused, indexed, bucket>>
        /\ calls[i].pc \notin Ended /\ At(i, "sign") /\ ~At(i, "upload")
    BY <1>4 DEF Sign, At, Ended
  <2>2. CASE Reject(i) /\ flight' = flight
    BY <1>t, <2>1, <2>2, EndKeeps DEF Reject, Ended
  <2>3. CASE End(i, "unsigned") /\ flight' = flight
    BY <1>t, <2>1, <2>3, EndKeeps DEF Ended
  <2>4. CASE Fail(i) /\ flight' = flight
    BY <1>t, <2>1, <2>4, FailKeeps
  <2>5. CASE Go(i, "sent") /\ flight' = flight \union {<<i, calls[i].donor>>}
    BY <2>1, <2>5, GoKeeps
  <2>6. QED
    BY <1>4, <2>2, <2>3, <2>4, <2>5 DEF Sign
<1>5. CASE Answer(i)
  <2>1. /\ UNCHANGED <<kind, unlocked, history, flight, landed, refused, indexed,
                       bucket>>
        /\ calls[i].pc \notin Ended /\ At(i, "sent") /\ ~At(i, "upload")
    BY <1>5 DEF Answer, At, Ended
  <2>2. CASE Fail(i)
    BY <1>t, <2>1, <2>2, FailKeeps
  <2>3. CASE <<i, calls[i].donor>> \in landed \union refused /\ Succeed(i)
    <3>1. CASE calls[i].form = "refundAll"
      BY <2>1, <2>3, <3>1, NextDonorKeeps DEF Succeed
    <3>2. CASE calls[i].form # "refundAll"
      BY <2>1, <2>3, <3>2, TellKeeps DEF Succeed
    <3>3. QED
      BY <3>1, <3>2
  <2>4. QED
    BY <1>5, <2>2, <2>3 DEF Answer
<1>6. QED
  BY <1>1, <1>2, <1>3, <1>4, <1>5

---------------------------------------------------------------------------
(* The chain, the clocks and the indexer.                                  *)

\* What a call that is accepted makes of the jar.
LEMMA OutcomesTyped ==
    ASSUME PageTypeOK, NEW c \in Calls, NEW after \in Outcomes(c)
    PROVE  /\ after \in Snapshots
           /\ c.form = "edit" => after.title = c.title
           /\ c.form # "edit" => after.title = Latest.title
           /\ after.status = "active" => Latest.status = "active" /\ c.form # "cancel"
<1> Latest \in Snapshots
  BY HistoryTyped
<1>1. CASE c.form \in Contributing
  BY <1>1 DEF Outcomes, Snapshots, Contributing, Calls
<1>2. CASE c.form = "withdraw"
  BY <1>2 DEF Outcomes, Snapshots, Contributing
<1>3. CASE c.form = "cancel"
  BY <1>3 DEF Outcomes, Snapshots, Contributing
<1>4. CASE c.form \in {"refundAll", "claim"}
  BY <1>4 DEF Outcomes, Snapshots, Contributing
<1>5. CASE c.form = "edit"
  BY <1>5 DEF Outcomes, Snapshots, Contributing, Calls
<1>6. QED
  BY <1>1, <1>2, <1>3, <1>4, <1>5
  DEF Calls, Forms, Modals, OwnersForms, Contributing

LEMMA LandKeeps ==
    ASSUME PageInv, NEW i \in DOMAIN calls, NEW d \in Donors, Land(i, d)
    PROVE  PageInv'
<1>t. PageTypeOK /\ calls \in Seq(Calls) /\ calls[i] \in Calls
  BY CallsTyped DEF PageInv, PageTypeOK
<1>h. /\ history \in Seq(Snapshots) /\ Len(history) \in Nat \ {0}
      /\ DOMAIN history = 1 .. Len(history)
  BY HistoryTyped, <1>t DEF PageTypeOK
<1>1. /\ <<i, d>> \in flight /\ flight' = flight \ {<<i, d>>}
      /\ UNCHANGED <<kind, unlocked, indexed, bucket, page, calls>>
  BY DEF Land, server
<1>2. \/ UNCHANGED <<history, landed, refused>>
      \/ /\ UNCHANGED <<history, landed>>
         /\ refused' = refused \union {<<i, d>>}
         /\ calls[i].form # "edit"
         /\ calls[i].form = "cancel" => ~AcceptsCancel
      \/ \E after \in Snapshots :
            /\ history' = Append(history, after)
            /\ landed' = landed \union {<<i, d>>}
            /\ refused' = refused
            /\ calls[i].form = "edit" => after.title = calls[i].title
            /\ calls[i].form # "edit" => after.title = Latest.title
            /\ after.status = "active" =>
                  Latest.status = "active" /\ calls[i].form # "cancel"
  <2> DEFINE c == [calls[i] EXCEPT !.donor = d]
  <2>1. c \in Calls /\ c.form = calls[i].form /\ c.title = calls[i].title
    BY <1>t DEF Calls
  <2>2. \/ UNCHANGED <<history, landed, refused>>
        \/ /\ UNCHANGED <<history, landed>>
           /\ refused' = refused \union {<<i, d>>}
           /\ MayFail(c)
        \/ \E after \in Outcomes(c) :
              /\ history' = Append(history, after)
              /\ landed' = landed \union {<<i, d>>}
              /\ refused' = refused
    BY DEF Land
  <2> HIDE DEF c
  <2>3. MayFail(c) => c.form # "edit" /\ (c.form = "cancel" => ~AcceptsCancel)
    BY DEF MayFail, Accepts, Contributing
  <2>4. QED
    BY <1>t, <2>1, <2>2, <2>3, OutcomesTyped
<1>3. /\ history' \in Seq(Snapshots) /\ DOMAIN history \subseteq DOMAIN history'
      /\ landed' \subseteq (DOMAIN calls) \X Donors /\ landed \subseteq landed'
      /\ refused' \subseteq (DOMAIN calls) \X Donors /\ refused \subseteq refused'
  <2>1. /\ landed \subseteq (DOMAIN calls) \X Donors
        /\ refused \subseteq (DOMAIN calls) \X Donors
    BY <1>t DEF PageTypeOK
  <2>2. CASE UNCHANGED <<history, landed>> /\ refused' \in {refused, refused \union {<<i, d>>}}
    BY <1>h, <2>1, <2>2
  <2>3. ASSUME NEW after \in Snapshots, history' = Append(history, after),
               landed' = landed \union {<<i, d>>}, refused' = refused
        PROVE  <1>3
    <3>1. history' \in Seq(Snapshots) /\ DOMAIN history' = 1 .. Len(history) + 1
      BY <1>h, <2>3
    <3>2. QED
      BY <1>h, <2>1, <2>3, <3>1
  <2>4. QED
    BY <1>2, <2>2, <2>3
<1>4. PageTypeOK'
  BY <1>t, <1>1, <1>3 DEF PageTypeOK
<1>5. (\A j \in DOMAIN calls : CallOK(j, calls[j]))'
  BY <1>1, <1>3 DEF PageInv, CallOK
<1>6. (\A j \in DOMAIN calls, e \in Donors : TxOK(<<j, e>>))'
  <2>1. ASSUME NEW j \in DOMAIN calls, NEW e \in Donors PROVE TxOK(<<j, e>>)'
    <3>0. TxOK(<<j, e>>)
      BY <2>1 DEF PageInv
    <3>1. CASE UNCHANGED <<history, landed, refused>>
      BY <1>1, <3>0, <3>1 DEF TxOK, AcceptsCancel, Latest
    <3>2. CASE /\ UNCHANGED <<history, landed>>
               /\ refused' = refused \union {<<i, d>>}
               /\ calls[i].form # "edit"
               /\ calls[i].form = "cancel" => ~AcceptsCancel
      <4>1. (calls[j].form = "edit" => <<j, e>> \notin refused)'
        BY <1>1, <3>0, <3>2 DEF TxOK
      <4>2. AcceptsCancel' = AcceptsCancel
        BY <1>1, <3>2 DEF AcceptsCancel, Latest
      <4>3. calls[j].form = "cancel" /\ <<j, e>> \in landed' \union refused'
              => ~AcceptsCancel
        BY <1>1, <3>0, <3>2 DEF TxOK
      <4>4. QED
        BY <1>1, <4>1, <4>2, <4>3 DEF TxOK
    <3>3. ASSUME NEW after \in Snapshots, history' = Append(history, after),
                 landed' = landed \union {<<i, d>>}, refused' = refused,
                 after.status = "active" =>
                    Latest.status = "active" /\ calls[i].form # "cancel"
          PROVE  TxOK(<<j, e>>)'
      <4>1. Latest' = after
        BY <1>h, <3>3 DEF Latest
      <4>2. AcceptsCancel' => AcceptsCancel /\ calls[i].form # "cancel"
        BY <1>1, <3>3, <4>1 DEF AcceptsCancel
      <4>3. QED
        BY <1>1, <3>0, <3>3, <4>2 DEF TxOK
    <3>4. QED
      BY <1>2, <3>1, <3>2, <3>3
  <2>2. QED
    BY <1>1, <2>1
<1>7. ASSUME NEW k \in DOMAIN calls, LastEdit(k)', calls'[k].alone PROVE EditOK(k)'
  <2>1. EditOK(k) /\ calls[k].form = "edit"
    BY <1>1, <1>7 DEF PageInv, LastEdit
  <2>2. OthersOver(k)'
    BY <1>1, <2>1 DEF EditOK, OthersOver
  <2>3. k # i => calls[i].form # "edit"
    BY <1>1, <2>1 DEF EditOK, OthersOver
  <2>4. At(k, "read") \/ At(k, "message") \/ At(k, "upload") \/ At(k, "sign") =>
          \A e \in Donors : <<k, e>> \notin flight' \union landed'
    BY <1>1, <1>2, <2>1 DEF EditOK
  <2>5. At(k, "sent") \/ At(k, "told") =>
          \A e \in Donors : <<k, e>> \in landed' => Latest'.title = calls[k].title
    <3>1. CASE UNCHANGED <<history, landed>>
      BY <2>1, <3>1 DEF EditOK, Latest
    <3>2. ASSUME NEW after \in Snapshots, history' = Append(history, after),
                 landed' = landed \union {<<i, d>>},
                 calls[i].form = "edit" => after.title = calls[i].title,
                 calls[i].form # "edit" => after.title = Latest.title
          PROVE  <2>5
      <4>1. Latest' = after
        BY <1>h, <3>2 DEF Latest
      <4>2. QED
        BY <2>1, <2>3, <3>2, <4>1 DEF EditOK
    <3>3. QED
      BY <1>2, <3>1, <3>2
  <2>6. QED
    BY <1>1, <2>1, <2>2, <2>4, <2>5 DEF EditOK, At
<1>8. QED
  BY <1>1, <1>4, <1>5, <1>6, <1>7 DEF PageInv

LEMMA AsideKeeps ==
    ASSUME PageInv, (\E side \in {"chain", "browser"} : Unlock(side)) \/ Index
    PROVE  PageInv'
<1>1. /\ UNCHANGED <<kind, history, flight, landed, refused, bucket, page, calls>>
      /\ unlocked \subseteq unlocked'
      /\ unlocked' \subseteq {"chain", "browser"} /\ indexed' \in DOMAIN history
  <2>1. /\ Len(history) \in Nat /\ DOMAIN history = 1 .. Len(history)
        /\ indexed \in DOMAIN history /\ unlocked \subseteq {"chain", "browser"}
    BY HistoryTyped DEF PageInv, PageTypeOK
  <2>2. CASE Index
    BY <2>1, <2>2 DEF Index, chain
  <2>3. CASE \E side \in {"chain", "browser"} : Unlock(side)
    BY <2>1, <2>3 DEF Unlock, chain
  <2>4. QED
    BY <2>2, <2>3
<1>2. PageTypeOK'
  BY <1>1 DEF PageInv, PageTypeOK
<1>3. (\A i \in DOMAIN calls : CallOK(i, calls[i]))'
  BY <1>1 DEF PageInv, CallOK
<1>4. (\A i \in DOMAIN calls : LastEdit(i) /\ calls[i].alone => EditOK(i))'
  BY <1>1 DEF PageInv, LastEdit, EditOK, OthersOver, At, Latest
<1>5. (\A i \in DOMAIN calls, d \in Donors : TxOK(<<i, d>>))'
  BY <1>1 DEF PageInv, TxOK, AcceptsCancel, Latest
<1>6. QED
  BY <1>2, <1>3, <1>4, <1>5 DEF PageInv

---------------------------------------------------------------------------
(* A press.                                                                *)

LEMMA PressKeeps ==
    ASSUME PageInv, NEW p \in People, NEW f \in Forms, Press(p, f)
    PROVE  PageInv'
<1>n. PICK n : n = Len(calls) + 1
  OBVIOUS
<1> DEFINE old == Crowded(f)
<1>t. /\ PageTypeOK /\ calls \in Seq(Calls) /\ Len(calls) \in Nat
      /\ DOMAIN calls = 1 .. Len(calls) /\ n \notin DOMAIN calls
      /\ DOMAIN calls \union {n} = 1 .. n
      /\ \A i \in DOMAIN calls : calls[i] \in Calls
  BY <1>n, CallsTyped DEF PageInv, PageTypeOK
<1>v. page[p] \in Views
  BY <1>t DEF PageTypeOK
<1>1. PICK pc \in FirstSteps(f), d \in Refunded(p, f), t \in Titles :
        calls' = Append(old,
            [ by |-> p, form |-> f, marinade |-> page[p].marinade, title |-> t,
              pc |-> pc, donor |-> d, left |-> Refunded(p, f), reported |-> {},
              list |-> Refunded(p, f), alone |-> ~EditUnderWay ])
  <2>1. page[p].title \in Titles
    BY <1>v DEF Views
  <2>2. QED
    BY <2>1 DEF Press
<1> DEFINE new == [ by |-> p, form |-> f, marinade |-> page[p].marinade, title |-> t,
              pc |-> pc, donor |-> d, left |-> Refunded(p, f), reported |-> {},
              list |-> Refunded(p, f), alone |-> ~EditUnderWay ]
<1>2. /\ UNCHANGED <<kind, unlocked, history, flight, landed, refused, indexed,
                       bucket>>
      /\ page' = [page EXCEPT ![p] = [page[p] EXCEPT !.running = @ \union {f}]]
  BY <1>v, <1>t DEF Press, chain, server, PageTypeOK, Views
<1>3. /\ Refunded(p, f) \in SUBSET Donors
      /\ pc \in {"read", "setup", "sign"}
      /\ pc = "read" <=> f = "edit"
      /\ pc = "setup" => f \in Contributing \union {"withdraw"} /\ kind.asset = "usdc"
      /\ f # "refundAll" => d = p
  BY <1>v DEF Views, Refunded, Donors, FirstSteps, Contributing
<1>4. new \in Calls
  BY <1>v, <1>3 DEF Calls, Views
<1>5. /\ old \in [DOMAIN calls -> Calls]
      /\ f # "edit" => old = calls
      /\ \A i \in DOMAIN calls :
            /\ old[i].by = calls[i].by /\ old[i].form = calls[i].form
            /\ old[i].pc = calls[i].pc /\ old[i].donor = calls[i].donor
            /\ old[i].left = calls[i].left /\ old[i].list = calls[i].list
            /\ old[i].reported = calls[i].reported
  <2>1. CASE f # "edit"
    BY <1>t, <2>1 DEF Crowded
  <2>2. CASE f = "edit"
    <3>1. ASSUME NEW i \in DOMAIN calls
          PROVE  /\ old[i] \in Calls
                 /\ old[i].by = calls[i].by /\ old[i].form = calls[i].form
                 /\ old[i].pc = calls[i].pc /\ old[i].donor = calls[i].donor
                 /\ old[i].left = calls[i].left /\ old[i].list = calls[i].list
                 /\ old[i].reported = calls[i].reported
      <4> DEFINE alone == calls[i].alone /\ calls[i].pc \in Ended
      <4>1. alone \in BOOLEAN
        OBVIOUS
      <4>2. old[i] = [calls[i] EXCEPT !.alone = alone]
        BY <2>2 DEF Crowded
      <4>3. calls[i] \in Calls
        BY <1>t
      <4> HIDE DEF alone, old
      <4>4. QED
        BY <4>1, <4>2, <4>3 DEF Calls
    <3>2. old = [i \in DOMAIN calls |-> old[i]]
      BY DEF Crowded
    <3> HIDE DEF old
    <3>3. old \in [DOMAIN calls -> Calls]
      BY <3>1, <3>2
    <3>4. QED
      BY <2>2, <3>1, <3>3
  <2>3. QED
    BY <2>1, <2>2
<1>6. old \in Seq(Calls) /\ Len(old) = Len(calls)
  BY <1>5, <1>t
<1> HIDE DEF old, new
<1>7. /\ calls' \in Seq(Calls) /\ DOMAIN calls' = 1 .. n
      /\ calls'[n] = new /\ \A i \in DOMAIN calls : calls'[i] = old[i]
  BY <1>1, <1>4, <1>6, <1>t, <1>n DEF new
<1>8. PageTypeOK'
  <2>1. [page[p] EXCEPT !.running = @ \union {f}] \in Views
    BY <1>v DEF Views
  <2>2. [page[p] EXCEPT !.running = @ \union {f}].at = page[p].at
    BY <1>v DEF Views
  <2>3. PagesStay'
    BY <1>2, <1>t, <2>1, <2>2, OneView DEF PageTypeOK
  <2>4. QED
    BY <1>2, <1>7, <1>t, <2>3 DEF PageTypeOK, PagesStay
<1>9. (\A i \in DOMAIN calls : CallOK(i, calls[i]))'
  <2>1. ASSUME NEW i \in DOMAIN calls PROVE CallOK(i, calls[i])'
    <3>1. CallOK(i, calls[i])
      BY DEF PageInv
    <3>2. CallOK(i, calls'[i])
      BY <1>5, <1>7, <3>1 DEF CallOK
    <3>3. QED
      BY <1>2, <3>2 DEF CallOK
  <2>2. CallOK(n, calls[n])'
    BY <1>2, <1>3, <1>7 DEF CallOK, new, Contributing
  <2>3. QED
    BY <1>7, <1>t, <2>1, <2>2
<1>10. ASSUME NEW k \in DOMAIN calls', LastEdit(k)', calls'[k].alone PROVE EditOK(k)'
  <2>1. CASE k = n
    <3>1. f = "edit" /\ ~EditUnderWay
      <4>1. calls'[n] = new /\ calls'[n].form = "edit" /\ calls'[n].alone
        BY <1>7, <1>10, <2>1 DEF LastEdit
      <4>2. new.form = f
        BY DEF new
      <4>3. new.alone = ~EditUnderWay
        BY DEF new
      <4>4. QED
        BY <4>1, <4>2, <4>3
    <3>2. OthersOver(n)'
      <4>1. \A j \in DOMAIN calls : calls[j].form = "edit" =>
               calls[j].pc \in Ended /\ \A e \in Donors : <<j, e>> \notin flight
        BY <1>t, <3>1 DEF EditUnderWay
      <4>2. QED
        BY <1>2, <1>5, <1>7, <1>t, <4>1 DEF OthersOver
    <3>3. calls'[n].pc = "read"
      BY <1>3, <1>7, <3>1 DEF new
    <3>4. \A e \in Donors : <<n, e>> \notin flight' \union landed'
      BY <1>2, <1>t DEF PageTypeOK
    <3>5. QED
      BY <2>1, <3>2, <3>3, <3>4 DEF EditOK, At
  <2>2. CASE k \in DOMAIN calls
    <3>1. f # "edit"
      <4>1. n \in DOMAIN calls' /\ k < n
        BY <1>7, <1>t, <2>2
      <4>2. calls'[n].form # "edit"
        BY <1>10, <1>t, <2>2, <4>1 DEF LastEdit
      <4>3. QED
        BY <1>7, <4>2 DEF new
    <3>2. LastEdit(k) /\ calls[k].alone
      BY <1>5, <1>7, <1>t, <1>10, <2>2, <3>1 DEF LastEdit
    <3>3. EditOK(k)
      BY <2>2, <3>2 DEF PageInv
    <3>4. OthersOver(k)'
      BY <1>2, <1>5, <1>7, <1>t, <3>1, <3>3 DEF EditOK, OthersOver, new
    <3>5. calls'[k] = calls[k]
      BY <1>5, <1>7, <2>2, <3>1
    <3>6. QED
      BY <1>2, <3>3, <3>4, <3>5 DEF EditOK, At, Latest
  <2>3. QED
    BY <1>7, <1>t, <2>1, <2>2
<1>11. (\A i \in DOMAIN calls, e \in Donors : TxOK(<<i, e>>))'
  <2>1. ASSUME NEW i \in DOMAIN calls, NEW e \in Donors PROVE TxOK(<<i, e>>)'
    <3>1. TxOK(<<i, e>>) /\ calls'[i].form = calls[i].form
      BY <1>5, <1>7 DEF PageInv
    <3>2. QED
      BY <1>2, <3>1 DEF TxOK, AcceptsCancel, Latest
  <2>2. ASSUME NEW e \in Donors PROVE TxOK(<<n, e>>)'
    <3>1. <<n, e>> \notin landed' \union refused'
      BY <1>2, <1>t DEF PageTypeOK
    <3>2. QED
      BY <3>1 DEF TxOK
  <2>3. QED
    BY <1>7, <1>t, <2>1, <2>2
<1>12. QED
  BY <1>8, <1>9, <1>10, <1>11 DEF PageInv

LEMMA PageInvStep == PageInv /\ [PageNext]_pageVars => PageInv'
<1> SUFFICES ASSUME PageInv, [PageNext]_pageVars PROVE PageInv'
  OBVIOUS
<1>1. ASSUME PageMoves PROVE PageInv'
  <2>1. PICK p \in People :
          \/ FetchJar(p) \/ OnJarChange(p) \/ Refreshed(p)
          \/ \E modal \in Modals : OpenModal(p, modal)
          \/ CloseModal(p) \/ DonorsListed(p)
          \/ \E f \in Forms : Press(p, f)
    BY <1>1 DEF PageMoves
  <2>2. QED
    BY <2>1, PageMovesKeep, PressKeeps
<1>2. ASSUME CallMoves PROVE PageInv'
  BY <1>2, CallMovesKeep, LandKeeps DEF CallMoves
<1>3. CASE UNCHANGED pageVars
  BY <1>3, OnlyPages DEF pageVars, PagesStay, PageInv, PageTypeOK
<1>4. QED
  BY <1>1, <1>2, <1>3, AsideKeeps DEF PageNext

LEMMA PageInvAlways == PageSpec => []PageInv
  BY PageInvInit, PageInvStep, PTL DEF PageSpec

\* The pages, the calls and what is on the chain stay well typed, for any
\* people, donors and titles and any number of presses; a page always shows a
\* state the jar once had (JarView).
THEOREM PageTypeCorrect == PageSpec => []PageTypeOK
<1>1. PageInv => PageTypeOK
  BY DEF PageInv
<1>2. QED
  BY <1>1, PageInvAlways, PTL

\* However late answers come and whatever else is pressed meanwhile, a jar whose
\* cancellation was told as done cannot be cancelled any more: it
\* is closed, or its unlock time has come (CancelModal, swallowAlreadyProcessed).
THEOREM ToldCancelIsOver == PageSpec => []CancelToldIsOver
<1>1. PageInv => CancelToldIsOver
  <2> SUFFICES ASSUME PageInv, NEW i \in DOMAIN calls, calls[i].form = "cancel",
                      At(i, "told")
               PROVE  ~AcceptsCancel
    BY DEF CancelToldIsOver
  <2>1. CallOK(i, calls[i]) /\ calls[i].by \in Donors
    BY CallsTyped DEF PageInv, Calls, Donors
  <2>2. <<i, calls[i].by>> \in landed \union refused
    BY <2>1 DEF CallOK, At
  <2>3. TxOK(<<i, calls[i].by>>)
    BY <2>1 DEF PageInv
  <2>4. QED
    BY <2>2, <2>3 DEF TxOK
<1>2. QED
  BY <1>1, PageInvAlways, PTL

\* A round of refunds that is told done has refunded or reported every donor it
\* listed, or sent a refund that was executed and failed, for any list and any
\* failures in between (RefundAllModal).
THEOREM RoundMissesNobody == PageSpec => []NobodySkipped
<1>1. PageInv => NobodySkipped
  BY DEF PageInv, CallOK, NobodySkipped, At
<1>2. QED
  BY <1>1, PageInvAlways, PTL

\* An edit that had the page's metadata to itself and was told done leaves the
\* bucket and the chain with its title, until the next edit, whatever other
\* transactions land meanwhile (EditMetadataModal).
THEOREM BucketFollowsChain == PageSpec => []BucketMatchesChain
<1>1. PageInv => BucketMatchesChain
  <2> SUFFICES ASSUME PageInv, NEW i \in DOMAIN calls, LastEdit(i), calls[i].alone,
                      At(i, "told")
               PROVE  bucket = calls[i].title /\ Latest.title = calls[i].title
    BY DEF BucketMatchesChain
  <2>1. EditOK(i) /\ calls[i].form = "edit" /\ CallOK(i, calls[i])
    BY DEF PageInv, LastEdit
  <2>2. calls[i].by \in Donors
    BY CallsTyped DEF PageInv, Calls, Donors
  <2>3. <<i, calls[i].by>> \in landed
    BY <2>1, <2>2 DEF CallOK, At, PageInv, TxOK
  <2>4. QED
    BY <2>1, <2>2, <2>3 DEF EditOK
<1>2. QED
  BY <1>1, PageInvAlways, PTL
===============================================================================
