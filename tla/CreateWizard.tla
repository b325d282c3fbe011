---------------------------- MODULE CreateWizard ----------------------------
(***************************************************************************)
(* The four steps in which a person describes a new jar (CreateWizard,     *)
(* with its cover grid and cropper, calendar, co-signers and review), up   *)
(* to the call of useCreateJar().submit and the answer to it.              *)
(*                                                                         *)
(* Time is counted in days: the wizard may stay open past midnight, and    *)
(* the calendar greys out days from the last render, not from today.       *)
(* Cropping a photo is asynchronous, and its result arrives wherever the   *)
(* person is by then.  Texts are abstracted to what the checks tell apart. *)
(***************************************************************************)
EXTENDS Naturals, FiniteSets

CONSTANTS
    Emojis, FirstEmoji,     \* the covers of the grid, and the one at first
    Photos,                 \* files that can be cropped to a cover
    Friends,                \* co-signers that can be added
    LastDay, Presets,       \* bound on time; the presets, in days from today
    MaxTimelock,            \* the program's longest lock, in days
    None

ASSUME WizardAssumption ==
    /\ FirstEmoji \in Emojis
    /\ None \notin Emojis \union Photos \union Nat
    /\ Presets \subseteq Nat \ {0}

VARIABLES
    today, shownDay,    \* the date, and the date at the last render
    step,               \* 1 Details, 2 Rules, 3 Controls, 4 Review
    form,               \* what was filled in
    cropper,            \* the cover grid's dialog, while step 1 is shown
    jobs,               \* photos being cropped, each for this grid or a gone one
    status, submitted   \* useCreateJar: its status, the arguments of its last call
                        \* unless that failed

vars == <<today, shownDay, step, form, cropper, jobs, status, submitted>>

Types == {"goal", "timeLocked", "group"}
\* Bad: no number, or not positive.  Fair: from 10 to 1,000,000.
Amounts == {"empty", "bad", "unfair", "fair"}
Days == 1 .. LastDay + MaxTimelock + 1

Form == [ title : BOOLEAN, emoji : Emojis \union {None},
          photo : Photos \union {None}, jarType : Types, goalEnabled : BOOLEAN,
          goalAmount : Amounts, unlockDate : Days \union {None},
          signers : SUBSET Friends, threshold : 1 .. Cardinality(Friends) + 1 ]

NoJar == [ variant |-> "none", jarType |-> "none", unlock |-> None,
           hasGoal |-> FALSE, goal |-> "empty", emoji |-> None, photo |-> None ]

Closed == [open |-> FALSE, file |-> None, running |-> FALSE]

TypeOK ==
    /\ today \in 0 .. LastDay /\ shownDay \in 0 .. today
    /\ step \in 1 .. 4
    /\ form \in Form
    /\ cropper \in [open : BOOLEAN, file : Photos \union {None}, running : BOOLEAN]
    /\ jobs \subseteq Photos \X {"here", "gone"}
    /\ status \in {"idle", "running", "done", "error"}

Init ==
    /\ today = 0 /\ shownDay = 0
    /\ step = 1
    /\ form = [ title |-> FALSE, emoji |-> FirstEmoji, photo |-> None,
                jarType |-> "goal", goalEnabled |-> TRUE, goalAmount |-> "empty",
                unlockDate |-> None, signers |-> {}, threshold |-> 1 ]
    /\ cropper = Closed
    /\ jobs = {}
    /\ status = "idle"
    /\ submitted = NoJar

Midnight ==
    /\ today < LastDay
    /\ today' = today + 1
    /\ UNCHANGED <<shownDay, step, form, cropper, jobs, status, submitted>>

\* Every change of the wizard's own state renders it anew.
Render == shownDay' = today /\ UNCHANGED today

Fill(newForm) ==
    /\ form' = newForm
    /\ Render
    /\ UNCHANGED <<step, cropper, jobs, status, submitted>>

---------------------------------------------------------------------------
(* Moving between the steps.                                               *)

GoalAmountValid == form.goalAmount = "fair"

\* Mutation: an amount that is out of range stops only those who must have a goal.
CanProceedLoosely(s) ==
    CASE s = 1 -> form.title
      [] s = 2 -> /\ form.jarType = "timeLocked" => form.unlockDate # None
                  /\ form.jarType = "goal" => form.goalEnabled /\ GoalAmountValid
      [] s = 3 -> form.threshold \in 1 .. Cardinality(form.signers) + 1

CanProceed(s) ==
    CASE s = 1 -> form.title
      [] s = 2 -> /\ form.jarType = "timeLocked" => form.unlockDate # None
                  /\ form.jarType = "goal" => form.goalEnabled /\ GoalAmountValid
                  /\ (form.goalEnabled /\ form.goalAmount # "empty")
                        => GoalAmountValid
      [] s = 3 -> form.threshold \in 1 .. Cardinality(form.signers) + 1

\* Leaving step 1 unmounts the grid: a result still on its way reaches the
\* wizard and no dialog.  Under an open dialog nothing else can be pressed.
GoTo(s) ==
    /\ ~cropper.open
    /\ step' = s
    /\ cropper' = IF step = 1 THEN Closed ELSE cropper
    /\ jobs' = IF step = 1 THEN {<<job[1], "gone">> : job \in jobs} ELSE jobs
    /\ Render
    /\ UNCHANGED <<form, status, submitted>>

Continue ==
    /\ step < 4
    /\ CanProceed(step)
    /\ GoTo(step + 1)

\* The bar of steps, and Back, go to earlier steps only.
StepNav(s) == s < step /\ GoTo(s)

---------------------------------------------------------------------------
(* Step 1: title and cover.                                                *)

EditTitle(filled) == step = 1 /\ ~cropper.open /\ Fill([form EXCEPT !.title = filled])

SelectEmoji(emoji) ==
    /\ step = 1 /\ ~cropper.open
    /\ Fill([form EXCEPT !.emoji = emoji, !.photo = None])

ChooseFile(photo) ==
    /\ step = 1 /\ ~cropper.open
    /\ cropper' = [cropper EXCEPT !.open = TRUE, !.file = photo]
    /\ UNCHANGED <<today, shownDay, step, form, jobs, status, submitted>>

CancelCrop ==
    /\ cropper.open
    /\ cropper' = [cropper EXCEPT !.open = FALSE, !.file = None]
    /\ UNCHANGED <<today, shownDay, step, form, jobs, status, submitted>>

DoneCropping ==
    /\ cropper.open /\ ~cropper.running
    /\ cropper' = [cropper EXCEPT !.running = TRUE]
    /\ jobs' = jobs \union {<<cropper.file, "here">>}
    /\ UNCHANGED <<today, shownDay, step, form, status, submitted>>

\* Mutation: the emoji stays chosen under the photo.
WithPhotoOver(photo) == [form EXCEPT !.photo = photo]

WithPhoto(photo) == [form EXCEPT !.photo = photo, !.emoji = None]

\* A result for this grid closes its dialog, whichever file that shows.
Cropped(job) ==
    /\ job \in jobs
    /\ jobs' = jobs \ {job}
    /\ form' = WithPhoto(job[1])
    /\ cropper' = IF job[2] = "here" THEN Closed ELSE cropper
    /\ Render
    /\ UNCHANGED <<step, status, submitted>>

CropFails(job) ==
    /\ job \in jobs
    /\ jobs' = jobs \ {job}
    /\ cropper' = IF job[2] = "here" THEN [cropper EXCEPT !.running = FALSE]
                                     ELSE cropper
    /\ UNCHANGED <<today, shownDay, step, form, status, submitted>>

---------------------------------------------------------------------------
(* Step 2: type, unlock date and goal.                                     *)

SelectType(jarType) == step = 2 /\ Fill([form EXCEPT !.jarType = jarType])

\* The field with the calendar is there for time-locked jars.
DateFieldShown == step = 2 /\ form.jarType = "timeLocked"

\* The calendar's days can be picked from the day after the last render on.
Selectable(day) == day > shownDay

PickDate(day) ==
    /\ DateFieldShown
    /\ Selectable(day)
    /\ Fill([form EXCEPT !.unlockDate = day])

\* A preset counts from today, whatever days the calendar greys out.
PresetDay(days) == today + days

PickPreset(days) ==
    /\ DateFieldShown
    /\ Fill([form EXCEPT !.unlockDate = PresetDay(days)])

EditGoal(amount) ==
    /\ step = 2 /\ form.goalEnabled
    /\ Fill([form EXCEPT !.goalAmount = amount])

ToggleGoal == step = 2 /\ Fill([form EXCEPT !.goalEnabled = ~@])

---------------------------------------------------------------------------
(* Step 3: co-signers.  The first signer, the person, is never removed.    *)

AddSigner(friend) ==
    /\ step = 3
    /\ friend \notin form.signers
    /\ Fill([form EXCEPT !.signers = @ \union {friend}])

RemoveSigner(friend) ==
    LET left == form.signers \ {friend} IN
    /\ step = 3
    /\ friend \in form.signers
    /\ Fill([form EXCEPT !.signers = left,
                         !.threshold = IF @ > Cardinality(left) + 1
                                       THEN Cardinality(left) + 1 ELSE @])

SetThreshold(n) ==
    /\ step = 3
    /\ n \in 1 .. Cardinality(form.signers) + 1
    /\ Fill([form EXCEPT !.threshold = n])

---------------------------------------------------------------------------
(* Step 4: review, submission and its outcome.                             *)

\* The rows of the review.
Shown ==
    [ variant |-> form.jarType,
      unlock |-> IF form.jarType = "timeLocked" THEN form.unlockDate ELSE None,
      hasGoal |-> form.goalEnabled /\ form.goalAmount # "empty",
      goal |-> IF form.goalEnabled THEN form.goalAmount ELSE "empty" ]

\* The cover of the preview: a photo goes before an emoji.
CoverOf(jar) == IF jar.photo # None THEN jar.photo ELSE jar.emoji

\* Mutation: a goal typed before it was switched off is sent along.
ArgsOfOffGoal ==
    [ variant |-> form.jarType,
      jarType |-> IF form.jarType = "timeLocked" THEN "timeLocked" ELSE "flexible",
      unlock |-> IF form.jarType = "timeLocked" THEN form.unlockDate ELSE None,
      hasGoal |-> form.goalAmount # "empty",
      goal |-> form.goalAmount,
      emoji |-> IF form.photo # None THEN None ELSE form.emoji,
      photo |-> form.photo ]

\* What handleSubmit makes of it, with the kind it remembers for the jar's page;
\* submit turns the date into a timestamp.
Args ==
    [ variant |-> form.jarType,
      jarType |-> IF form.jarType = "timeLocked" THEN "timeLocked" ELSE "flexible",
      unlock |-> IF form.jarType = "timeLocked" THEN form.unlockDate ELSE None,
      hasGoal |-> form.goalEnabled /\ form.goalAmount # "empty",
      goal |-> IF form.goalEnabled THEN form.goalAmount ELSE "empty",
      emoji |-> IF form.photo # None THEN None ELSE form.emoji,
      photo |-> form.photo ]

\* submit refuses without a wallet, without a date, or with a goal that is no
\* positive number: the range is step 2's affair.
Submittable(jar, connected) ==
    /\ connected
    /\ jar.jarType = "timeLocked" => jar.unlock # None
    /\ jar.hasGoal => jar.goal # "bad"

Submit(connected) ==
    /\ step = 4
    /\ status \notin {"running", "done"}
    /\ IF Submittable(Args, connected)
         THEN submitted' = Args /\ status' = "running"
         ELSE submitted' = NoJar /\ status' = "error"
    /\ Render
    /\ UNCHANGED <<step, form, cropper, jobs>>

\* The checks of create_jar on the kind and the lock: a date starts at its midnight.
\* What else it may refuse for (paused, the URI, the mint) does not depend on the
\* form, and is one more way for the creation to fail.
DateAccepted(jar) ==
    jar.jarType = "timeLocked" =>
        jar.unlock > today /\ jar.unlock <= today + MaxTimelock

LockAccepted(jar) ==
    /\ jar.jarType = "flexible" => jar.unlock = None
    /\ DateAccepted(jar)

Created ==
    /\ status = "running"
    /\ LockAccepted(submitted)
    /\ status' = "done"
    /\ Render
    /\ UNCHANGED <<step, form, cropper, jobs, submitted>>

CreationFails ==
    /\ status = "running"
    /\ status' = "error"
    /\ submitted' = NoJar
    /\ Render
    /\ UNCHANGED <<step, form, cropper, jobs>>

Next ==
    \/ Midnight
    \/ Continue
    \/ \E s \in 1 .. 4 : StepNav(s)
    \/ \E filled \in BOOLEAN : EditTitle(filled)
    \/ \E emoji \in Emojis : SelectEmoji(emoji)
    \/ \E photo \in Photos : ChooseFile(photo)
    \/ CancelCrop
    \/ DoneCropping
    \/ \E job \in jobs : Cropped(job) \/ CropFails(job)
    \/ \E jarType \in Types : SelectType(jarType)
    \/ \E day \in Days : PickDate(day)
    \/ \E days \in Presets : PickPreset(days)
    \/ \E amount \in Amounts : EditGoal(amount)
    \/ ToggleGoal
    \/ \E friend \in Friends : AddSigner(friend) \/ RemoveSigner(friend)
    \/ \E n \in 1 .. Cardinality(Friends) + 1 : SetThreshold(n)
    \/ \E connected \in BOOLEAN : Submit(connected)
    \/ Created
    \/ CreationFails

Spec == Init /\ [][Next]_vars

---------------------------------------------------------------------------
(* Properties.                                                             *)

\* A jar has one cover, wherever the person is when a photo comes back from
\* the cropper: an emoji or a photo, never both and never none.
OneCover == (form.emoji = None) # (form.photo = None)

\* However one went back and forth before, what is sent keeps the rules of the
\* steps that were left behind, which submit itself does not check again: a goal
\* jar has a goal, any goal is in range, there is one cover, and of kind and lock
\* only the date can be refused by the program (midnight may have overtaken it).
RulesWereChecked ==
    status \in {"running", "done"} =>
        /\ submitted.variant = "goal" => submitted.hasGoal
        /\ submitted.hasGoal => submitted.goal = "fair"
        /\ (submitted.emoji = None) # (submitted.photo = None)
        /\ DateAccepted(submitted) => LockAccepted(submitted)

\* The jar that is sent is the jar of the review, with the preview's cover.
SendsWhatIsShown ==
    [][ submitted' \notin {submitted, NoJar} =>
            /\ \A row \in DOMAIN Shown : submitted'[row] = Shown[row]
            /\ CoverOf(submitted') = CoverOf(form) ]_vars
=============================================================================
