----------------------------- MODULE CardWidget -----------------------------
(***************************************************************************)
(* The dialog "Pay with card" of the jar page (TransakModal).  Continue    *)
(* asks the server for a deposit and a payment widget, starts to poll the  *)
(* deposit's status, loads Transak's code and lays the widget over the     *)
(* page.  Every await may be overtaken: the donor closes the dialog, opens *)
(* it again and starts over while the first start, or a poll, is still     *)
(* under way; React keeps the component and its state while it is closed.  *)
(*                                                                         *)
(* The page runs on one thread, so a handler between two awaits is one     *)
(* step.  Effects of a change of `open` run with that change.              *)
(***************************************************************************)
EXTENDS Naturals, FiniteSets

CONSTANTS
    Deposits,       \* a deposit per press of Continue
    Slots,          \* polls of one deposit under way at a time (a bound)
    None

ASSUME WidgetAssumption == None \notin Deposits

VARIABLES
    status,         \* the deposits' rows: their statuses
    open,           \* the dialog is open
    phase,          \* what it shows
    starts,         \* per deposit: where its start() is
    timers,         \* the intervals that are running, by the deposit they poll
    pollRef,        \* the interval the component knows of
    polls,          \* per deposit and slot: a poll under way
    widgets,        \* the widgets that lie over the page
    sdkRef,         \* the widget the component knows of
    listening,      \* the handlers of Transak's events are registered
    landed,         \* history: a deposit was contributed
    overtaken,      \* history: the dialog was closed over their start
    shown           \* history: since polling was started, the dialog has shown
                    \* how a deposit ended, this one or an earlier one

history == <<landed, overtaken, shown>>

vars == <<status, open, phase, starts, timers, pollRef, polls, widgets, sdkRef,
          listening, landed, overtaken, shown>>

\* Of a deposit's row; "none" before the row is made.
Statuses == {"none", "pending", "funded", "contributed", "failed"}

Phases == {"form", "opening", "awaiting", "funded", "contributed", "failed"}

TypeOK ==
    /\ status \in [Deposits -> Statuses]
    /\ open \in BOOLEAN
    /\ phase \in Phases
    /\ starts \in [Deposits -> {"no", "init", "import", "over"}]
    /\ timers \subseteq Deposits
    /\ pollRef \in Deposits \union {None}
    /\ polls \in [Deposits \X Slots -> {"free", "asked"} \union Statuses]
    /\ widgets \subseteq Deposits
    /\ sdkRef \in Deposits \union {None}
    /\ listening \in BOOLEAN
    /\ landed \in BOOLEAN
    /\ overtaken \subseteq Deposits
    /\ shown \in BOOLEAN

Init ==
    /\ status = [d \in Deposits |-> "none"]
    /\ open = FALSE
    /\ phase = "form"
    /\ starts = [d \in Deposits |-> "no"]
    /\ timers = {}
    /\ pollRef = None
    /\ polls = [p \in Deposits \X Slots |-> "free"]
    /\ widgets = {}
    /\ sdkRef = None
    /\ listening = FALSE
    /\ landed = FALSE
    /\ overtaken = {}
    /\ shown = FALSE

---------------------------------------------------------------------------
(* Opening and closing.                                                    *)

\* Opening runs the clean-up of the effect that closed the dialog: it clears
\* the interval, and keeps the reference and the phase.
OpenDialog ==
    /\ ~open
    /\ open' = TRUE
    /\ timers' = timers \ {pollRef}
    /\ UNCHANGED <<status, phase, starts, pollRef, polls, widgets, sdkRef,
                   listening, history>>

Starting == {d \in Deposits : starts[d] \in {"init", "import"}}

\* The effect of closing: reset(), which closes the widget it knows of.  No start
\* under way is told, and each goes on to its end over the closed dialog.
Reset(left) ==
    /\ open' = FALSE
    /\ phase' = "form"
    /\ timers' = timers \ {pollRef}
    /\ pollRef' = None
    /\ widgets' = left \ {sdkRef}
    /\ sdkRef' = None
    /\ overtaken' = overtaken \union Starting

\* purgeTransakDom and forceClose: every way the donor has to leave (the cancel
\* pill, Escape, the backdrop, Close) removes whatever Transak left behind.
ForceClose ==
    /\ open
    /\ Reset({})
    /\ UNCHANGED <<status, starts, polls, listening, landed, shown>>

---------------------------------------------------------------------------
(* start(), from Continue to the widget.                                   *)

Continue(d) ==
    /\ open
    /\ phase = "form"
    /\ starts[d] = "no"
    /\ phase' = "opening"
    /\ starts' = [starts EXCEPT ![d] = "init"]
    /\ UNCHANGED <<status, open, timers, pollRef, polls, widgets, sdkRef,
                   listening, history>>

\* The route refuses (no such jar, or closed) or cannot be reached.
InitRefused(d) ==
    /\ starts[d] = "init"
    /\ starts' = [starts EXCEPT ![d] = "over"]
    /\ phase' = "failed"
    /\ UNCHANGED <<status, open, timers, pollRef, polls, widgets, sdkRef,
                   listening, history>>

\* Mutation: a second start leaves the first one's interval running.
StartPollingLeaks(d) ==
    /\ timers' = timers \union {d}
    /\ pollRef' = d

StartPolling(d) ==
    /\ timers' = (timers \ {pollRef}) \union {d}
    /\ pollRef' = d

\* createTransakWidgetUrl: a session, or a failure on the way to one (a key or
\* a token that is missing, a request that is refused).
WidgetUrls == BOOLEAN

\* The deposit is made; Transak may refuse the widget, which fails the start
\* with the polling already under way.
InitAnswered(d, widgetUrl) ==
    /\ starts[d] = "init"
    /\ status' = [status EXCEPT ![d] = "pending"]
    /\ StartPolling(d)
    /\ IF widgetUrl
         THEN /\ starts' = [starts EXCEPT ![d] = "import"]
              /\ UNCHANGED phase
         ELSE /\ starts' = [starts EXCEPT ![d] = "over"]
              /\ phase' = "failed"
    /\ shown' = FALSE
    /\ UNCHANGED <<open, polls, widgets, sdkRef, listening, landed, overtaken>>

SdkLoaded(d) ==
    /\ starts[d] = "import"
    /\ starts' = [starts EXCEPT ![d] = "over"]
    /\ widgets' = widgets \union {d}
    /\ sdkRef' = d
    /\ phase' = "awaiting"
    /\ listening' = TRUE
    /\ UNCHANGED <<status, open, timers, pollRef, polls, history>>

SdkFails(d) ==
    /\ starts[d] = "import"
    /\ starts' = [starts EXCEPT ![d] = "over"]
    /\ phase' = "failed"
    /\ UNCHANGED <<status, open, timers, pollRef, polls, widgets, sdkRef,
                   listening, history>>

---------------------------------------------------------------------------
(* The widget's events, heard by handlers registered once and for all.     *)

\* The order is paid, which the relay may know before or after.
OrderSuccessful(d) ==
    /\ d \in widgets /\ listening
    /\ status[d] # "none"
    /\ phase' = "funded"
    /\ UNCHANGED <<status, open, starts, timers, pollRef, polls, widgets,
                   sdkRef, listening, history>>

\* Mutation: the widget goes and its overlay stays.
WidgetClosedKeepsDom(d) ==
    /\ d \in widgets /\ listening
    /\ IF phase \in {"awaiting", "opening"} /\ open
         THEN Reset(widgets)
         ELSE /\ phase' = IF phase \in {"awaiting", "opening"} THEN "form"
                                                                ELSE phase
              /\ sdkRef' = None
              /\ UNCHANGED <<open, timers, pollRef, widgets, overtaken>>
    /\ UNCHANGED <<status, starts, polls, listening, landed, shown>>

\* Over the payment form the dialog closes with the widget; an open dialog then
\* resets, and one that is closed already has no effect left to run.
WidgetClosed(d) ==
    /\ d \in widgets /\ listening
    /\ IF phase \in {"awaiting", "opening"} /\ open
         THEN Reset({})
         ELSE /\ phase' = IF phase \in {"awaiting", "opening"} THEN "form"
                                                                ELSE phase
              /\ widgets' = {}
              /\ sdkRef' = None
              /\ UNCHANGED <<open, timers, pollRef, overtaken>>
    /\ UNCHANGED <<status, starts, polls, listening, landed, shown>>

---------------------------------------------------------------------------
(* Polling: every four seconds, whether or not the last answer is there.   *)

\* Mutation: only a dialog that awaits the payment polls.
TickWhileAwaiting(d, slot) ==
    /\ d \in timers
    /\ phase = "awaiting"
    /\ polls[<<d, slot>>] = "free"
    /\ polls' = [polls EXCEPT ![<<d, slot>>] = "asked"]
    /\ UNCHANGED <<status, open, phase, starts, timers, pollRef, widgets,
                   sdkRef, listening, history>>

Tick(d, slot) ==
    /\ d \in timers
    /\ polls[<<d, slot>>] = "free"
    /\ polls' = [polls EXCEPT ![<<d, slot>>] = "asked"]
    /\ UNCHANGED <<status, open, phase, starts, timers, pollRef, widgets,
                   sdkRef, listening, history>>

\* The status route reads the row.
Serve(d, slot) ==
    /\ polls[<<d, slot>>] = "asked"
    /\ polls' = [polls EXCEPT ![<<d, slot>>] = status[d]]
    /\ UNCHANGED <<status, open, phase, starts, timers, pollRef, widgets,
                   sdkRef, listening, history>>

PollFails(d, slot) ==
    /\ polls[<<d, slot>>] = "asked"
    /\ polls' = [polls EXCEPT ![<<d, slot>>] = "free"]
    /\ UNCHANGED <<status, open, phase, starts, timers, pollRef, widgets,
                   sdkRef, listening, history>>

\* A final answer clears the current interval, whichever deposit it polls.
StopsPolling(says) == says \in {"contributed", "failed"}

\* Mutation: a payment that arrived is shown as passed on.
DeliverHopefully(d, slot) ==
    LET says == polls[<<d, slot>>] IN
    /\ says \in {"pending", "funded", "contributed", "failed"}
    /\ polls' = [polls EXCEPT ![<<d, slot>>] = "free"]
    /\ phase' = CASE says = "pending" -> phase
                  [] says = "funded" -> "contributed"
                  [] OTHER -> says
    /\ timers' = IF StopsPolling(says) THEN timers \ {pollRef} ELSE timers
    /\ shown' = (shown \/ StopsPolling(says))
    /\ UNCHANGED <<status, open, starts, pollRef, widgets, sdkRef, listening,
                   landed, overtaken>>

Deliver(d, slot) ==
    LET says == polls[<<d, slot>>] IN
    /\ says \in {"pending", "funded", "contributed", "failed"}
    /\ polls' = [polls EXCEPT ![<<d, slot>>] = "free"]
    /\ phase' = IF says = "pending" THEN phase ELSE says
    /\ timers' = IF StopsPolling(says) THEN timers \ {pollRef} ELSE timers
    /\ shown' = (shown \/ StopsPolling(says))
    /\ UNCHANGED <<status, open, starts, pollRef, widgets, sdkRef, listening,
                   landed, overtaken>>

\* The last of the steps on display, "Contribution recorded in the jar".
SaysRecorded == phase = "contributed"

---------------------------------------------------------------------------
\* The relay writes the row.  Requests that overlap write stale copies back, so
\* nothing is assumed of the order of what they write.
RelayMoves(d) ==
    /\ status[d] # "none"
    /\ \E s \in Statuses \ {"none"} : status' = [status EXCEPT ![d] = s]
    /\ landed' = (landed \/ \E e \in Deposits : status'[e] = "contributed")
    /\ UNCHANGED <<open, phase, starts, timers, pollRef, polls, widgets,
                   sdkRef, listening, overtaken, shown>>

Next ==
    \/ OpenDialog
    \/ ForceClose
    \/ \E d \in Deposits :
          \/ Continue(d)
          \/ InitRefused(d)
          \/ \E widgetUrl \in WidgetUrls : InitAnswered(d, widgetUrl)
          \/ SdkLoaded(d) \/ SdkFails(d)
          \/ OrderSuccessful(d)
          \/ WidgetClosed(d)
          \/ RelayMoves(d)
          \/ \E slot \in Slots :
                \/ Tick(d, slot)
                \/ Serve(d, slot) \/ PollFails(d, slot)
                \/ Deliver(d, slot)

Spec == Init /\ [][Next]_vars

\* Intervals fire, and a request that is made again and again is answered in
\* the end.  Nothing is assumed of the donor, of Transak or of the relay.
Fairness ==
    \A d \in Deposits, slot \in Slots :
        /\ WF_vars(Tick(d, slot))
        /\ SF_vars(Serve(d, slot))
        /\ WF_vars(Deliver(d, slot))

FairSpec == Spec /\ Fairness

---------------------------------------------------------------------------
(* Properties.                                                             *)

\* However often the dialog is closed and opened while starts are under way,
\* at most one interval polls, and it is the one the component can clear.
OneTimer == timers \subseteq {pollRef}

\* The dialog says a gift is in the jar only after the relay put one there,
\* for a deposit made here: the relay had marked one contributed.
ShownHasLanded == SaysRecorded => landed

\* No widget lies over the empty form, and over a closed dialog, where neither
\* the cancel pill nor Escape is there to remove it, lies at most one whose start
\* was under way when the dialog closed: no other way of leaving, and no order of
\* starts, leaves a widget behind.
StrayOverlayIsLate ==
    /\ widgets # {} => phase # "form"
    /\ ~open => widgets \subseteq overtaken

\* "This dialog will update automatically": while the donor stays with a deposit
\* the relay has settled for good, its end is shown.  Two things may prevent it:
\* the dialog was closed over this deposit's start, whose interval opening it
\* again clears; and an end shown since, of this deposit or, by a late answer, of
\* an earlier one, which clears the interval too.
SettledIsShown ==
    \A d \in Deposits :
        ~<>[]( /\ open /\ pollRef = d
               /\ status[d] \in {"contributed", "failed"}
               /\ d \notin overtaken
               /\ ~shown )

============================================================================
