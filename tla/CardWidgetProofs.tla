-------------------------- MODULE CardWidgetProofs --------------------------
(***************************************************************************)
(* Proofs about the card dialog, for any number of starts and of polls     *)
(* under way at a time.                                                    *)
(***************************************************************************)
EXTENDS CardWidget, TLAPS

\* Where a poll is, or what the row said.
Answers == Statuses \union {"free", "asked"}

\* What the row says, and what a poll heard it say, was true once, and `landed`
\* remembers it.
SaidLanded ==
    /\ \A d \in Deposits : status[d] = "contributed" => landed
    /\ \A p \in Deposits \X Slots : polls[p] = "contributed" => landed

\* A start that is under way over the closed dialog was there when it closed.
LateStarts == ~open => Starting \subseteq overtaken

WidgetInv ==
    /\ status \in [Deposits -> Statuses]
    /\ polls \in [Deposits \X Slots -> Answers]
    /\ starts \in [Deposits -> {"no", "init", "import", "over"}]
    /\ OneTimer
    /\ StrayOverlayIsLate
    /\ LateStarts
    /\ SaidLanded
    /\ ShownHasLanded
    /\ landed \in BOOLEAN

LEMMA WidgetInvInit == Init => WidgetInv
  BY DEF Init, WidgetInv, Statuses, Answers, OneTimer,
         StrayOverlayIsLate, LateStarts, Starting, SaidLanded,
         ShownHasLanded, SaysRecorded

\* The row moves: whoever made it contributed is remembered.
LEMMA RowMoves ==
  ASSUME WidgetInv, NEW d \in Deposits, RelayMoves(d)
  PROVE  WidgetInv'
<1>1. PICK s \in Statuses : status' = [status EXCEPT ![d] = s]
  BY DEF RelayMoves
<1>4. status' \in [Deposits -> Statuses]
  BY <1>1 DEF WidgetInv
<1>5. /\ landed' \in BOOLEAN
      /\ landed => landed'
      /\ \A e \in Deposits : status'[e] = "contributed" => landed'
  BY DEF RelayMoves, WidgetInv
<1>6. SaidLanded'
  BY <1>5 DEF SaidLanded, WidgetInv, RelayMoves
<1>7. OneTimer' /\ StrayOverlayIsLate' /\ LateStarts' /\ ShownHasLanded'
  BY <1>5 DEF WidgetInv, RelayMoves, OneTimer, StrayOverlayIsLate, LateStarts,
              Starting, ShownHasLanded, SaysRecorded
<1>8. /\ polls' \in [Deposits \X Slots -> Answers]
      /\ starts' \in [Deposits -> {"no", "init", "import", "over"}]
  BY DEF WidgetInv, RelayMoves
<1>9. QED
  BY <1>4, <1>5, <1>6, <1>7, <1>8 DEF WidgetInv

\* A poll is asked, answered by the row, lost, or heard.
LEMMA PollMoves ==
  ASSUME WidgetInv, NEW d \in Deposits, NEW slot \in Slots,
         Tick(d, slot) \/ Serve(d, slot) \/ PollFails(d, slot) \/ Deliver(d, slot)
  PROVE  WidgetInv'
<1> DEFINE p == <<d, slot>>
<1>1. p \in Deposits \X Slots /\ status[d] \in Statuses
  BY DEF WidgetInv
<1>2. /\ status' = status /\ landed' = landed /\ widgets' = widgets
      /\ pollRef' = pollRef /\ open' = open /\ starts' = starts
      /\ overtaken' = overtaken
  BY DEF Tick, Serve, PollFails, Deliver, history
<1>3. PICK says \in {"free", "asked", status[d]} :
        polls' = [polls EXCEPT ![p] = says]
  BY DEF Tick, Serve, PollFails, Deliver
<1>4. polls' \in [Deposits \X Slots -> Answers]
  BY <1>1, <1>3 DEF WidgetInv, Answers, Statuses
<1>5. SaidLanded'
  BY <1>1, <1>2, <1>3 DEF WidgetInv, SaidLanded, Statuses
<1>6. timers' \subseteq timers
  BY DEF Tick, Serve, PollFails, Deliver
<1>7. phase' # phase => phase' = polls[p] /\ phase' # "form"
  BY DEF Tick, Serve, PollFails, Deliver
<1>8. OneTimer' /\ StrayOverlayIsLate' /\ LateStarts' /\ ShownHasLanded'
  BY <1>1, <1>2, <1>6, <1>7 DEF WidgetInv, OneTimer, StrayOverlayIsLate,
       LateStarts, Starting, SaidLanded, ShownHasLanded, SaysRecorded
<1>9. QED
  BY <1>2, <1>4, <1>5, <1>8 DEF WidgetInv

LEMMA WidgetInvStep == WidgetInv /\ [Next]_vars => WidgetInv'
<1> SUFFICES ASSUME WidgetInv, [Next]_vars PROVE WidgetInv'
  OBVIOUS
<1> USE DEF WidgetInv, OneTimer, StrayOverlayIsLate, LateStarts, Starting,
            SaidLanded, ShownHasLanded, SaysRecorded, history
<1>1. CASE OpenDialog
  BY <1>1 DEF OpenDialog
<1>2. CASE ForceClose
  BY <1>2 DEF ForceClose, Reset
<1>3. ASSUME NEW d \in Deposits, Continue(d) \/ InitRefused(d) PROVE WidgetInv'
  BY <1>3 DEF Continue, InitRefused
<1>4. ASSUME NEW d \in Deposits, NEW widgetUrl \in WidgetUrls,
             InitAnswered(d, widgetUrl)
      PROVE  WidgetInv'
  <2>1. status' = [status EXCEPT ![d] = "pending"]
    BY <1>4 DEF InitAnswered
  <2>2. status' \in [Deposits -> Statuses]
    BY <2>1 DEF Statuses
  <2>3. QED
    BY <1>4, <2>1, <2>2 DEF InitAnswered, StartPolling
<1>5. ASSUME NEW d \in Deposits, SdkLoaded(d) \/ SdkFails(d) PROVE WidgetInv'
  BY <1>5 DEF SdkLoaded, SdkFails
<1>6. ASSUME NEW d \in Deposits, OrderSuccessful(d) PROVE WidgetInv'
  BY <1>6 DEF OrderSuccessful
<1>7. ASSUME NEW d \in Deposits, WidgetClosed(d) PROVE WidgetInv'
  BY <1>7 DEF WidgetClosed, Reset
<1>8. ASSUME NEW d \in Deposits, RelayMoves(d) PROVE WidgetInv'
  BY <1>8, RowMoves
<1>9. ASSUME NEW d \in Deposits, NEW slot \in Slots,
             Tick(d, slot) \/ Serve(d, slot) \/ PollFails(d, slot)
               \/ Deliver(d, slot)
      PROVE  WidgetInv'
  BY <1>9, PollMoves
<1>10. CASE UNCHANGED vars
  BY <1>10 DEF vars
<1>11. QED
  BY <1>1, <1>2, <1>3, <1>4, <1>5, <1>6, <1>7, <1>8, <1>9, <1>10 DEF Next

\* For any number of starts, however the dialog was opened and closed meanwhile,
\* no interval runs that the component cannot clear.
THEOREM OneTimerOnly == Spec => []OneTimer
<1>1. WidgetInv => OneTimer
  BY DEF WidgetInv
<1>2. QED
  BY <1>1, WidgetInvInit, WidgetInvStep, PTL DEF Spec

\* Answers may be as old as they like: "recorded in the jar" is said only after
\* a deposit made here was contributed.
THEOREM RecordedHasLanded == Spec => []ShownHasLanded
<1>1. WidgetInv => ShownHasLanded
  BY DEF WidgetInv
<1>2. QED
  BY <1>1, WidgetInvInit, WidgetInvStep, PTL DEF Spec

\* Whatever the donor closes, opens and starts, in any order: a widget left over
\* the closed dialog is one that came up late, and none lies over the empty form.
THEOREM OnlyLateOverlaysStray == Spec => []StrayOverlayIsLate
<1>1. WidgetInv => StrayOverlayIsLate
  BY DEF WidgetInv
<1>2. QED
  BY <1>1, WidgetInvInit, WidgetInvStep, PTL DEF Spec
=============================================================================
