--------------------------- MODULE SelectorProofs ---------------------------
(***************************************************************************)
(* Proofs about Selector for any monitors, windows, rectangles and delays: *)
(* its types, the coherence of the shared region, the discipline of its    *)
(* timers, and the refinement of PickOnce.                                 *)
(***************************************************************************)
EXTENDS Selector, TLAPS

-----------------------------------------------------------------------------
(* The toolbar's host *)

(***************************************************************************)
(* Moving the toolbar to a monitor, with a slot or without, keeps the      *)
(* keyboard with it (move_to_connector, move_to_index).                    *)
(***************************************************************************)
LEMMA HostMoves ==
    ASSUME NEW h \in Hosts, NEW m \in Monitors, NEW ws, KeyboardWithToolbar(h, ws)
    PROVE  MoveTo(h, m) \in Hosts /\ KeyboardWithToolbar(MoveTo(h, m), ws)
<1> USE HostAssumption DEF Hosts, KeyboardWithToolbar
<1>1. CASE m \in h.slots
  BY <1>1 DEF MoveTo, SyncKeyboardMode
<1>2. CASE m \notin h.slots
  BY <1>2 DEF MoveTo
<1> QED
  BY <1>1, <1>2

(***************************************************************************)
(* A cleared host has nothing, and no window (clear).                      *)
(***************************************************************************)
LEMMA HostCleared == Cleared \in Hosts /\ KeyboardWithToolbar(Cleared, {})
  BY DEF Cleared, Hosts, KeyboardWithToolbar

(***************************************************************************)
(* A host whose toolbar has just been placed has the keyboard with it      *)
(* (place_initial).                                                        *)
(***************************************************************************)
LEMMA HostPlaced ==
    ASSUME NEW m \in Monitors
    PROVE  Placed(m) \in Hosts /\ KeyboardWithToolbar(Placed(m), Monitors)
  BY DEF Placed, MoveTo, SyncKeyboardMode, Hosts, KeyboardWithToolbar

-----------------------------------------------------------------------------
\* The actions of Next, one name for those of the same kind.
Selecting ==
    \/ \E m \in Modes : ModeSelected(m)
    \/ \E d \in 0..MaxDelay : DelayChanged(d)
    \/ \E m \in Monitors :
         DragBeginsOnRegion(m) \/ DragBeginsAfresh(m) \/ DragUpdate(m) \/ DragEnd(m) \/ Click(m)

Focusing ==
    \/ \E m \in Monitors : FocusMoves(m)
    \/ ReaderEnds \/ FocusSeen \/ FocusLoopEnds

(***************************************************************************)
(* Every step of the session is of one of these kinds.                     *)
(***************************************************************************)
LEMMA StepKinds ==
    ASSUME [Next]_vars
    PROVE  \/ Selecting
           \/ \E m \in Monitors, edit \in BOOLEAN : Commit(m, edit)
           \/ CountdownTicks \/ CountdownEnds \/ BlankElapses
           \/ \E m \in Monitors : Cancel(m)
           \/ AppEnds
           \/ Focusing
           \/ UNCHANGED vars
  BY Zenon DEF Next, Selecting, Focusing, Over

(***************************************************************************)
(* The inductive invariant of the shared selection: typed and coherent.    *)
(***************************************************************************)
SelectionInv ==
    /\ mode \in Modes
    /\ region \in Regions
    /\ pressed \subseteq Monitors
    /\ picked \in [monitor : Monitors \cup {None}, window : Windows \cup {None}]
    /\ delay \in 0..MaxDelay
    /\ RegionCoherent

(***************************************************************************)
(* The handlers of the shared selection (mode, delay, drags, clicks) change*)
(* nothing of the timers, the answer, the windows or the focus.            *)
(***************************************************************************)
LEMMA SelectingKeepsSession == ASSUME Selecting PROVE UNCHANGED session
  BY DEF Selecting, ModeSelected, DelayChanged, DragBeginsOnRegion, DragBeginsAfresh,
         DragUpdate, DragEnd, Click

(***************************************************************************)
(* No other handler - commit, timers, Escape, focus - writes the selection.*)
(***************************************************************************)
LEMMA OthersKeepSelection ==
    ASSUME [Next]_vars, ~Selecting PROVE UNCHANGED selection
<1>1. ASSUME NEW m \in Monitors, NEW edit \in BOOLEAN, Commit(m, edit)
      PROVE  UNCHANGED selection
  BY <1>1 DEF Commit
<1>2. ASSUME NEW m \in Monitors, Cancel(m) PROVE UNCHANGED selection
  BY <1>2 DEF Cancel
<1>3. CASE CountdownTicks \/ CountdownEnds \/ BlankElapses \/ AppEnds
  BY <1>3 DEF CountdownTicks, CountdownEnds, BlankElapses, AppEnds
<1>4. CASE Focusing
  BY <1>4 DEF Focusing, FocusMoves, ReaderEnds, FocusSeen, FocusLoopEnds
<1>5. CASE UNCHANGED vars
  BY <1>5 DEF vars
<1> QED
  BY <1>1, <1>2, <1>3, <1>4, <1>5, StepKinds

(***************************************************************************)
(* Every step preserves the coherence of the selection: a mode change      *)
(* clears the region, a gesture edits only a region its monitor owns.      *)
(***************************************************************************)
LEMMA SelectionStep == SelectionInv /\ [Next]_vars => SelectionInv'
<1> SUFFICES ASSUME SelectionInv, [Next]_vars PROVE SelectionInv'
  OBVIOUS
<1> USE HostAssumption, SelectorAssumption DEF SelectionInv, RegionCoherent, Regions, NoRegion, Modes
<1>1. CASE Selecting
  <2>1. ASSUME NEW m \in Modes, ModeSelected(m) PROVE SelectionInv'
    BY <2>1 DEF ModeSelected
  <2>2. ASSUME NEW d \in 0..MaxDelay, DelayChanged(d) PROVE SelectionInv'
    BY <2>2 DEF DelayChanged
  <2>3. ASSUME NEW m \in Monitors, DragBeginsOnRegion(m) PROVE SelectionInv'
    BY <2>3 DEF DragBeginsOnRegion
  <2>4. ASSUME NEW m \in Monitors, DragBeginsAfresh(m) PROVE SelectionInv'
    BY <2>4 DEF DragBeginsAfresh
  <2>5. ASSUME NEW m \in Monitors, DragUpdate(m) PROVE SelectionInv'
    BY <2>5 DEF DragUpdate, Owned, Dragged
  <2>6. ASSUME NEW m \in Monitors, DragEnd(m) PROVE SelectionInv'
    <3>1. CASE Owned(m) /\ region.drag # "idle"
      <4>1. PICK r \in Rects \cup {None} :
              Dragged(r) /\ region' = [region EXCEPT !.rect = r, !.drag = "idle"]
        BY <2>6, <3>1 DEF DragEnd
      <4>2. /\ region'.drag = "idle"
            /\ region'.owner = m
            /\ region' \in Regions
        BY <3>1, <4>1 DEF Owned
      <4> QED
        BY <2>6, <3>1, <4>2 DEF DragEnd, Owned
    <3>2. CASE ~Owned(m) \/ region.drag = "idle"
      <4>1. region' = region /\ pressed' = pressed \ {m} /\ mode' = mode
        BY <2>6, <3>2 DEF DragEnd
      <4>2. region.drag # "idle" => region.owner # m
        BY <3>2 DEF Owned
      <4>3. mode' # "Region" => region' = NoRegion
        BY <4>1
      <4> QED
        BY <2>6, <4>1, <4>2, <4>3 DEF DragEnd
    <3> QED
      BY <3>1, <3>2
  <2>7. ASSUME NEW m \in Monitors, Click(m) PROVE SelectionInv'
    BY <2>7 DEF Click
  <2> QED
    BY <1>1, <2>1, <2>2, <2>3, <2>4, <2>5, <2>6, <2>7 DEF Selecting
<1>2. CASE ~Selecting
  BY <1>2, OthersKeepSelection DEF selection
<1> QED
  BY <1>1, <1>2

(***************************************************************************)
(* The region two monitors, their gestures and the mode shortcuts share    *)
(* never becomes incoherent (SharedSelection of selector.rs).              *)
(***************************************************************************)
THEOREM RegionSafe == Spec => []RegionCoherent
<1>1. Init => SelectionInv
  BY DEF Init, SelectionInv, RegionCoherent, Regions, NoRegion
<1>2. SelectionInv => RegionCoherent
  BY DEF SelectionInv
<1> QED
  BY <1>1, <1>2, SelectionStep, PTL DEF Spec

-----------------------------------------------------------------------------
(***************************************************************************)
(* The inductive invariant behind the timers and the answer: beside the    *)
(* two invariants, a session without a commit has no outcome, one with a   *)
(* timer has one, and an answer finalises.                                 *)
(***************************************************************************)
SessionInv ==
    /\ countdown \in 0..MaxDelay
    /\ finalised \in BOOLEAN
    /\ blanking \in BOOLEAN
    /\ tornDown \in BOOLEAN
    /\ outcome \in Outcomes \cup {None}
    /\ OneTimerPerChoice
    /\ AnswerAfterUnmap
    /\ ~finalised => outcome = None /\ countdown = 0 /\ ~blanking
    /\ answer # Closed => (countdown > 0 \/ blanking => outcome # None)
    /\ answer \notin {None, Closed} => finalised

(***************************************************************************)
(* What commit resolves from a coherent selection is an outcome (resolve_  *)
(* target, SelectorOutcome).                                               *)
(***************************************************************************)
LEMMA ResolvedIsOutcome ==
    ASSUME SelectionInv, NEW m \in Monitors, NEW edit \in BOOLEAN, NEW o \in Resolved(m, edit)
    PROVE  o \in Outcomes /\ o # None
<1> USE DEF SelectionInv, Resolved, Outcomes
<1>1. CASE mode = "Region"
  BY <1>1, NoneIsNoOutcome DEF Regions
<1>2. CASE mode = "Screen"
  BY <1>2, NoneIsNoOutcome
<1>3. CASE mode = "Window"
  BY <1>3, NoneIsNoOutcome
<1>4. CASE mode = "Full"
  BY <1>4, NoneIsNoOutcome
<1> QED
  BY <1>1, <1>2, <1>3, <1>4 DEF Modes

(***************************************************************************)
(* Every step preserves the discipline of timers and answer: commit arms   *)
(* one timer, its end arms the blanking, an answer disarms everything.     *)
(***************************************************************************)
LEMMA SessionStep == SelectionInv /\ SessionInv /\ [Next]_vars => SessionInv'
<1> SUFFICES ASSUME SelectionInv, SessionInv, [Next]_vars PROVE SessionInv'
  OBVIOUS
<1> USE SelectorAssumption DEF SessionInv, OneTimerPerChoice, AnswerAfterUnmap
<1>1. CASE Selecting
  BY <1>1, SelectingKeepsSession DEF session
<1>2. ASSUME NEW m \in Monitors, NEW edit \in BOOLEAN, Commit(m, edit)
      PROVE  SessionInv'
  <2>1. PICK o \in Resolved(m, edit) : outcome' = o
    BY <1>2 DEF Commit
  <2>2. outcome' \in Outcomes /\ outcome' # None
    BY <2>1, ResolvedIsOutcome
  <2>3. answer = None /\ answer' = None
    BY <1>2 DEF Commit, Reaches
  <2>4. countdown' = delay /\ delay \in 0..MaxDelay
    BY <1>2 DEF Commit, SelectionInv
  <2>5. blanking' = (delay = 0)
    BY <1>2 DEF Commit
  <2>6. delay > 0 <=> ~(delay = 0)
    BY <2>4
  <2>7. blanking' \in BOOLEAN /\ (countdown' > 0 <=> ~blanking')
    BY <2>4, <2>5, <2>6, Zenon
  <2>8. finalised' = TRUE /\ tornDown' = tornDown
    BY <1>2 DEF Commit
  <2> QED
    BY <2>2, <2>3, <2>4, <2>7, <2>8
<1>3. CASE CountdownTicks
  BY <1>3 DEF CountdownTicks
<1>4. CASE CountdownEnds
  BY <1>4 DEF CountdownEnds
<1>5. CASE BlankElapses
  <2>1. answer = None /\ outcome # None /\ answer' = outcome
    BY <1>5 DEF BlankElapses
  <2> QED
    BY <1>5, <2>1 DEF BlankElapses, Dismiss
<1>6. ASSUME NEW m \in Monitors, Cancel(m)
      PROVE  SessionInv'
  <2>1. CASE countdown > 0 \/ ~finalised
    <3>1. answer = None /\ ~blanking
      BY <1>6, <2>1 DEF Cancel, Reaches
    <3>2. /\ countdown' = 0 /\ ~blanking' /\ finalised' = TRUE /\ tornDown' = TRUE
          /\ blanking' \in BOOLEAN /\ outcome' = outcome
          /\ answer' = Cancelled /\ windows' = {} /\ host' = Cleared
      BY <1>6, <2>1, <3>1 DEF Cancel, Dismiss
    <3>3. countdown' \in 0..MaxDelay /\ ~(countdown' > 0)
      BY <3>2
    <3> QED
      BY <3>2, <3>3
  <2>2. CASE ~(countdown > 0 \/ ~finalised)
    BY <1>6, <2>2 DEF Cancel
  <2> QED
    BY <2>1, <2>2
<1>7. CASE AppEnds
  BY <1>7 DEF AppEnds
<1>8. CASE Focusing
  BY <1>8 DEF Focusing, FocusMoves, ReaderEnds, FocusSeen, FocusLoopEnds
<1>9. CASE UNCHANGED vars
  BY <1>9 DEF vars
<1> QED
  BY <1>1, <1>2, <1>3, <1>4, <1>5, <1>6, <1>7, <1>8, <1>9, StepKinds

(***************************************************************************)
(* Together the two invariants hold initially and are preserved.           *)
(***************************************************************************)
LEMMA Inductive ==
    /\ Init => SelectionInv /\ SessionInv
    /\ SelectionInv /\ SessionInv /\ [Next]_vars => (SelectionInv /\ SessionInv)'
<1>1. Init => SelectionInv
  BY DEF Init, SelectionInv, RegionCoherent, Regions, NoRegion
<1>2. Init => SessionInv
  <2> SUFFICES ASSUME Init PROVE SessionInv
    OBVIOUS
  <2>1. /\ countdown = 0 /\ ~blanking /\ ~finalised /\ ~tornDown
        /\ outcome = None /\ answer = None
        /\ blanking \in BOOLEAN /\ finalised \in BOOLEAN /\ tornDown \in BOOLEAN
    BY DEF Init
  <2>2. countdown \in 0..MaxDelay /\ ~(countdown > 0)
    BY <2>1, SelectorAssumption
  <2> QED
    BY <2>1, <2>2 DEF SessionInv, OneTimerPerChoice, AnswerAfterUnmap
<1> QED
  BY <1>1, <1>2, SelectionStep, SessionStep

(***************************************************************************)
(* A fixed choice has exactly one timer until it is answered, and no timer *)
(* outlives the answer (commit, blank_and_dismiss, cancel).                *)
(***************************************************************************)
THEOREM TimerSafe == Spec => []OneTimerPerChoice
<1>1. SessionInv => OneTimerPerChoice
  BY DEF SessionInv
<1> QED
  BY <1>1, Inductive, PTL DEF Spec

(***************************************************************************)
(* No answer before the windows are gone (dismiss_overlays, send_once).    *)
(***************************************************************************)
THEOREM UnmapSafe == Spec => []AnswerAfterUnmap
<1>1. SessionInv => AnswerAfterUnmap
  BY DEF SessionInv
<1> QED
  BY <1>1, Inductive, PTL DEF Spec

-----------------------------------------------------------------------------
(***************************************************************************)
(* A session implements PickOnce: commit fixes the choice, the end of the  *)
(* blanking delivers it, Escape and the end of the application refuse it,  *)
(* and no other step touches either.                                       *)
(***************************************************************************)
LEMMA PickStep ==
    SelectionInv /\ SessionInv /\ [Next]_vars => [Pick!Next]_(Pick!vars)
<1> SUFFICES ASSUME SelectionInv, SessionInv, [Next]_vars
             PROVE  [Pick!Next]_(Pick!vars)
  OBVIOUS
<1> USE DEF SessionInv, OneTimerPerChoice, AnswerAfterUnmap, Pick!vars
<1>1. CASE Selecting
  BY <1>1, SelectingKeepsSession DEF session
<1>2. ASSUME NEW m \in Monitors, NEW edit \in BOOLEAN, Commit(m, edit)
      PROVE  Pick!Next
  <2>1. PICK o \in Resolved(m, edit) : outcome' = o
    BY <1>2 DEF Commit
  <2>2. o \in Outcomes
    BY <2>1, ResolvedIsOutcome
  <2>3. answer = None /\ answer' = None /\ outcome = None
    BY <1>2 DEF Commit, Reaches
  <2>4. Pick!Choose(o)
    BY <2>1, <2>3 DEF Pick!Choose
  <2> QED
    BY <2>2, <2>4 DEF Pick!Next
<1>3. CASE CountdownTicks \/ CountdownEnds
  BY <1>3 DEF CountdownTicks, CountdownEnds
<1>4. CASE BlankElapses
  <2>1. Pick!Deliver
    BY <1>4 DEF BlankElapses, Pick!Deliver
  <2> QED
    BY <2>1 DEF Pick!Next
<1>5. ASSUME NEW m \in Monitors, Cancel(m)
      PROVE  [Pick!Next]_(Pick!vars)
  <2>1. CASE countdown > 0 \/ ~finalised
    <3>1. answer = None
      BY <1>5, <2>1 DEF Cancel, Reaches
    <3>2. Pick!Refuse(Cancelled)
      BY <1>5, <2>1, <3>1 DEF Cancel, Pick!Refuse
    <3> QED
      BY <3>2 DEF Pick!Next
  <2>2. CASE ~(countdown > 0 \/ ~finalised)
    BY <1>5, <2>2 DEF Cancel
  <2> QED
    BY <2>1, <2>2
<1>6. CASE AppEnds
  <2>1. Pick!Refuse(Closed)
    BY <1>6 DEF AppEnds, Pick!Refuse
  <2> QED
    BY <2>1 DEF Pick!Next
<1>7. CASE Focusing
  BY <1>7 DEF Focusing, FocusMoves, ReaderEnds, FocusSeen, FocusLoopEnds
<1>8. CASE UNCHANGED vars
  BY <1>8 DEF vars
<1> QED
  BY <1>1, <1>2, <1>3, <1>4, <1>5, <1>6, <1>7, <1>8, StepKinds

(***************************************************************************)
(* The caller of pick_region gets one answer, and when it is a choice, the *)
(* one that was fixed at the commit.                                       *)
(***************************************************************************)
THEOREM PickOnceImplemented == Spec => PickOnceSpec
<1>1. Init => Pick!Init
  BY DEF Init, Pick!Init
<1> QED
  BY <1>1, Inductive, PickStep, PTL DEF Spec, PickOnceSpec, Pick!Spec

-----------------------------------------------------------------------------
(***************************************************************************)
(* The rest of the state: windows, host, focus and answer.                 *)
(***************************************************************************)
HostInv ==
    /\ windows \subseteq Monitors
    /\ host \in Hosts
    /\ following \in BOOLEAN
    /\ reader \in BOOLEAN
    /\ focus \in Monitors \cup {None}
    /\ loop \in BOOLEAN
    /\ answer \in Outcomes \cup {None, Cancelled, Closed}
    /\ escaped \in BOOLEAN
    /\ KeyboardFollowsToolbar

(***************************************************************************)
(* Every step keeps windows, host and focus typed, and the keyboard with   *)
(* the toolbar (attach_focus, dismiss_overlays).                           *)
(***************************************************************************)
LEMMA HostStep ==
    SessionInv /\ HostInv /\ [Next]_vars => HostInv'
<1> SUFFICES ASSUME SessionInv, HostInv, [Next]_vars PROVE HostInv'
  OBVIOUS
<1> USE DEF HostInv, KeyboardFollowsToolbar
<1>1. CASE Selecting
  BY <1>1, SelectingKeepsSession DEF session, focusing
<1>2. ASSUME NEW m \in Monitors, NEW edit \in BOOLEAN, Commit(m, edit)
      PROVE  HostInv'
  BY <1>2, SelectorAssumption DEF Commit, focusing
<1>3. CASE CountdownTicks \/ CountdownEnds \/ AppEnds
  BY <1>3 DEF CountdownTicks, CountdownEnds, AppEnds, focusing
<1>4. CASE BlankElapses
  BY <1>4, HostCleared DEF BlankElapses, Dismiss, focusing, SessionInv
<1>5. ASSUME NEW m \in Monitors, Cancel(m)
      PROVE  HostInv'
  BY <1>5, HostCleared DEF Cancel, Dismiss, focusing
<1>6. CASE Focusing
  <2>1. CASE FocusSeen
    BY <2>1, HostMoves DEF FocusSeen
  <2>2. CASE ReaderEnds \/ FocusLoopEnds \/ \E m \in Monitors : FocusMoves(m)
    BY <2>2 DEF ReaderEnds, FocusLoopEnds, FocusMoves
  <2> QED
    BY <1>6, <2>1, <2>2 DEF Focusing
<1>7. CASE UNCHANGED vars
  BY <1>7 DEF vars, focusing
<1> QED
  BY <1>1, <1>2, <1>3, <1>4, <1>5, <1>6, <1>7, StepKinds

(***************************************************************************)
(* It is so when the windows have been built (build_overlays).             *)
(***************************************************************************)
LEMMA HostInit == Init => HostInv
  BY HostPlaced DEF Init, HostInv, KeyboardFollowsToolbar

(***************************************************************************)
(* The exclusive keyboard is on the window that shows the toolbar, and the *)
(* host knows no destroyed window, whatever order focus events and the     *)
(* teardown come in (ToolbarHost, attach_focus, dismiss_overlays).         *)
(***************************************************************************)
THEOREM KeyboardSafe == Spec => []KeyboardFollowsToolbar
<1>1. HostInv => KeyboardFollowsToolbar
  BY DEF HostInv
<1> QED
  BY <1>1, Inductive, HostInit, HostStep, PTL DEF Spec

(***************************************************************************)
(* Types of a selector session.                                            *)
(***************************************************************************)
THEOREM TypeCorrect == Spec => []TypeOK
<1>1. SelectionInv /\ SessionInv /\ HostInv => TypeOK
  BY DEF SelectionInv, SessionInv, HostInv, TypeOK
<1> QED
  BY <1>1, Inductive, HostInit, HostStep, PTL DEF Spec

=============================================================================
