---------------------------- MODULE OverlayProofs ---------------------------
(***************************************************************************)
(* Proofs about OverlaySession for any monitors and any number of Saves    *)
(* and blur captures: its types, the coherence of the input state, the     *)
(* single capture for Blur, and the transparency of a Save that is alone.  *)
(***************************************************************************)
EXTENDS OverlaySession, TLAPS

-----------------------------------------------------------------------------
(* The toolbar's host *)

(***************************************************************************)
(* Moving the toolbar to a monitor, with a slot or without, keeps the      *)
(* keyboard with it (move_to_connector, move_to_index).                    *)
(***************************************************************************)
LEMMA HostMoves ==
    ASSUME NEW h \in Hosts, NEW m \in Monitors, NEW ws, KeyboardWithToolbar(h, ws)
    PROVE  MoveTo(h, m) \in Hosts /\ KeyboardWithToolbar(MoveTo(h, m), ws)
<1> USE HostAssumption DEF Hosts, KeyboardWithToolbar
<1>1. CASE m \in h.slots
  BY <1>1 DEF MoveTo, SyncKeyboardMode
<1>2. CASE m \notin h.slots
  BY <1>2 DEF MoveTo
<1> QED
  BY <1>1, <1>2

(***************************************************************************)
(* Turning passthrough on or off leaves the keyboard with the toolbar or   *)
(* nowhere, even when every window is gone (set_keyboard_passthrough).     *)
(***************************************************************************)
LEMMA HostSetsPassthrough ==
    ASSUME NEW h \in Hosts, NEW on \in BOOLEAN, NEW ws \in SUBSET Monitors,
           KeyboardWithToolbar(h, ws),
           h.slots = {} => h.current = None
    PROVE  LET g == SetKeyboardPassthrough(h, on)
           IN  g \in Hosts /\ KeyboardWithToolbar(g, ws)
  BY HostAssumption DEF Hosts, KeyboardWithToolbar, SetKeyboardPassthrough, SyncKeyboardMode

(***************************************************************************)
(* A cleared host has nothing, and no window (clear).                      *)
(***************************************************************************)
LEMMA HostCleared == Cleared \in Hosts /\ KeyboardWithToolbar(Cleared, {})
  BY DEF Cleared, Hosts, KeyboardWithToolbar

(***************************************************************************)
(* A host whose toolbar has just been placed has the keyboard with it      *)
(* (place_initial).                                                        *)
(***************************************************************************)
LEMMA HostPlaced ==
    ASSUME NEW m \in Monitors
    PROVE  Placed(m) \in Hosts /\ KeyboardWithToolbar(Placed(m), Monitors)
  BY DEF Placed, MoveTo, SyncKeyboardMode, Hosts, KeyboardWithToolbar

-----------------------------------------------------------------------------
\* The steps of one Save, of one blur capture, and the others.
SaveSteps(k) == SaveAsked(k) \/ SaveRuns(k) \/ SelectorCommits(k) \/ SelectorFails(k)

BlurSteps(b) == BlurAsked(b) \/ BlurRuns(b)

SharedSteps ==
    \/ PassthroughToggled \/ CommandSent \/ CommandServed
    \/ \E m \in Monitors : FocusSeen(m)
    \/ TearDown

(***************************************************************************)
(* Every step of the overlay is of one of these kinds.                     *)
(***************************************************************************)
LEMMA StepKinds ==
    ASSUME [Next]_vars
    PROVE  \/ SharedSteps
           \/ \E k \in Saves : SaveSteps(k)
           \/ \E b \in Blurs : BlurSteps(b)
           \/ UNCHANGED vars
  BY Zenon DEF Next, SharedSteps, SaveSteps, BlurSteps, Over

-----------------------------------------------------------------------------
(***************************************************************************)
(* The inductive invariant of the input state.  A Save restores the value  *)
(* it found, so that value is a Boolean; and a host without a slot has no  *)
(* current one, so a passthrough restored after the teardown gives the     *)
(* keyboard to no window.                                                  *)
(***************************************************************************)
InputInv ==
    /\ passthrough \in BOOLEAN
    /\ button \in BOOLEAN
    /\ untold \in BOOLEAN
    /\ host \in Hosts
    /\ host.slots = {} => host.current = None
    /\ windows \in SUBSET Monitors
    /\ tornDown \in BOOLEAN
    /\ save \in [Saves -> Save]
    /\ InputCoherent

(***************************************************************************)
(* apply_passthrough_state, called by the button, by a command and at both *)
(* ends of a Save, before the teardown or after it, keeps the three copies *)
(* together.                                                               *)
(***************************************************************************)
LEMMA ApplyKeepsInput ==
    ASSUME InputInv, NEW on \in BOOLEAN, ApplyPassthrough(on),
           UNCHANGED <<windows, tornDown>>, save' \in [Saves -> Save]
    PROVE  InputInv'
<1>1. /\ host' \in Hosts
      /\ KeyboardWithToolbar(host', windows)
  BY HostSetsPassthrough DEF InputInv, InputCoherent, ApplyPassthrough
<1>2. /\ host'.passthrough = on
      /\ host'.slots = host.slots
      /\ host'.current = host.current
  BY DEF InputInv, ApplyPassthrough, SetKeyboardPassthrough, SyncKeyboardMode, Hosts
<1>3. passthrough' = on /\ button' = on /\ untold' = FALSE
  BY DEF ApplyPassthrough
<1> QED
  BY <1>1, <1>2, <1>3 DEF InputInv, InputCoherent

(***************************************************************************)
(* Every step preserves it: those of a Save as they come, in any order     *)
(* with commands, focus events and the teardown.                           *)
(***************************************************************************)
LEMMA InputStep == InputInv /\ [Next]_vars => InputInv'
<1> SUFFICES ASSUME InputInv, [Next]_vars PROVE InputInv'
  OBVIOUS
<1>1. CASE SharedSteps
  <2>1. CASE PassthroughToggled
    <3>1. (~button) \in BOOLEAN
      OBVIOUS
    <3> QED
      BY <2>1, <3>1, ApplyKeepsInput DEF PassthroughToggled, InputInv
  <2>2. CASE CommandServed
    <3>1. (~passthrough) \in BOOLEAN
      OBVIOUS
    <3> QED
      BY <2>2, <3>1, ApplyKeepsInput DEF CommandServed, InputInv
  <2>3. CASE CommandSent
    BY <2>3 DEF CommandSent, input, InputInv, InputCoherent
  <2>4. ASSUME NEW m \in Monitors, FocusSeen(m) PROVE InputInv'
    <3>1. host' \in Hosts /\ KeyboardWithToolbar(host', windows)
      BY <2>4, HostMoves DEF FocusSeen, InputInv, InputCoherent
    <3>2. /\ host'.passthrough = host.passthrough
          /\ host'.slots = {} => host'.current = None
      BY <2>4 DEF FocusSeen, InputInv, MoveTo, SyncKeyboardMode, Hosts
    <3> QED
      BY <2>4, <3>1, <3>2 DEF FocusSeen, InputInv, InputCoherent
  <2>5. CASE TearDown
    BY <2>5, HostCleared DEF TearDown, InputInv, InputCoherent, Cleared
  <2> QED
    BY <1>1, <2>1, <2>2, <2>3, <2>4, <2>5 DEF SharedSteps
<1>2. ASSUME NEW k \in Saves, SaveSteps(k) PROVE InputInv'
  <2> USE DEF Save, Idle
  <2>1. save' \in [Saves -> Save] /\ save[k].prev \in BOOLEAN
    <3>1. \/ \E at \in {"queued", "selecting", "capturing"} :
                save' = [save EXCEPT ![k].at = at]
          \/ save' = [save EXCEPT ![k] = [at |-> "parking", prev |-> passthrough]]
          \/ save' = [save EXCEPT ![k] = [at |-> "idle", prev |-> FALSE]]
      BY <1>2 DEF SaveSteps, SaveRuns, SaveAsked, SaveParks, SelectorOpens,
                  SelectorCommits, SelectorFails, SaveCaptured, SaveEnds
    <3>2. /\ save \in [Saves -> Save] /\ save[k] \in Save
          /\ passthrough \in BOOLEAN /\ save[k].prev \in BOOLEAN
      BY DEF InputInv
    <3>3. ASSUME NEW at \in {"queued", "selecting", "capturing"},
                 save' = [save EXCEPT ![k].at = at]
          PROVE  save' \in [Saves -> Save]
      BY <3>2, <3>3
    <3>4. ASSUME save' = [save EXCEPT ![k] = [at |-> "parking", prev |-> passthrough]]
          PROVE  save' \in [Saves -> Save]
      BY <3>2, <3>4
    <3>5. ASSUME save' = [save EXCEPT ![k] = [at |-> "idle", prev |-> FALSE]]
          PROVE  save' \in [Saves -> Save]
      BY <3>2, <3>5
    <3> QED
      BY <3>1, <3>2, <3>3, <3>4, <3>5
  <2>2. CASE SaveAsked(k) \/ SelectorOpens(k) \/ SelectorCommits(k)
    BY <2>1, <2>2 DEF SaveAsked, SelectorOpens, SelectorCommits, input, InputInv, InputCoherent
  <2>3. CASE SaveParks(k)
    BY <2>1, <2>3, ApplyKeepsInput DEF SaveParks
  <2>4. CASE SaveEnds(k)
    BY <2>1, <2>4, ApplyKeepsInput DEF SaveEnds
  <2> QED
    BY <1>2, <2>2, <2>3, <2>4 DEF SaveSteps, SaveRuns, SaveCaptured, SelectorFails
<1>3. ASSUME NEW b \in Blurs, BlurSteps(b) PROVE InputInv'
  BY <1>3 DEF BlurSteps, BlurRuns, BlurAsked, BlurHides, BlurCaptures, BlurCaptured,
              input, InputInv, InputCoherent
<1>4. CASE UNCHANGED vars
  BY <1>4 DEF vars, input, InputInv, InputCoherent
<1> QED
  BY <1>1, <1>2, <1>3, <1>4, StepKinds

(***************************************************************************)
(* It holds when the windows have been built (build_overlays).             *)
(***************************************************************************)
LEMMA InputInit == Init => InputInv
<1> SUFFICES ASSUME Init PROVE InputInv
  OBVIOUS
<1>1. PICK m \in Monitors : host = Placed(m)
  BY DEF Init
<1>2. host \in Hosts /\ KeyboardWithToolbar(host, Monitors)
  BY <1>1, HostPlaced
<1>3. host.slots # {} /\ ~host.passthrough
  BY <1>1 DEF Placed, MoveTo, SyncKeyboardMode
<1>4. host.passthrough = FALSE
  BY <1>2, <1>3 DEF Hosts
<1>5. save \in [Saves -> Save]
  BY DEF Init, Save, Idle
<1> QED
  BY <1>2, <1>3, <1>4, <1>5 DEF Init, InputInv, InputCoherent

(***************************************************************************)
(* The copies of passthrough agree and the keyboard is with the toolbar in *)
(* every state, whatever Saves, commands, focus events and the teardown do *)
(* to each other (apply_passthrough_state, run_draw_save, tear_down).      *)
(***************************************************************************)
THEOREM InputSafe == Spec => []InputCoherent
<1>1. InputInv => InputCoherent
  BY DEF InputInv
<1> QED
  BY <1>1, InputInit, InputStep, PTL DEF Spec

-----------------------------------------------------------------------------
\* The inductive invariant of the captures for Blur.
BlurInv ==
    /\ blur \in [Blurs -> Blur]
    /\ inFlight \in BOOLEAN
    /\ base \in BOOLEAN
    /\ OneBlurCapture

(***************************************************************************)
(* Every step preserves it: a capture starts only when the flag says there *)
(* is none, and clears it when it ends, well or badly.                     *)
(***************************************************************************)
LEMMA BlurStep == BlurInv /\ visible \in BOOLEAN /\ [Next]_vars => BlurInv'
<1> SUFFICES ASSUME BlurInv, visible \in BOOLEAN, [Next]_vars PROVE BlurInv'
  OBVIOUS
<1>1. ASSUME UNCHANGED <<blur, inFlight, base>> PROVE BlurInv'
  BY <1>1 DEF BlurInv, OneBlurCapture, Blurring
<1>2. CASE SharedSteps
  BY <1>1, <1>2 DEF SharedSteps, PassthroughToggled, CommandSent, CommandServed, FocusSeen,
                    TearDown
<1>3. ASSUME NEW k \in Saves, SaveSteps(k) PROVE BlurInv'
  BY <1>1, <1>3 DEF SaveSteps, SaveRuns, SaveAsked, SaveParks, SelectorOpens, SelectorCommits,
                    SelectorFails, SaveCaptured, SaveEnds
<1>4. ASSUME NEW b \in Blurs, BlurSteps(b) PROVE BlurInv'
  <2> USE <1>4 DEF BlurInv, OneBlurCapture, Blurring, Blur, Idle
  <2>1. CASE BlurAsked(b)
    BY <2>1 DEF BlurAsked
  <2>2. CASE BlurHides(b) \/ BlurCaptures(b)
    BY <2>2 DEF BlurHides, BlurCaptures
  <2>3. CASE BlurCaptured(b)
    BY <2>3 DEF BlurCaptured
  <2> QED
    BY <2>1, <2>2, <2>3 DEF BlurSteps, BlurRuns
<1>5. CASE UNCHANGED vars
  BY <1>1, <1>5 DEF vars
<1> QED
  BY <1>2, <1>3, <1>4, <1>5, StepKinds

\* What is left of the state: the toolbar, the commands and the history.
RestInv ==
    /\ visible \in BOOLEAN
    /\ commands \in 0..MaxCommands
    /\ asked \in BOOLEAN
    /\ mixed \in BOOLEAN

(***************************************************************************)
(* Every step keeps the rest of the state in its types: a Blur capture     *)
(* restores a Boolean, and a command is served only when there is one.     *)
(***************************************************************************)
LEMMA RestStep == InputInv /\ BlurInv /\ RestInv /\ [Next]_vars => RestInv'
<1> SUFFICES ASSUME InputInv, BlurInv, RestInv, [Next]_vars PROVE RestInv'
  OBVIOUS
<1> USE DEF RestInv
<1>1. CASE SharedSteps
  <2>1. CASE PassthroughToggled
    <3>1. asked' \in BOOLEAN /\ mixed' \in BOOLEAN
      BY <2>1, Zenon DEF PassthroughToggled
    <3> QED
      BY <2>1, <3>1 DEF PassthroughToggled
  <2>2. CASE CommandServed
    <3>1. asked' \in BOOLEAN /\ mixed' \in BOOLEAN
      BY <2>2, Zenon DEF CommandServed
    <3> QED
      BY <2>2, <3>1, OverlayAssumption DEF CommandServed
  <2>3. CASE CommandSent
    BY <2>3, OverlayAssumption DEF CommandSent
  <2>4. CASE TearDown \/ \E m \in Monitors : FocusSeen(m)
    BY <2>4 DEF TearDown, FocusSeen
  <2> QED
    BY <1>1, <2>1, <2>2, <2>3, <2>4 DEF SharedSteps
<1>2. ASSUME NEW k \in Saves, SaveSteps(k) PROVE RestInv'
  BY <1>2 DEF SaveSteps, SaveRuns, SaveAsked, SaveParks, SelectorOpens, SelectorCommits,
              SelectorFails, SaveCaptured, SaveEnds
<1>3. ASSUME NEW b \in Blurs, BlurSteps(b) PROVE RestInv'
  BY <1>3 DEF BlurSteps, BlurRuns, BlurAsked, BlurHides, BlurCaptures, BlurCaptured, BlurInv, Blur
<1>4. CASE UNCHANGED vars
  BY <1>4 DEF vars
<1> QED
  BY <1>1, <1>2, <1>3, <1>4, StepKinds

(***************************************************************************)
(* The three invariants hold initially.                                    *)
(***************************************************************************)
LEMMA AllInit == Init => InputInv /\ BlurInv /\ RestInv
<1>1. Init => BlurInv
  <2> SUFFICES ASSUME Init PROVE BlurInv
    OBVIOUS
  <2>1. blur \in [Blurs -> Blur] /\ Blurring = {}
    BY DEF Init, Blurring, Blur, Idle
  <2>2. inFlight \in BOOLEAN /\ base \in BOOLEAN /\ ~inFlight
    BY Zenon DEF Init
  <2> QED
    BY <2>1, <2>2 DEF BlurInv, OneBlurCapture
<1>2. Init => RestInv
  <2> SUFFICES ASSUME Init PROVE RestInv
    OBVIOUS
  <2>1. visible \in BOOLEAN /\ asked \in BOOLEAN /\ mixed \in BOOLEAN
    BY Zenon DEF Init
  <2>2. commands \in 0..MaxCommands
    BY OverlayAssumption DEF Init
  <2> QED
    BY <2>1, <2>2 DEF RestInv
<1> QED
  BY <1>1, <1>2, InputInit

(***************************************************************************)
(* The overlay captures the desktop for Blur at most once at a time, and   *)
(* blur_capture_in_flight is exactly that (ensure_draw_blur_base).         *)
(***************************************************************************)
THEOREM BlurSafe == Spec => []OneBlurCapture
<1>1. BlurInv /\ RestInv => OneBlurCapture /\ visible \in BOOLEAN
  BY DEF BlurInv, RestInv
<1> QED
  BY <1>1, AllInit, InputStep, BlurStep, RestStep, PTL DEF Spec

(***************************************************************************)
(* Types of an overlay session.                                            *)
(***************************************************************************)
THEOREM TypeCorrect == Spec => []TypeOK
<1>1. InputInv /\ BlurInv /\ RestInv => TypeOK
  BY DEF InputInv, BlurInv, RestInv, TypeOK
<1>2. RestInv => visible \in BOOLEAN
  BY DEF RestInv
<1> QED
  BY <1>1, <1>2, AllInit, InputStep, BlurStep, RestStep, PTL DEF Spec

-----------------------------------------------------------------------------
(***************************************************************************)
(* The inductive invariant of a Save nothing interferes with.  While       *)
(* nothing did, a Save is alone: no other Save and no Blur capture runs    *)
(* beside it.  Until it parks, the toolbar is up and passthrough is what   *)
(* was asked; from then on the value it will restore is what was asked.    *)
(* A Blur capture alone found the toolbar up and will show it again.       *)
(***************************************************************************)
Parked == {k \in Saves : save[k].at \in {"parking", "selecting", "capturing"}}
Hiding == {b \in Blurs : blur[b].at \in {"hiding", "capturing"}}

SaveAlone ==
    /\ \A j, k \in Saving : j = k
    /\ Saving # {} => Blurring = {}

AskedIsKept ==
    /\ Parked = {} => passthrough = asked
    /\ \A k \in Parked : save[k].prev = asked

ToolbarIsKept ==
    /\ ~visible => Parked # {} \/ Hiding # {}
    /\ \A b \in Hiding : blur[b].prev

LoneInv == ~mixed => SaveAlone /\ AskedIsKept /\ ToolbarIsKept

(***************************************************************************)
(* Every step preserves it: what interferes with a Save says so, so a step *)
(* after which nothing did starts from a state where nothing had, and is   *)
(* either of the one Save there is, or taken while there is none.          *)
(***************************************************************************)
LEMMA LoneStep == InputInv /\ BlurInv /\ RestInv /\ LoneInv /\ [Next]_vars => LoneInv'
<1> SUFFICES ASSUME InputInv, BlurInv, RestInv, LoneInv, [Next]_vars, ~mixed'
                      PROVE  (SaveAlone /\ AskedIsKept /\ ToolbarIsKept)'
  BY DEF LoneInv
<1> USE DEF Saving, Blurring, Parked, Hiding
<1>1. save \in [Saves -> Save] /\ blur \in [Blurs -> Blur] /\ mixed \in BOOLEAN
  BY DEF InputInv, BlurInv, RestInv
<1>2. ASSUME ~mixed, UNCHANGED <<passthrough, visible, save, blur, asked>>
      PROVE  (SaveAlone /\ AskedIsKept /\ ToolbarIsKept)'
  BY <1>2 DEF LoneInv, SaveAlone, AskedIsKept, ToolbarIsKept
<1>3. CASE SharedSteps
  <2>1. CASE PassthroughToggled \/ CommandServed
    <3>1. /\ ~mixed /\ Saving = {}
          /\ passthrough' = asked'
          /\ UNCHANGED <<visible, save, blur>>
      BY <1>3, <2>1 DEF PassthroughToggled, CommandServed, ApplyPassthrough
    <3> QED
      BY <3>1 DEF LoneInv, SaveAlone, AskedIsKept, ToolbarIsKept
  <2>2. CASE CommandSent \/ TearDown \/ \E m \in Monitors : FocusSeen(m)
    BY <1>2, <2>2 DEF CommandSent, TearDown, FocusSeen, input
  <2> QED
    BY <1>3, <2>1, <2>2 DEF SharedSteps
<1>4. ASSUME NEW k \in Saves, SaveSteps(k)
      PROVE  (SaveAlone /\ AskedIsKept /\ ToolbarIsKept)'
  <2>1. ~mixed /\ blur' = blur /\ asked' = asked
    BY <1>1, <1>4
       DEF SaveSteps, SaveRuns, SaveAsked, SaveParks, SelectorOpens, SelectorCommits,
           SelectorFails, SaveCaptured, SaveEnds
  <2> USE DEF LoneInv, SaveAlone, AskedIsKept, ToolbarIsKept, Save, Idle
  <2>2. CASE SaveAsked(k)
    <3>1. Saving = {} /\ Blurring = {} /\ UNCHANGED <<passthrough, visible>>
      BY <2>2 DEF SaveAsked, input
    <3>2. Saving' = {k} /\ Parked' = {}
      BY <1>1, <2>2, <3>1 DEF SaveAsked
    <3> QED
      BY <2>1, <3>1, <3>2
  <2>3. CASE SaveParks(k)
    <3>1. Saving = {k} /\ Parked = {} /\ Blurring = {}
      BY <1>1, <2>1, <2>3 DEF SaveParks
    <3>2. save' = [save EXCEPT ![k] = [at |-> "parking", prev |-> asked]] /\ visible' = FALSE
      BY <2>1, <2>3, <3>1 DEF SaveParks
    <3> QED
      BY <1>1, <2>1, <3>1, <3>2
  <2>4. CASE SelectorOpens(k) \/ SelectorCommits(k)
    <3>1. PICK at \in {"selecting", "capturing"} :
             /\ k \in Parked
             /\ save' = [save EXCEPT ![k].at = at]
             /\ UNCHANGED <<passthrough, visible>>
      BY <2>4 DEF SelectorOpens, SelectorCommits, Answerable, input
    <3> QED
      BY <1>1, <2>1, <3>1
  <2>5. CASE SelectorFails(k) \/ SaveCaptured(k)
    <3>1. /\ Saving = {k} /\ Blurring = {} /\ save[k].prev = asked
          /\ save' = [save EXCEPT ![k] = Idle]
          /\ visible' = TRUE
          /\ passthrough' = asked
      BY <1>1, <2>1, <2>5
         DEF SelectorFails, Answerable, SaveCaptured, SaveEnds, ApplyPassthrough
    <3> QED
      BY <1>1, <2>1, <3>1
  <2> QED
    BY <1>4, <2>2, <2>3, <2>4, <2>5 DEF SaveSteps, SaveRuns
<1>5. ASSUME NEW b \in Blurs, BlurSteps(b)
      PROVE  (SaveAlone /\ AskedIsKept /\ ToolbarIsKept)'
  <2>1. ~mixed /\ UNCHANGED <<passthrough, save, asked>>
    BY <1>1, <1>5
       DEF BlurSteps, BlurRuns, BlurAsked, BlurHides, BlurCaptures, BlurCaptured, input
  <2> USE DEF LoneInv, SaveAlone, AskedIsKept, ToolbarIsKept, Blur, Idle
  <2>2. Saving = {}
    BY <1>5, <2>1 DEF BlurSteps, BlurRuns, BlurAsked, BlurHides, BlurCaptures, BlurCaptured
  <2>3. CASE BlurAsked(b)
    BY <1>1, <2>1, <2>2, <2>3 DEF BlurAsked
  <2>4. CASE BlurHides(b)
    <3>1. Blurring = {b} /\ visible = TRUE
      BY <1>1, <2>1, <2>2, <2>4 DEF BlurHides, BlurInv, OneBlurCapture
    <3> QED
      BY <1>1, <2>1, <2>2, <2>4, <3>1 DEF BlurHides
  <2>5. CASE BlurCaptures(b)
    BY <1>1, <2>1, <2>2, <2>5 DEF BlurCaptures
  <2>6. CASE BlurCaptured(b)
    <3>1. Blurring = {b} /\ visible' = TRUE
      BY <1>1, <2>1, <2>2, <2>6 DEF BlurCaptured, BlurInv, OneBlurCapture
    <3> QED
      BY <1>1, <2>1, <2>2, <2>6, <3>1 DEF BlurCaptured
  <2> QED
    BY <1>5, <2>3, <2>4, <2>5, <2>6 DEF BlurSteps, BlurRuns
<1>6. CASE UNCHANGED vars
  BY <1>2, <1>6 DEF vars, input
<1> QED
  BY <1>3, <1>4, <1>5, <1>6, StepKinds

(***************************************************************************)
(* A Save nothing interferes with - no second Save, no Blur capture beside *)
(* it, no toggle meanwhile - leaves passthrough as it was last asked and   *)
(* the toolbar up, whether it saved, failed or was cancelled, and after a  *)
(* teardown too (run_draw_save, ensure_draw_blur_base).                    *)
(***************************************************************************)
THEOREM LoneSaveSafe == Spec => []LoneSaveIsTransparent
<1>1. Init => LoneInv
  <2> SUFFICES ASSUME Init PROVE LoneInv
    OBVIOUS
  <2>1. /\ passthrough = asked /\ visible = TRUE
        /\ save = [k \in Saves |-> Idle] /\ blur = [b \in Blurs |-> Idle]
    BY Zenon DEF Init
  <2> QED
    BY <2>1 DEF LoneInv, SaveAlone, AskedIsKept, ToolbarIsKept, Saving, Blurring, Parked,
                Hiding, Idle
<1>2. LoneInv => LoneSaveIsTransparent
  BY DEF LoneInv, LoneSaveIsTransparent, AskedIsKept, ToolbarIsKept, Saving, Parked, Hiding
<1>3. RestInv => visible \in BOOLEAN
  BY DEF RestInv
<1> QED
  BY <1>1, <1>2, <1>3, AllInit, InputStep, BlurStep, RestStep, LoneStep, PTL DEF Spec

=============================================================================
