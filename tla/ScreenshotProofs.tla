-------------------------- MODULE ScreenshotProofs --------------------------
(***************************************************************************)
(* Proofs about Screencopy and Screenshot for any desktops, requests,      *)
(* deadline and number of saves.                                           *)
(***************************************************************************)
EXTENDS Screenshot, Counting, SequenceTheorems, TLAPS

(***************************************************************************)
(* The bytes a helper may write after the first.                           *)
(***************************************************************************)
LEMMA AfterZero ==
    ASSUME NEW s \in Seq({0, 1}), Len(s) = 1, s[1] = 0, NEW b \in {0, 1}, b = 1
    PROVE  Append(s, b) = <<0, 1>>
<1> DEFINE t == Append(s, b)
<1>1. /\ t \in Seq({0, 1}) /\ Len(t) = Len(s) + 1
      /\ \A i \in 1..Len(s) : t[i] = s[i]
      /\ t[Len(s) + 1] = b
  BY AppendProperties
<1>2. t \in Seq({0, 1}) /\ Len(t) = 2 /\ t[1] = 0 /\ t[2] = 1
  BY <1>1
<1> HIDE DEF t
<1>3. t = <<0, 1>>
  BY <1>2
<1>4. QED
  BY <1>3 DEF t

LEMMA TwoBytes == Append(<<0>>, 1) = <<0, 1>> /\ Append(<<>>, 1) = <<1>>
<1>1. <<0>> \in Seq({0, 1}) /\ Len(<<0>>) = 1 /\ <<0>>[1] = 0 /\ 1 \in {0, 1}
  OBVIOUS
<1>2. Append(<<0>>, 1) = <<0, 1>>
  BY <1>1, AfterZero, Zenon
<1>3. Append(<<>>, 1) = <<1>>
  OBVIOUS
<1>4. QED
  BY <1>2, <1>3

USE DeadlineAssumption, ScreenshotAssumption

(***************************************************************************)
(* What the capture keeps: a frame that is done was filled, and from the   *)
(* roundtrips on every output that is still there and wanted is a target.  *)
(* The images are read in the step that sees every frame settled and none  *)
(* failed; before it nothing of WholeCapture is known.                     *)
(***************************************************************************)
Targeted ==
    /\ targets # {}
    /\ \A o \in plugged : WantOutput(wanted, desktop[o]) => o \in targets

CopyInv ==
    /\ CopyTypeOK
    /\ \A o \in targets : frames[o].done => frames[o].filled
    /\ call \in {"formats", "copies", "captured"} => Targeted
    /\ call = "captured" => AllSettled /\ NoneFailed

LEMMA CaptureWhole == CopyInv => WholeCapture
  BY DEF CopyInv, Targeted, AllSettled, NoneFailed, WholeCapture, CopyTypeOK, FrameSlots

LEMMA CopyBegins == CopyInit => CopyInv
  BY DEF CopyInit, CopyInv, CopyTypeOK

LEMMA CopyStarts ==
    ASSUME CopyInv, NEW s, Start(s)
    PROVE  CopyInv'
  BY DEF Start, CopyInv, CopyTypeOK, Targeted

LEMMA CopyStutters == CopyInv /\ UNCHANGED copying => CopyInv'
  BY DEF copying, CopyInv, CopyTypeOK, Targeted, AllSettled, NoneFailed, WantOutput

LEMMA CopyGoesOn ==
    ASSUME CopyInv, CopyNext
    PROVE  CopyInv'
<1> USE DEF CopyInv, CopyTypeOK
<1>1. CASE Connected
  <2> USE <1>1 DEF Connected
  <2>1. CASE call' = "failed" /\ UNCHANGED <<targets, frames, asked, clock>>
    BY <2>1
  <2>2. CASE call' = "formats"
    <3>1. /\ targets' = Resolved /\ Resolved # {}
          /\ frames' = [o \in Resolved |-> NewFrame]
          /\ asked' = [o \in Resolved |-> "buffer"]
          /\ clock' = 0
          /\ UNCHANGED <<desktop, plugged, wanted>>
      BY <2>2
    <3>2. CopyTypeOK'
      BY <2>2, <3>1 DEF Resolved, NewFrame, FrameSlots, Owed
    <3>3. Targeted'
      BY <3>1 DEF Resolved, Targeted, WantOutput
    <3>4. QED
      BY <2>2, <3>1, <3>2, <3>3 DEF NewFrame
  <2>3. QED
    BY <2>1, <2>2
<1>2. ASSUME NEW o \in targets, BufferOffered(o) PROVE CopyInv'
  BY <1>2, ZenonT(30) DEF BufferOffered, Waiting, FrameSlots, Owed, Targeted, WantOutput
<1>3. ASSUME NEW o \in targets, FrameReady(o) PROVE CopyInv'
  BY <1>3 DEF FrameReady, Waiting, FrameSlots, Owed, Targeted, WantOutput
<1>4. ASSUME NEW o \in targets, FrameFailed(o) PROVE CopyInv'
  BY <1>4, ZenonT(30) DEF FrameFailed, Waiting, FrameSlots, Owed, Targeted, WantOutput
<1>5. ASSUME NEW o \in plugged, OutputDestroyed(o) PROVE CopyInv'
  BY <1>5 DEF OutputDestroyed, ShouldFailOnOutputDestroyed, FrameSlots, Targeted, WantOutput
<1>6. CASE FormatsKnown
  BY <1>6 DEF FormatsKnown, Targeted, Owed, WantOutput
<1>7. CASE CopiesDone
  BY <1>7 DEF CopiesDone, Targeted, AllSettled, NoneFailed, WantOutput
<1>8. CASE Tick
  BY <1>8 DEF Tick, Waiting, Targeted, WantOutput
<1>9. CASE DispatchTimesOut
  BY <1>9 DEF DispatchTimesOut
<1>10. CASE ConnectionLost
  BY <1>10 DEF ConnectionLost
<1>11. QED
  BY <1>1, <1>2, <1>3, <1>4, <1>5, <1>6, <1>7, <1>8, <1>9, <1>10 DEF CopyNext

-----------------------------------------------------------------------------
(***************************************************************************)
(* Only CaptureStarts and CaptureGoesOn touch the capture.                 *)
(***************************************************************************)
LEMMA CopyKept ==
    ASSUME CopyInv, [Next]_vars
    PROVE  CopyInv'
<1>1. CASE CaptureStarts
  BY <1>1, CopyStarts DEF CaptureStarts
<1>2. CASE CaptureGoesOn
  BY <1>2, CopyGoesOn DEF CaptureGoesOn
<1>3. CASE UNCHANGED vars
  BY <1>3, CopyStutters DEF vars
<1>4. CASE Next /\ ~CaptureStarts /\ ~CaptureGoesOn
  <2>1. UNCHANGED copying
    BY <1>4 DEF Next, SelectorAnswers, WindowManagerAnswers, ResolveFails, Resolve,
       CountdownTicks, CountdownRefused, CaptureFails, CaptureReturns, EditorSwitches,
       EditorSaves, EditorCloses, SinksBuilt, SinksRefused, FileWritten, FileFails,
       PictureDone, CopyInline, CopyFails, Fork, FirstByteRead, GraceOver, HelperClaims,
       HelperRefused, ServeFails, HelperKilled, Overtaken, Exit, Returned, DeliveryFails,
       HandshakeOver, Unserved, vars
  <2>2. QED
    BY <2>1, CopyStutters
<1>5. QED
  BY <1>1, <1>2, <1>3, <1>4

(***************************************************************************)
(* A capture that succeeds is whole (capture_blocking), for any number of  *)
(* outputs and any deadline.                                               *)
(***************************************************************************)
THEOREM CaptureSafe == Spec => []WholeCapture
<1>1. Init => CopyInv
  BY CopyBegins DEF Init
<1>2. CopyInv /\ [Next]_vars => CopyInv'
  BY CopyKept
<1>3. QED
  BY <1>1, <1>2, CaptureWhole, PTL DEF Spec

-----------------------------------------------------------------------------
(***************************************************************************)
(* The sinks are a sequence; they are resolved anew only while none is     *)
(* being written, a countdown has a second left, and the editor's switcher *)
(* is there whenever the editor is.                                        *)
(***************************************************************************)
IsSwitch(s) ==
    \E m \in Modes : \E p, t : s = [mode |-> m, path |-> p, target |-> t]

SinkInv ==
    /\ DOMAIN sinks = 1..Len(sinks) /\ Len(sinks) \in Nat
    /\ sink # 0 => stage \in {"deliver", "returned", "exited"}
    /\ parent # "idle" => stage = "deliver" /\ sink \in DOMAIN sinks
    /\ delay \in Nat /\ (stage = "countdown" => delay > 0)
    /\ stage = "editing" => edit
    /\ edit /\ stage \in {"editing", "deliver"} => IsSwitch(switch)

LEMMA EffectiveIsSeq ==
    ASSUME NEW r \in Requests
    PROVE  LET s == EffectiveSinks(r.sinks)
           IN DOMAIN s = 1..Len(s) /\ Len(s) \in Nat
<1> DEFINE given == IF r.sinks = <<>> THEN DefaultSinks ELSE r.sinks
<1>1. given \in Seq(SinkSpecs)
  OBVIOUS
<1>2. DOMAIN given = 1..Len(given) /\ Len(given) \in Nat
  BY <1>1
<1> HIDE DEF given
<1>3. LET s == [i \in DOMAIN given |-> ResolveClipboardDefault(given[i])]
      IN DOMAIN s = 1..Len(s) /\ Len(s) \in Nat
  BY <1>2
<1>4. QED
  BY <1>3 DEF given, EffectiveSinks

LEMMA FromSinksIsSwitch == \A s : IsSwitch(FromSinks(s))
  BY DEF IsSwitch, FromSinks, Modes

LEMMA SwitchTurned ==
    ASSUME NEW s, IsSwitch(s), NEW m \in Modes
    PROVE  /\ IsSwitch(SetMode(s, m))
           /\ SetMode(s, m).path = s.path /\ SetMode(s, m).target = s.target
           /\ SetMode(s, m).mode = m
<1>0. PICK n \in Modes : \E p, t : s = [mode |-> n, path |-> p, target |-> t]
  BY DEF IsSwitch
<1>1. PICK p, t : s = [mode |-> n, path |-> p, target |-> t]
  BY <1>0
<1>2. SetMode(s, m) = [mode |-> m, path |-> p, target |-> t]
  BY <1>1 DEF SetMode
<1>3. IsSwitch(SetMode(s, m))
  BY <1>2, Zenon DEF IsSwitch
<1>4. QED
  BY <1>1, <1>2, <1>3

LEMMA ToSinksIsSeq ==
    ASSUME NEW s, IsSwitch(s)
    PROVE  DOMAIN ToSinks(s) = 1..Len(ToSinks(s)) /\ Len(ToSinks(s)) \in Nat
<1>1. s.mode \in Modes
  BY DEF IsSwitch
<1>2. \A a, b : /\ DOMAIN <<a>> = 1..Len(<<a>>) /\ Len(<<a>>) \in Nat
               /\ DOMAIN <<a, b>> = 1..Len(<<a, b>>) /\ Len(<<a, b>>) \in Nat
  OBVIOUS
<1>3. \/ ToSinks(s) = <<File(s.path)>> \/ ToSinks(s) = <<Clipboard(s.target)>>
      \/ ToSinks(s) = <<File(s.path), Clipboard(s.target)>>
  BY <1>1 DEF ToSinks, Modes
<1>4. QED
  BY <1>2, <1>3

LEMMA OverrideIsSeq ==
    ASSUME NEW s, NEW m \in Modes
    PROVE  LET t == ApplyOutputOverride(s, m) IN DOMAIN t = 1..Len(t) /\ Len(t) \in Nat
  BY FromSinksIsSwitch, SwitchTurned, ToSinksIsSeq DEF ApplyOutputOverride

LEMMA NextModeIsMode == \A m \in Modes : NextMode(m) \in Modes
  BY DEF NextMode, Modes

LEMMA SinkBegins == Init => SinkInv
<1> SUFFICES ASSUME Init PROVE SinkInv
  OBVIOUS
<1>1. DOMAIN sinks = 1..Len(sinks) /\ Len(sinks) \in Nat
  BY EffectiveIsSeq DEF Init
<1>2. QED
  BY <1>1 DEF Init, SinkInv

LEMMA DeliveryFailsKeeps ==
    ASSUME SinkInv, DeliveryFails, stage = "deliver"
    PROVE  SinkInv'
  BY DEF SinkInv, DeliveryFails, Refuse, Answer, ordering, IsSwitch

LEMMA HandshakeKeeps ==
    ASSUME SinkInv, parent # "idle", NEW ok \in BOOLEAN, HandshakeOver(ok)
    PROVE  SinkInv'
<1>1. CASE ok
  BY <1>1 DEF SinkInv, HandshakeOver, ordering, IsSwitch
<1>2. CASE ~ok
  BY <1>2, DeliveryFailsKeeps DEF HandshakeOver, SinkInv
<1>3. QED
  BY <1>1, <1>2

LEMMA SinkKept ==
    ASSUME SinkInv, [Next]_vars
    PROVE  SinkInv'
<1> USE DEF SinkInv, ordering, delivery, clipboard
<1>1. CASE SelectorAnswers
  <2>1. PICK o \in Outcomes : sinks' = ApplyOutputOverride(sinks, o.mode)
    BY <1>1 DEF SelectorAnswers
  <2>2. DOMAIN sinks' = 1..Len(sinks') /\ Len(sinks') \in Nat
    BY <2>1, OverrideIsSeq
  <2>3. QED
    BY <1>1, <2>2 DEF SelectorAnswers
<1>2. CASE WindowManagerAnswers
  BY <1>2 DEF WindowManagerAnswers
<1>3. CASE ResolveFails \/ CountdownRefused \/ CaptureFails \/ EditorCloses
  BY <1>3 DEF ResolveFails, CountdownRefused, CaptureFails, EditorCloses, Refuse, Answer
<1>4. CASE Resolve
  BY <1>4 DEF Resolve, Refuse, Answer
<1>5. CASE CountdownTicks
  BY <1>5 DEF CountdownTicks
<1>6. CASE CaptureStarts \/ CaptureGoesOn
  BY <1>6 DEF CaptureStarts, CaptureGoesOn, IsSwitch
<1>7. CASE CaptureReturns
  BY <1>7, FromSinksIsSwitch DEF CaptureReturns
<1>8. CASE EditorSwitches
  <2>1. IsSwitch(SetMode(switch, NextMode(switch.mode)))
    <3>1. IsSwitch(switch) /\ switch.mode \in Modes
      BY <1>8 DEF EditorSwitches, IsSwitch
    <3>2. QED
      BY <3>1, SwitchTurned, NextModeIsMode
  <2>2. QED
    BY <1>8, <2>1 DEF EditorSwitches
<1>9. CASE EditorSaves
  <2>1. IsSwitch(switch)
    BY <1>9 DEF EditorSaves
  <2>2. DOMAIN sinks' = 1..Len(sinks') /\ Len(sinks') \in Nat
    BY <1>9, <2>1, ToSinksIsSeq DEF EditorSaves
  <2>3. QED
    BY <1>9, <2>1, <2>2 DEF EditorSaves
<1>10. CASE SinksBuilt
  BY <1>10 DEF SinksBuilt
<1>11. CASE SinksRefused \/ FileFails \/ CopyFails
  BY <1>11, DeliveryFailsKeeps DEF SinksRefused, FileFails, CopyFails, AtSink, AtClipboard
<1>12. CASE FileWritten \/ CopyInline
  BY <1>12 DEF FileWritten, CopyInline, AtSink, AtClipboard
<1>13. CASE PictureDone
  BY <1>13 DEF PictureDone, Answer
<1>14. CASE Fork
  BY <1>14 DEF Fork, AtSink, AtClipboard
<1>15. CASE FirstByteRead
  BY <1>15, HandshakeKeeps DEF FirstByteRead
<1>16. CASE GraceOver
  BY <1>16, HandshakeKeeps DEF GraceOver
<1>17. CASE UNCHANGED <<ordering, delivery, parent, stage>>
  BY <1>17
<1>18. CASE (\E s \in DOMAIN servers : \/ HelperClaims(s) \/ HelperRefused(s)
                                      \/ ServeFails(s) \/ HelperKilled(s))
            \/ \E k \in DOMAIN owner : Overtaken(k)
  BY <1>17, <1>18 DEF HelperClaims, HelperRefused, ServeFails, HelperKilled, Overtaken, Unserved
<1>19. CASE Exit
  BY <1>19 DEF Exit
<1>20. CASE Returned \/ UNCHANGED vars
  BY <1>17, <1>20 DEF Returned, vars
<1>21. QED
  BY <1>1, <1>2, <1>3, <1>4, <1>5, <1>6, <1>7, <1>8, <1>9, <1>10, <1>11, <1>12, <1>13, <1>14,
     <1>15, <1>16, <1>18, <1>19, <1>20 DEF Next

-----------------------------------------------------------------------------
(* Types *)

\* What is left of the types once the capture and the sinks are known.
OwnInv ==
    /\ stage \in Stages /\ request \in Requests /\ edit \in BOOLEAN
    /\ picture \in Nat \ {0} /\ sink \in 0..(Len(sinks) + 1) /\ saves \in 0..MaxSaves
    /\ parent \in {"idle", "first", "grace"}
    /\ stage \in {"returned", "exited"} => result.answer \in {"written", "closed", "error"}

ClipInv ==
    /\ servers \in Seq(Servers)
    /\ owner \in [{"Regular", "Primary"} -> 0..Len(servers)]
    /\ pipe \in Seq({0, 1})
    /\ disturbed \in BOOLEAN

LEMMA OwnKept ==
    ASSUME OwnInv, SinkInv, [Next]_vars
    PROVE  OwnInv'
<1> USE DEF OwnInv, ordering, delivery, clipboard, Stages
<1>a. Len(sinks) \in Nat /\ DOMAIN sinks = 1..Len(sinks) /\ Len(sinks') \in Nat
  BY SinkKept DEF SinkInv
<1>f. ASSUME DeliveryFails PROVE OwnInv'
  BY <1>a, <1>f DEF DeliveryFails, Refuse, Answer
<1>h. ASSUME NEW ok \in BOOLEAN, parent # "idle", HandshakeOver(ok) PROVE OwnInv'
  BY <1>a, <1>f, <1>h DEF HandshakeOver, SinkInv
<1>1. CASE SelectorAnswers
  <2>1. PICK o \in Outcomes : edit' = (edit \/ o.edit)
    BY <1>1 DEF SelectorAnswers
  <2>2. o.edit \in BOOLEAN /\ edit' \in BOOLEAN
    BY <2>1
  <2>3. QED
    BY <1>1, <1>a, <2>2 DEF SelectorAnswers, SinkInv
<1>2. CASE WindowManagerAnswers \/ CaptureStarts \/ CaptureGoesOn \/ EditorSwitches
  BY <1>2 DEF WindowManagerAnswers, CaptureStarts, CaptureGoesOn, EditorSwitches
<1>3. CASE ResolveFails \/ CountdownRefused \/ CaptureFails \/ EditorCloses
  BY <1>3 DEF ResolveFails, CountdownRefused, CaptureFails, EditorCloses, Refuse, Answer
<1>4. CASE Resolve \/ CountdownTicks \/ CaptureReturns
  BY <1>4 DEF Resolve, Refuse, Answer, CountdownTicks, CaptureReturns
<1>5. CASE EditorSaves
  BY <1>5, <1>a DEF EditorSaves, SinkInv
<1>6. CASE SinksBuilt
  BY <1>6, <1>a DEF SinksBuilt
<1>7. CASE SinksRefused \/ FileFails \/ CopyFails
  BY <1>7, <1>f DEF SinksRefused, FileFails, CopyFails
<1>8. CASE FileWritten \/ CopyInline \/ Fork
  BY <1>8, <1>a DEF FileWritten, CopyInline, Fork, AtSink, AtClipboard
<1>9. CASE PictureDone
  BY <1>9, <1>a DEF PictureDone, Answer
<1>10. CASE FirstByteRead
  <2>1. CASE pipe # <<>> /\ Head(pipe) = 0
    BY <1>10, <2>1 DEF FirstByteRead
  <2>2. CASE ~(pipe # <<>> /\ Head(pipe) = 0)
    BY <1>10, <2>2, <1>h DEF FirstByteRead
  <2>3. QED
    BY <2>1, <2>2
<1>11. CASE GraceOver
  BY <1>11, <1>h DEF GraceOver
<1>12. CASE UNCHANGED <<ordering, delivery, parent, stage, result>>
  BY <1>12
<1>13. CASE (\E s \in DOMAIN servers : \/ HelperClaims(s) \/ HelperRefused(s)
                                      \/ ServeFails(s) \/ HelperKilled(s))
            \/ \E k \in DOMAIN owner : Overtaken(k)
  BY <1>12, <1>13 DEF HelperClaims, HelperRefused, ServeFails, HelperKilled, Overtaken, Unserved
<1>14. CASE Exit
  BY <1>14 DEF Exit
<1>15. CASE Returned \/ UNCHANGED vars
  BY <1>12, <1>15 DEF Returned, vars
<1>16. QED
  BY <1>1, <1>2, <1>3, <1>4, <1>5, <1>6, <1>7, <1>8, <1>9, <1>10, <1>11, <1>13, <1>14, <1>15
     DEF Next

LEMMA StateSet ==
    ASSUME NEW v \in Servers, NEW st \in {"preparing", "serving", "gone"}
    PROVE  [v EXCEPT !.state = st] \in Servers
  BY DEF Servers

LEMMA Relabelled ==
    ASSUME NEW S, NEW s \in Seq(S), NEW t, DOMAIN t = DOMAIN s,
           t = [i \in DOMAIN s |-> t[i]], \A i \in DOMAIN s : t[i] \in S
    PROVE  t \in Seq(S) /\ Len(t) = Len(s)
<1>1. Len(s) \in Nat /\ DOMAIN s = 1..Len(s)
  BY LenProperties
<1>2. t \in [1..Len(s) -> S]
  BY <1>1
<1>3. t \in Seq(S)
  BY <1>1, <1>2, SeqDef
<1>4. QED
  BY <1>1, <1>2, <1>3, LenProperties

(***************************************************************************)
(* Who takes a selection is one of the servers, and servers only change    *)
(* what they are doing.                                                    *)
(***************************************************************************)
LEMMA ClaimTypes ==
    ASSUME ClipInv, NEW all \in Seq(Servers), Len(servers) <= Len(all),
           NEW s \in 0..Len(all), NEW ss, Claim(s, ss, all)
    PROVE  /\ servers' \in Seq(Servers) /\ Len(servers') = Len(all)
           /\ owner' \in [{"Regular", "Primary"} -> 0..Len(servers')]
<1>1. \A i \in DOMAIN all : [all[i] EXCEPT !.state = "gone"] \in Servers /\ all[i] \in Servers
  BY StateSet, ElementOfSeq, LenProperties
<1>2. servers' \in Seq(Servers) /\ Len(servers') = Len(all)
  <2>1. /\ servers' = [i \in DOMAIN all |-> servers'[i]]
        /\ \A i \in DOMAIN all : servers'[i] \in Servers
    BY <1>1 DEF Claim
  <2>2. QED
    BY <2>1, Relabelled
<1>3. owner' \in [{"Regular", "Primary"} -> 0..Len(all)]
  BY DEF Claim, ClipInv
<1>4. QED
  BY <1>2, <1>3

LEMMA ServerType ==
    ASSUME ClipInv, NEW s \in DOMAIN servers, NEW st \in {"preparing", "serving", "gone"}
    PROVE  /\ [servers EXCEPT ![s].state = st] \in Seq(Servers)
           /\ Len([servers EXCEPT ![s].state = st]) = Len(servers)
<1>1. servers \in Seq(Servers) /\ s \in 1..Len(servers)
  BY LenProperties DEF ClipInv
<1>2. [servers[s] EXCEPT !.state = st] \in Servers
  BY <1>1, StateSet, ElementOfSeq
<1>3. QED
  BY <1>1, <1>2, ExceptSeq

LEMMA WritesType ==
    ASSUME ClipInv, NEW s, NEW b \in {0, 1}, Writes(s, b)
    PROVE  pipe' \in Seq({0, 1})
  BY DEF ClipInv, Writes

LEMMA ClipKept ==
    ASSUME ClipInv, OwnInv, [Next]_vars
    PROVE  ClipInv'
<1> USE DEF clipboard
<1>1. CASE UNCHANGED clipboard
  BY <1>1 DEF ClipInv
<1>2. CASE /\ UNCHANGED <<servers, owner, disturbed>>
           /\ pipe' = pipe \/ pipe' = <<>> \/ (pipe' = Tail(pipe) /\ pipe # <<>>)
  <2>1. <<>> \in Seq({0, 1}) /\ (pipe # <<>> => Tail(pipe) \in Seq({0, 1}))
    BY EmptySeq, HeadTailProperties, Zenon DEF ClipInv
  <2>2. pipe' \in Seq({0, 1})
    BY <1>2, <2>1 DEF ClipInv
  <2>3. QED
    BY <1>2, <2>2 DEF ClipInv
<1>3. CASE SinksRefused \/ FileFails \/ CopyFails
  BY <1>2, <1>3 DEF SinksRefused, FileFails, CopyFails, DeliveryFails
<1>4. CASE FirstByteRead \/ GraceOver
  BY <1>2, <1>4 DEF FirstByteRead, GraceOver, HandshakeOver, DeliveryFails
<1>5. CASE CopyInline
  <2> DEFINE new == [by |-> "Inline", picture |-> picture, holds |-> Held, state |-> "serving"]
  <2>1. new \in Servers
    BY DEF Servers, Held, SelectionsOf, OwnInv
  <2>2. Append(servers, new) \in Seq(Servers) /\ Len(Append(servers, new)) = Len(servers) + 1
        /\ Len(servers) \in Nat
    BY <2>1 DEF ClipInv
  <2>3. Claim(Len(servers) + 1, Held, Append(servers, new))
    BY <1>5 DEF CopyInline
  <2> HIDE DEF new
  <2>4. servers' \in Seq(Servers) /\ owner' \in [{"Regular", "Primary"} -> 0..Len(servers')]
    <3>1. Len(servers) <= Len(Append(servers, new)) /\ Len(servers) + 1 \in 0..Len(Append(servers, new))
      BY <2>2
    <3>2. QED
      BY <3>1, <2>2, <2>3, ClaimTypes, Zenon
  <2>5. QED
    BY <1>5, <2>4 DEF CopyInline, ClipInv
<1>6. CASE Fork
  <2> DEFINE new == [by |-> "Fork", picture |-> picture, holds |-> Held, state |-> "preparing"]
  <2>1. new \in Servers
    BY DEF Servers, Held, SelectionsOf, OwnInv
  <2>2. servers' = Append(servers, new)
    BY <1>6 DEF Fork
  <2>3. servers' \in Seq(Servers) /\ Len(servers') = Len(servers) + 1 /\ Len(servers) \in Nat
    BY <2>1, <2>2 DEF ClipInv
  <2>4. QED
    BY <1>6, <2>3 DEF Fork, ClipInv
<1>7. ASSUME NEW s \in DOMAIN servers, HelperClaims(s) PROVE ClipInv'
  <2> DEFINE all == [servers EXCEPT ![s].state = "serving"]
  <2>1. all \in Seq(Servers) /\ Len(all) = Len(servers) /\ Len(servers) \in Nat
    <3>1. all \in Seq(Servers) /\ Len(all) = Len(servers)
      BY ServerType, Zenon
    <3>2. QED
      BY <3>1, LenProperties DEF ClipInv
  <2>2. Claim(s, servers[s].holds, all) /\ s \in 0..Len(all)
    BY <1>7, <2>1 DEF HelperClaims, ClipInv
  <2>3. servers' \in Seq(Servers) /\ owner' \in [{"Regular", "Primary"} -> 0..Len(servers')]
    <3>1. Len(servers) <= Len(all)
      BY <2>1
    <3>2. QED
      BY <3>1, <2>1, <2>2, ClaimTypes, Zenon
  <2>4. QED
    BY <1>7, <2>3, WritesType DEF HelperClaims, ClipInv
<1>8. ASSUME NEW s \in DOMAIN servers, HelperRefused(s) \/ ServeFails(s) \/ HelperKilled(s)
      PROVE  ClipInv'
  <2>1. servers' \in Seq(Servers) /\ Len(servers') = Len(servers)
    <3>1. servers' = [servers EXCEPT ![s].state = "gone"]
      BY <1>8 DEF HelperRefused, ServeFails, HelperKilled
    <3>2. "gone" \in {"preparing", "serving", "gone"}
      OBVIOUS
    <3>3. QED
      BY <3>1, <3>2, ServerType, Zenon
  <2>2. owner' \in [{"Regular", "Primary"} -> 0..Len(servers)]
    BY <1>8 DEF HelperRefused, ServeFails, HelperKilled, Without, Nobody, ClipInv
  <2>3. pipe' \in Seq({0, 1})
    BY <1>8, WritesType DEF HelperRefused, ServeFails, HelperKilled, ClipInv
  <2>4. disturbed' \in BOOLEAN
    BY <1>8 DEF HelperRefused, ServeFails, HelperKilled, ClipInv
  <2>5. QED
    BY <2>1, <2>2, <2>3, <2>4 DEF ClipInv
<1>9. ASSUME NEW k \in DOMAIN owner, Overtaken(k) PROVE ClipInv'
  <2>1. Claim(Nobody, {k}, servers) /\ Nobody \in 0..Len(servers)
    BY <1>9 DEF Overtaken, Nobody, ClipInv
  <2>2. servers' \in Seq(Servers) /\ owner' \in [{"Regular", "Primary"} -> 0..Len(servers')]
    <3>1. servers \in Seq(Servers) /\ Len(servers) <= Len(servers)
      BY LenProperties DEF ClipInv
    <3>2. QED
      BY <2>1, <3>1, ClaimTypes, Zenon
  <2>3. pipe' \in Seq({0, 1})
    BY <1>9, WritesType DEF Overtaken, ClipInv
  <2>4. QED
    BY <1>9, <2>2, <2>3 DEF Overtaken, ClipInv
<1>10. CASE Exit
  <2>1. \A s \in DOMAIN servers :
            [servers[s] EXCEPT !.state = "gone"] \in Servers /\ servers[s] \in Servers
    BY StateSet, ElementOfSeq, LenProperties DEF ClipInv
  <2>2. servers' \in Seq(Servers) /\ Len(servers') = Len(servers)
    <3>1. /\ servers' = [s \in DOMAIN servers |-> servers'[s]]
          /\ \A s \in DOMAIN servers : servers'[s] \in Servers
      BY <1>10, <2>1 DEF Exit
    <3>2. QED
      BY <3>1, Relabelled DEF ClipInv
  <2>3. owner' \in [{"Regular", "Primary"} -> 0..Len(servers)]
    BY <1>10 DEF Exit, Nobody, ClipInv
  <2>4. QED
    BY <1>10, <2>2, <2>3 DEF Exit, ClipInv
<1>11. QED
  BY <1>1, <1>3, <1>4, <1>5, <1>6, <1>7, <1>8, <1>9, <1>10 DEF Next, vars, SelectorAnswers,
     WindowManagerAnswers, ResolveFails, Resolve, CountdownTicks, CountdownRefused,
     CaptureStarts, CaptureGoesOn, CaptureFails, CaptureReturns, EditorSwitches, EditorSaves,
     EditorCloses, SinksBuilt, FileWritten, PictureDone, Returned

Typed == CopyInv /\ SinkInv /\ OwnInv /\ ClipInv

LEMMA TypedBegins == Init => Typed
<1> SUFFICES ASSUME Init PROVE Typed
  OBVIOUS
<1>1. CopyInv /\ SinkInv
  BY CopyBegins, SinkBegins DEF Init
<1>2. OwnInv
  BY <1>1 DEF Init, OwnInv, Stages, SinkInv
<1>3. ClipInv
  <2>1. <<>> \in Seq(Servers) /\ <<>> \in Seq({0, 1}) /\ Len(<<>>) = 0
    BY EmptySeq, Zenon
  <2>2. servers = <<>> /\ pipe = <<>> /\ disturbed = FALSE
    BY DEF Init
  <2>3. owner \in [{"Regular", "Primary"} -> 0..0]
    BY DEF Init, Nobody
  <2>4. QED
    BY <2>1, <2>2, <2>3 DEF ClipInv
<1>4. QED
  BY <1>1, <1>2, <1>3 DEF Typed

LEMMA TypedKept == Typed /\ [Next]_vars => Typed'
  BY CopyKept, SinkKept, OwnKept, ClipKept DEF Typed

(***************************************************************************)
(* Type correctness of a request, for any requests, desktops and bounds.   *)
(***************************************************************************)
THEOREM TypeCorrect == Spec => []TypeOK
<1>1. Typed => TypeOK
  BY DEF Typed, CopyInv, SinkInv, OwnInv, ClipInv, TypeOK
<1>2. QED
  BY <1>1, TypedBegins, TypedKept, PTL DEF Spec

-----------------------------------------------------------------------------
(***************************************************************************)
(* Unless a selector was in between, the sinks are those of the request    *)
(* until the editor is up; its switcher is made from them and keeps their  *)
(* path and kind; what is written in the editor is read from the switcher. *)
(***************************************************************************)
Given == EffectiveSinks(request.sinks)

SwitchInv ==
    request.selection.kind # "Interactive" =>
        /\ selection.kind # "Interactive"
        /\ stage \in {"resolve", "countdown", "capture"} => sinks = Given
        /\ edit /\ stage \in {"editing", "deliver"} =>
                switch.path = FirstPath(Given) /\ switch.target = FirstKind(Given)
        /\ edit /\ stage = "deliver" => sinks = ToSinks(switch)

LEMMA SwitchKept ==
    ASSUME SwitchInv, SinkInv, [Next]_vars
    PROVE  SwitchInv'
<1> USE DEF SwitchInv, Given, ordering, delivery, clipboard
<1>f. ASSUME DeliveryFails, stage = "deliver" PROVE SwitchInv'
  BY <1>f DEF DeliveryFails, Refuse, Answer
<1>h. ASSUME NEW ok \in BOOLEAN, parent # "idle", HandshakeOver(ok) PROVE SwitchInv'
  BY <1>f, <1>h DEF HandshakeOver, SinkInv
<1>1. CASE SelectorAnswers
  BY <1>1 DEF SelectorAnswers
<1>2. CASE WindowManagerAnswers
  BY <1>2 DEF WindowManagerAnswers
<1>3. CASE ResolveFails \/ CountdownRefused \/ CaptureFails \/ EditorCloses
  BY <1>3 DEF ResolveFails, CountdownRefused, CaptureFails, EditorCloses, Refuse, Answer
<1>4. CASE Resolve \/ CountdownTicks
  BY <1>4 DEF Resolve, CountdownTicks, Refuse, Answer
<1>5. CASE CaptureStarts \/ CaptureGoesOn
  BY <1>5 DEF CaptureStarts, CaptureGoesOn
<1>6. CASE CaptureReturns
  <2>1. edit => switch'.path = FirstPath(sinks) /\ switch'.target = FirstKind(sinks)
    BY <1>6 DEF CaptureReturns, FromSinks
  <2>2. QED
    BY <1>6, <2>1 DEF CaptureReturns
<1>7. CASE EditorSwitches
  <2>1. IsSwitch(switch) /\ NextMode(switch.mode) \in Modes
    BY <1>7, NextModeIsMode DEF EditorSwitches, SinkInv, IsSwitch
  <2>2. switch'.path = switch.path /\ switch'.target = switch.target
    BY <1>7, <2>1, SwitchTurned DEF EditorSwitches
  <2>3. QED
    BY <1>7, <2>2 DEF EditorSwitches
<1>8. CASE EditorSaves
  BY <1>8 DEF EditorSaves
<1>9. CASE SinksRefused \/ FileFails \/ CopyFails
  BY <1>9, <1>f DEF SinksRefused, FileFails, CopyFails, AtSink, AtClipboard
<1>10. CASE FirstByteRead \/ GraceOver
  BY <1>10, <1>h DEF FirstByteRead, GraceOver
<1>11. CASE PictureDone
  BY <1>11 DEF PictureDone, Answer
<1>12. CASE UNCHANGED <<ordering, stage>>
  BY <1>12
<1>13. CASE SinksBuilt \/ FileWritten \/ CopyInline \/ Fork \/ Returned \/ UNCHANGED vars
  BY <1>12, <1>13 DEF SinksBuilt, FileWritten, CopyInline, Fork, Returned, vars
<1>14. CASE (\E s \in DOMAIN servers : \/ HelperClaims(s) \/ HelperRefused(s)
                                      \/ ServeFails(s) \/ HelperKilled(s))
            \/ \E k \in DOMAIN owner : Overtaken(k)
  BY <1>12, <1>14 DEF HelperClaims, HelperRefused, ServeFails, HelperKilled, Overtaken, Unserved
<1>15. CASE Exit
  BY <1>15 DEF Exit
<1>16. QED
  BY <1>1, <1>2, <1>3, <1>4, <1>5, <1>6, <1>7, <1>8, <1>9, <1>10, <1>11, <1>13, <1>14, <1>15
     DEF Next

(***************************************************************************)
(* Turning the editor's switcher never loses the path or the selection the *)
(* request had named (SinkSelection), for any list of sinks.               *)
(***************************************************************************)
THEOREM SwitchingSafe == Spec => []SwitchingIsLossless
<1> DEFINE Inv == SinkInv /\ SwitchInv
<1>1. Init => Inv
  BY SinkBegins DEF Init, SwitchInv, Given
<1>2. Inv /\ [Next]_vars => Inv'
  BY SinkKept, SwitchKept
<1>3. Inv => SwitchingIsLossless
  <2> SUFFICES ASSUME Inv, stage = "deliver", edit, request.selection.kind # "Interactive",
                      NEW i \in DOMAIN sinks
               PROVE  IF IsFile(sinks[i]) THEN sinks[i].path = FirstPath(Given)
                      ELSE sinks[i].target = FirstKind(Given)
    BY DEF SwitchingIsLossless, Given
  <2>1. /\ sinks = ToSinks(switch) /\ switch.mode \in Modes
        /\ switch.path = FirstPath(Given) /\ switch.target = FirstKind(Given)
    BY DEF SwitchInv, SinkInv, IsSwitch
  <2>2. sinks[i] \in {File(switch.path), Clipboard(switch.target)}
    BY <2>1 DEF ToSinks, Modes
  <2>3. QED
    BY <2>1, <2>2 DEF File, Clipboard, IsFile
<1>4. QED
  BY <1>1, <1>2, <1>3, PTL DEF Spec

-----------------------------------------------------------------------------
(***************************************************************************)
(* Only what is drawn on is refused one picture per output, and before the *)
(* first sink there is one picture and no path.  A list of sinks names     *)
(* paths of the request, unless a switcher made it: then it has one file.  *)
(***************************************************************************)
FilesOf(s) == {i \in DOMAIN s : IsFile(s[i])}

Files == FilesOf(sinks)

Written == stage \in {"returned", "exited"} /\ result.answer = "written"

Delivering == stage = "deliver" \/ Written

AllGiven(s) == \A i \in DOMAIN s : IsFile(s[i]) => s[i].path \in Paths \cup {Unset}

OneFile(s) == \A i, j \in DOMAIN s : IsFile(s[i]) /\ IsFile(s[j]) => i = j

FlowInv ==
    /\ edit /\ stage \in {"countdown", "capture", "editing", "deliver"}
            => selection.kind # "PerOutput"
    /\ stage \in {"resolve", "countdown", "capture", "editing"} => picture = 1 /\ paths = <<>>
    /\ stage = "editing" \/ Delivering => call = "captured"
    /\ Delivering => picture \in 1..Pictures
    /\ AllGiven(sinks) \/ OneFile(sinks)
    /\ parent # "idle" => IsClipboard(sinks[sink])

LEMMA EffectiveGiven ==
    ASSUME NEW r \in Requests
    PROVE  AllGiven(EffectiveSinks(r.sinks))
<1> DEFINE given == IF r.sinks = <<>> THEN DefaultSinks ELSE r.sinks
<1>1. given \in Seq(SinkSpecs)
  OBVIOUS
<1>2. \A i \in DOMAIN given : given[i] \in SinkSpecs
  BY <1>1, ElementOfSeq, LenProperties
<1> HIDE DEF given
<1>3. ASSUME NEW x \in SinkSpecs, IsFile(ResolveClipboardDefault(x))
      PROVE  ResolveClipboardDefault(x).path \in Paths \cup {Unset}
  BY <1>3 DEF SinkSpecs, ResolveClipboardDefault, IsFile, IsClipboard, File, Clipboard
<1>4. AllGiven([i \in DOMAIN given |-> ResolveClipboardDefault(given[i])])
  BY <1>2, <1>3 DEF AllGiven
<1>5. QED
  BY <1>4 DEF given, EffectiveSinks

LEMMA ToSinksOneFile ==
    ASSUME NEW s, IsSwitch(s)
    PROVE  OneFile(ToSinks(s))
<1>1. s.mode \in Modes
  BY DEF IsSwitch
<1>2. \/ ToSinks(s) = <<File(s.path)>> \/ ToSinks(s) = <<Clipboard(s.target)>>
      \/ ToSinks(s) = <<File(s.path), Clipboard(s.target)>>
  BY <1>1 DEF ToSinks, Modes
<1>3. /\ ~IsFile(Clipboard(s.target))
      /\ \A a, b : /\ DOMAIN <<a>> = {1}
                   /\ DOMAIN <<a, b>> = {1, 2} /\ <<a, b>>[2] = b
  BY DEF IsFile, Clipboard
<1>4. QED
  BY <1>2, <1>3 DEF OneFile

LEMMA OverrideOneFile ==
    ASSUME NEW s, NEW m \in Modes
    PROVE  OneFile(ApplyOutputOverride(s, m))
  BY FromSinksIsSwitch, SwitchTurned, ToSinksOneFile DEF ApplyOutputOverride

(***************************************************************************)
(* A capture that succeeded has a first picture, and InOrder counts off    *)
(* the outputs it is of: each has a name of its own.                       *)
(***************************************************************************)
LEMMA OrderExists ==
    ASSUME CopyInv
    PROVE  Cardinality(targets) \in Nat /\ Increasing(InOrder, targets)
<1>1. desktop \in Desktops /\ targets \subseteq DOMAIN desktop
  BY DEF CopyInv, CopyTypeOK
<1>2. Len(desktop) \in Nat /\ DOMAIN desktop = 1..Len(desktop)
  BY <1>1, DesktopAssumption, LenProperties
<1>3. Cardinality(targets) \in Nat /\ \E f : Increasing(f, targets)
  BY <1>1, <1>2, Enumerated
<1>4. PICK f \in [1..Cardinality(targets) -> targets] :
            \A i, j \in 1..Cardinality(targets) : i < j => f[i] < f[j]
  BY <1>3 DEF Increasing
<1>5. \E order \in [1..Cardinality(targets) -> targets] :
            \A i, j \in DOMAIN order : i < j => order[i] < order[j]
  <2>1. DOMAIN f = 1..Cardinality(targets)
    BY <1>4
  <2>2. QED
    BY <1>4, <2>1, Zenon
<1>6. InOrder \in [1..Cardinality(targets) -> targets]
      /\ \A i, j \in DOMAIN InOrder : i < j => InOrder[i] < InOrder[j]
  BY <1>5, Zenon DEF InOrder
<1>7. QED
  BY <1>3, <1>6 DEF Increasing

LEMMA PicturesCount ==
    ASSUME CopyInv, call = "captured"
    PROVE  Pictures \in Nat /\ 1 <= Pictures
<1>1. desktop \in Desktops /\ targets \subseteq DOMAIN desktop /\ targets # {}
  BY DEF CopyInv, CopyTypeOK, Targeted
<1>2. Len(desktop) \in Nat /\ DOMAIN desktop = 1..Len(desktop)
  BY <1>1, DesktopAssumption, LenProperties
<1>3. IsFiniteSet(targets)
  <2>1. IsFiniteSet(1..Len(desktop))
    BY <1>2, FS_Interval
  <2>2. targets \subseteq 1..Len(desktop)
    BY <1>1, <1>2
  <2>3. QED
    BY <2>1, <2>2, FS_Subset, Zenon
<1>4. Cardinality(targets) \in Nat /\ Cardinality(targets) # 0
  BY <1>1, <1>3, FS_EmptySet, FS_CardinalityType
<1>5. QED
  BY <1>4 DEF Pictures

NameOf(n) ==
    FileName(IF selection.kind = "PerOutput" THEN desktop[InOrder[n]].name ELSE Unset,
             selection.kind = "PerOutput")

LEMMA NamesDiffer ==
    ASSUME CopyInv, NEW m \in 1..Pictures, NEW n \in 1..Pictures, m # n
    PROVE  NameOf(m) # NameOf(n) /\ (NameOf(n) \notin Paths)
<1>1. selection.kind = "PerOutput" /\ Pictures = Cardinality(targets)
  BY DEF Pictures
<1>2. Cardinality(targets) \in Nat /\ Increasing(InOrder, targets)
  BY OrderExists
<1>3. \A i \in 1..Cardinality(targets) : InOrder[i] \in targets
  BY <1>2 DEF Increasing
<1>4. desktop \in Desktops /\ targets \subseteq DOMAIN desktop
  BY DEF CopyInv, CopyTypeOK
<1>5. DOMAIN desktop = 1..Len(desktop)
  BY <1>4, DesktopAssumption, LenProperties
<1>6. InOrder[m] < InOrder[n] \/ InOrder[n] < InOrder[m]
  BY <1>1, <1>2 DEF Increasing
<1>7. /\ InOrder[m] \in DOMAIN desktop /\ InOrder[n] \in DOMAIN desktop
      /\ InOrder[m] # InOrder[n]
  BY <1>1, <1>3, <1>4, <1>5, <1>6
<1>8. desktop[InOrder[m]].name # desktop[InOrder[n]].name
      /\ FileName(desktop[InOrder[n]].name, TRUE) \notin Paths
  BY <1>4, <1>7, DesktopAssumption
<1>9. QED
  BY <1>1, <1>8 DEF NameOf, FileName

-----------------------------------------------------------------------------
(***************************************************************************)
(* What was written, sink by sink: as many paths as file sinks are behind, *)
(* none torn; a named path holds the latest picture, and each picture that *)
(* went to the default directory has its own file there.                   *)
(***************************************************************************)
Behind == {i \in DOMAIN sinks : i < sink}

Whole == \A i \in DOMAIN paths : disk[paths[i]] # Torn

Holds(d, ps, path, n) == path \in Range(ps) /\ d[path] = n

NamedWritten ==
    \A i \in Files \cap Behind : sinks[i].path # Unset => Holds(disk, paths, sinks[i].path, picture)

DefaultWritten ==
    \A i \in Files : sinks[i].path = Unset =>
        \A n \in 1..picture : n < picture \/ i \in Behind => Holds(disk, paths, NameOf(n), n)

Counted ==
    Len(paths) = (picture - 1) * Cardinality(Files) + Cardinality(Files \cap Behind)

DiskInv ==
    /\ paths \in Seq(DOMAIN disk)
    /\ Written => sink > Len(sinks) /\ picture = Pictures /\ result.paths = paths
    /\ Delivering => Whole /\ NamedWritten /\ DefaultWritten /\ Counted

LEMMA DiskStutters ==
    ASSUME DiskInv, UNCHANGED <<selection, sinks, targets, desktop, picture, sink, paths, disk>>,
           Delivering' => Delivering, Written' => Written /\ result' = result
    PROVE  DiskInv'
<1>1. UNCHANGED <<Files, Behind, Pictures>> /\ (\A n : NameOf(n)' = NameOf(n))
  BY DEF Files, FilesOf, Behind, Pictures, NameOf, InOrder, FileName
<1>2. /\ Whole => Whole'
      /\ Counted => Counted'
      /\ \A path, n : Holds(disk', paths', path, n) = Holds(disk, paths, path, n)
  BY <1>1 DEF Whole, Counted, Holds
<1>3. NamedWritten => NamedWritten'
  BY <1>1, <1>2 DEF NamedWritten
<1>4. DefaultWritten => DefaultWritten'
  BY <1>1, <1>2 DEF DefaultWritten
<1>5. QED
  BY <1>1, <1>2, <1>3, <1>4 DEF DiskInv

LEMMA DiskIdle ==
    ASSUME DiskInv, ~Delivering', paths' = <<>> \/ UNCHANGED <<paths, disk>>
    PROVE  DiskInv'
<1>1. paths' \in Seq(DOMAIN disk')
  BY EmptySeq DEF DiskInv
<1>2. QED
  BY <1>1 DEF DiskInv, Delivering

LEMMA FilesFinite ==
    ASSUME NEW s, DOMAIN s = 1..Len(s), Len(s) \in Nat
    PROVE  \A S \in SUBSET FilesOf(s) : IsFiniteSet(S) /\ Cardinality(S) \in Nat
<1>1. IsFiniteSet(1..Len(s))
  BY FS_Interval
<1>2. FilesOf(s) \subseteq 1..Len(s)
  BY DEF FilesOf
<1>3. IsFiniteSet(FilesOf(s))
  BY <1>1, <1>2, FS_Subset, Zenon
<1>4. QED
  BY <1>3, FS_Subset, FS_CardinalityType, Zenon

LEMMA DiskBegins ==
    ASSUME SinkInv', stage' = "deliver", sink' = 0, picture' = 1, paths' = <<>>
    PROVE  DiskInv'
<1>1. paths' \in Seq(DOMAIN disk') /\ Len(paths') = 0 /\ DOMAIN paths' = {}
  BY EmptySeq
<1>2. Behind' = {}
  BY DEF Behind, SinkInv
<1>3. Cardinality(Files') \in Nat
  BY FilesFinite, Zenon DEF SinkInv, Files
<1>4. Cardinality((Files \cap Behind)') = 0
  <2>1. (Files \cap Behind)' = {}
    BY <1>2
  <2>2. QED
    BY <2>1, FS_EmptySet
<1>5. Counted'
  BY <1>1, <1>3, <1>4 DEF Counted
<1>6. NamedWritten' /\ DefaultWritten'
  BY <1>2 DEF NamedWritten, DefaultWritten
<1>7. QED
  BY <1>1, <1>5, <1>6 DEF DiskInv, Whole, Written

LEMMA BehindGrows ==
    ASSUME SinkInv, sink \in DOMAIN sinks, sink' = sink + 1, UNCHANGED sinks
    PROVE  /\ Files' = Files /\ Behind' = Behind \cup {sink} /\ sink \notin Behind
           /\ ~IsFile(sinks[sink]) => (Files \cap Behind)' = Files \cap Behind
           /\ IsFile(sinks[sink]) =>
                Cardinality((Files \cap Behind)') = Cardinality(Files \cap Behind) + 1
<1>1. Files' = Files
  BY DEF Files, FilesOf
<1>2. DOMAIN sinks \subseteq Nat
  BY DEF SinkInv
<1>3. Behind' = Behind \cup {sink} /\ sink \notin Behind
  BY <1>2 DEF Behind
<1>4. ASSUME ~IsFile(sinks[sink]) PROVE (Files \cap Behind)' = Files \cap Behind
  <2>1. sink \notin Files
    BY <1>4 DEF Files, FilesOf
  <2>2. QED
    BY <1>1, <1>3, <2>1
<1>5. ASSUME IsFile(sinks[sink])
      PROVE  Cardinality((Files \cap Behind)') = Cardinality(Files \cap Behind) + 1
  <2>1. sink \in Files
    BY <1>5 DEF Files, FilesOf
  <2>2. (Files \cap Behind)' = (Files \cap Behind) \cup {sink} /\ sink \notin Files \cap Behind
    BY <1>1, <1>3, <2>1
  <2>3. Files \cap Behind \in SUBSET Files
    OBVIOUS
  <2>4. IsFiniteSet(Files \cap Behind)
    BY <2>3, FilesFinite, Zenon DEF SinkInv, Files
  <2>5. QED
    BY <2>2, <2>4, FS_AddElement
<1>6. QED
  BY <1>1, <1>3, <1>4, <1>5

\* A copy to the clipboard, or a handshake that is over, leaves the files alone.
LEMMA DiskPassesBy ==
    ASSUME DiskInv, SinkInv, stage = "deliver", sink \in DOMAIN sinks, ~IsFile(sinks[sink]),
           sink' = sink + 1,
           UNCHANGED <<selection, sinks, targets, desktop, picture, paths, disk, stage>>
    PROVE  DiskInv'
<1>1. /\ UNCHANGED <<Files, Pictures>> /\ (\A n : NameOf(n)' = NameOf(n))
      /\ Delivering /\ ~Written'
  BY DEF Files, FilesOf, Pictures, NameOf, InOrder, FileName, Delivering, Written
<1>2. (Files \cap Behind)' = Files \cap Behind
  BY BehindGrows
<1>3. /\ Whole => Whole'
      /\ Counted => Counted'
      /\ \A path, n : Holds(disk', paths', path, n) = Holds(disk, paths, path, n)
  BY <1>1, <1>2 DEF Whole, Counted, Holds
<1>4. NamedWritten => NamedWritten'
  BY <1>1, <1>2, <1>3 DEF NamedWritten
<1>5. DefaultWritten => DefaultWritten'
  BY <1>1, <1>2, <1>3 DEF DefaultWritten
<1>6. QED
  BY <1>1, <1>3, <1>4, <1>5 DEF DiskInv

(***************************************************************************)
(* A file that is written does not overwrite one that is still to be       *)
(* listed as another picture: the paths of the template differ from        *)
(* output to output and from the paths that were named.                    *)
(***************************************************************************)
LEMMA DiskGrows ==
    ASSUME DiskInv, FlowInv, SinkInv, OwnInv, CopyInv, FileWritten
    PROVE  DiskInv'
<1>1. /\ stage = "deliver" /\ sink \in DOMAIN sinks /\ IsFile(sinks[sink])
      /\ disk' = Holding(Path, picture) /\ paths' = Append(paths, Path) /\ sink' = sink + 1
      /\ UNCHANGED <<selection, sinks, targets, desktop, picture, stage>>
  BY DEF FileWritten, AtSink, ordering, copying
<1>2. /\ UNCHANGED <<Files, Pictures>> /\ (\A n : NameOf(n)' = NameOf(n))
      /\ Delivering /\ ~Written'
  BY <1>1 DEF Files, FilesOf, Pictures, NameOf, InOrder, FileName, Delivering, Written
<1>3. /\ paths \in Seq(DOMAIN disk) /\ Whole /\ NamedWritten /\ DefaultWritten /\ Counted
      /\ picture \in 1..Pictures /\ picture \in Nat \ {0}
  BY <1>2 DEF DiskInv, FlowInv, OwnInv
<1>4. /\ DOMAIN disk' = DOMAIN disk \cup {Path}
      /\ disk'[Path] = picture
      /\ \A q \in DOMAIN disk : q # Path => disk'[q] = disk[q]
  BY <1>1 DEF Holding
<1>5. /\ paths' \in Seq(DOMAIN disk')
      /\ Len(paths') = Len(paths) + 1 /\ Len(paths) \in Nat
      /\ \A i \in DOMAIN paths' : \/ i \in DOMAIN paths /\ paths'[i] = paths[i]
                                 \/ paths'[i] = Path
      /\ Range(paths') = Range(paths) \cup {Path} /\ Range(paths) \subseteq DOMAIN disk
  <2>1. paths \in Seq(DOMAIN disk') /\ Path \in DOMAIN disk'
    <3>1. DOMAIN disk \subseteq DOMAIN disk'
      BY <1>4
    <3>2. QED
      BY <1>3, <1>4, <3>1
  <2>2. /\ paths' \in Seq(DOMAIN disk') /\ Len(paths') = Len(paths) + 1 /\ Len(paths) \in Nat
        /\ DOMAIN paths = 1..Len(paths) /\ DOMAIN paths' = 1..(Len(paths) + 1)
        /\ \A i \in 1..Len(paths) : paths'[i] = paths[i]
        /\ paths'[Len(paths) + 1] = Path
    BY <1>1, <2>1, AppendProperties, LenProperties
  <2>3. \A i \in DOMAIN paths : paths[i] \in DOMAIN disk
    BY <1>3, ElementOfSeq, LenProperties
  <2>4. Range(paths') = Range(paths) \cup {Path}
    BY <2>2 DEF Range
  <2>5. QED
    BY <2>2, <2>3, <2>4 DEF Range
<1>6. Holds(disk', paths', Path, picture)
  BY <1>1, <1>4, <1>5 DEF Holds
<1>7. ASSUME NEW q, NEW n, Holds(disk, paths, q, n), q # Path PROVE Holds(disk', paths', q, n)
  BY <1>4, <1>5, <1>7 DEF Holds
<1>8. /\ Behind' = Behind \cup {sink}
      /\ Cardinality((Files \cap Behind)') = Cardinality(Files \cap Behind) + 1
      /\ Cardinality(Files \cap Behind) \in Nat /\ Cardinality(Files) \in Nat
  <2>1. Files \in SUBSET Files /\ Files \cap Behind \in SUBSET Files
    OBVIOUS
  <2>2. QED
    BY <1>1, <2>1, BehindGrows, FilesFinite, Zenon DEF SinkInv, Files
<1>9. Whole'
  BY <1>1, <1>3, <1>4, <1>5 DEF Whole, Torn, Range
<1>10. Counted'
  BY <1>1, <1>2, <1>3, <1>5, <1>8 DEF Counted
<1>11. NamedWritten'
  <2> SUFFICES ASSUME NEW i \in Files, i \in Behind \/ i = sink, sinks[i].path # Unset
               PROVE  Holds(disk', paths', sinks[i].path, picture)
    BY <1>1, <1>2, <1>8, Zenon DEF NamedWritten
  <2>1. CASE sinks[i].path = Path
    BY <1>6, <2>1
  <2>2. CASE sinks[i].path # Path
    <3>1. i # sink
      BY <2>2 DEF Path, PathOf
    <3>2. Holds(disk, paths, sinks[i].path, picture)
      BY <1>3, <3>1 DEF NamedWritten
    <3>3. QED
      BY <1>7, <2>2, <3>2
  <2>3. QED
    BY <2>1, <2>2
<1>12. DefaultWritten'
  <2> SUFFICES ASSUME NEW i \in Files, sinks[i].path = Unset, NEW n \in 1..picture,
                      n < picture \/ i \in Behind \/ i = sink
               PROVE  Holds(disk', paths', NameOf(n), n)
    BY <1>1, <1>2, <1>8 DEF DefaultWritten
  <2>1. CASE n = picture /\ Path = NameOf(n)
    BY <1>6, <2>1
  <2>2. CASE n = picture /\ Path # NameOf(n)
    <3>1. i # sink
      BY <2>2 DEF Path, PathOf, NameOf, OutputName
    <3>2. Holds(disk, paths, NameOf(n), n)
      BY <1>3, <2>2, <3>1 DEF DefaultWritten
    <3>3. QED
      BY <1>7, <2>2, <3>2
  <2>3. CASE n # picture
    <3>1. Holds(disk, paths, NameOf(n), n)
      BY <1>3, <2>3 DEF DefaultWritten
    <3>2. n \in 1..Pictures /\ Pictures \in Nat
      BY <1>3, PicturesCount, <1>2 DEF FlowInv
    <3>3. NameOf(picture) # NameOf(n) /\ NameOf(n) \notin Paths
      BY <1>3, <2>3, <3>2, NamesDiffer
    <3>4. Path # NameOf(n)
      <4>1. CASE sinks[sink].path = Unset
        BY <3>3, <4>1 DEF Path, PathOf, NameOf, OutputName
      <4>2. CASE sinks[sink].path # Unset
        <5>1. sink \in Files /\ sink # i
          BY <1>1, <4>2 DEF Files, FilesOf
        <5>2. sinks[sink].path \in Paths
          BY <1>1, <4>2, <5>1 DEF FlowInv, AllGiven, OneFile, Files, FilesOf
        <5>3. QED
          BY <3>3, <4>2, <5>2 DEF Path, PathOf
      <4>3. QED
        BY <4>1, <4>2
    <3>5. QED
      BY <1>7, <3>1, <3>4
  <2>4. QED
    BY <2>1, <2>2, <2>3
<1>13. QED
  BY <1>2, <1>5, <1>9, <1>10, <1>11, <1>12 DEF DiskInv

\* When the last sink is behind, the next picture starts or the answer is given.
LEMMA DiskTurnsOver ==
    ASSUME DiskInv, FlowInv, SinkInv, SinkInv', OwnInv, CopyInv, PictureDone
    PROVE  DiskInv'
<1>1. /\ stage = "deliver" /\ sink > Len(sinks)
      /\ UNCHANGED <<selection, sinks, targets, desktop, paths, disk>>
  BY DEF PictureDone, ordering, copying
<1>2. /\ UNCHANGED <<Files, Pictures>> /\ (\A n : NameOf(n)' = NameOf(n)) /\ Delivering
  BY <1>1 DEF Files, FilesOf, Pictures, NameOf, InOrder, FileName, Delivering
<1>3. /\ paths \in Seq(DOMAIN disk) /\ Whole /\ NamedWritten /\ DefaultWritten /\ Counted
      /\ picture \in 1..Pictures /\ picture \in Nat \ {0} /\ Pictures \in Nat
  BY <1>2, PicturesCount DEF DiskInv, FlowInv, OwnInv
<1>4. Behind = DOMAIN sinks
  BY <1>1 DEF Behind, SinkInv, OwnInv
<1>5. Files \cap Behind = Files /\ Cardinality(Files) \in Nat
  <2>1. Files \subseteq DOMAIN sinks /\ Files \in SUBSET Files
    BY DEF Files, FilesOf
  <2>2. Cardinality(Files) \in Nat
    BY <2>1, FilesFinite, Zenon DEF SinkInv, Files
  <2>3. QED
    BY <1>4, <2>1, <2>2
<1>6. CASE picture < Pictures
  <2>1. picture' = picture + 1 /\ sink' = 0 /\ stage' = "deliver"
    BY <1>1, <1>6 DEF PictureDone
  <2>2. Behind' = {}
    BY <2>1 DEF Behind, SinkInv
  <2>3. Cardinality((Files \cap Behind)') = 0
    <3>1. (Files \cap Behind)' = {}
      BY <2>2
    <3>2. QED
      BY <3>1, FS_EmptySet
  <2>4. Counted'
    <3>1. Len(paths) = (picture - 1) * Cardinality(Files) + Cardinality(Files)
      BY <1>3, <1>5 DEF Counted
    <3>2. (picture - 1) * Cardinality(Files) + Cardinality(Files) = picture * Cardinality(Files)
      BY <1>3, <1>5
    <3>3. (picture + 1) - 1 = picture
      BY <1>3
    <3>4. QED
      BY <1>1, <1>2, <1>3, <1>5, <2>1, <2>3, <3>1, <3>2, <3>3 DEF Counted
  <2>5. Whole' /\ NamedWritten'
    BY <1>1, <1>3, <2>2 DEF Whole, NamedWritten
  <2>6. DefaultWritten'
    <3> SUFFICES ASSUME NEW i \in Files, sinks[i].path = Unset, NEW n \in 1..(picture + 1),
                        n < picture + 1
                 PROVE  Holds(disk, paths, NameOf(n), n)
      BY <1>1, <1>2, <2>1, <2>2 DEF DefaultWritten
    <3>1. n \in 1..picture /\ i \in Behind
      BY <1>3, <1>5
    <3>2. QED
      BY <1>3, <3>1 DEF DefaultWritten
  <2>7. ~Written'
    BY <2>1 DEF Written
  <2>8. QED
    BY <1>1, <1>3, <2>4, <2>5, <2>6, <2>7 DEF DiskInv
<1>7. CASE ~(picture < Pictures)
  <2>1. UNCHANGED <<picture, sink>> /\ result'.paths = paths
    BY <1>7 DEF PictureDone, Answer
  <2>2. UNCHANGED Behind
    BY <1>1, <2>1 DEF Behind
  <2>3. picture = Pictures
    BY <1>3, <1>7
  <2>4. Whole' /\ Counted' /\ NamedWritten' /\ DefaultWritten'
    <3>1. Whole' /\ Counted'
      BY <1>1, <1>2, <1>3, <2>1, <2>2 DEF Whole, Counted
    <3>2. NamedWritten'
      BY <1>1, <1>2, <1>3, <2>1, <2>2 DEF NamedWritten
    <3>3. DefaultWritten'
      BY <1>1, <1>2, <1>3, <2>1, <2>2 DEF DefaultWritten
    <3>4. QED
      BY <3>1, <3>2, <3>3
  <2>5. QED
    BY <1>1, <1>2, <1>3, <2>1, <2>3, <2>4 DEF DiskInv
<1>8. QED
  BY <1>6, <1>7

-----------------------------------------------------------------------------
LEMMA FailureKeepsFlow ==
    ASSUME FlowInv, CopyInv, OwnInv, SinkInv, stage = "deliver", DeliveryFails
    PROVE  FlowInv' /\ ~Delivering' /\ paths' = <<>>
<1> USE DEF FlowInv, Delivering, Written, DeliveryFails, ordering, copying
<1>1. CASE edit
  <2>1. selection.kind # "PerOutput" /\ picture \in 1..Pictures
    BY <1>1
  <2>2. picture = 1
    BY <2>1 DEF Pictures
  <2>3. QED
    BY <1>1, <2>1, <2>2 DEF Pictures, OneFile, AllGiven
<1>2. CASE ~edit
  BY <1>2 DEF Refuse, Answer, OneFile, AllGiven
<1>3. QED
  BY <1>1, <1>2

LEMMA FlowKept ==
    ASSUME FlowInv, CopyInv, CopyInv', OwnInv, SinkInv, [Next]_vars
    PROVE  FlowInv'
<1> USE DEF FlowInv, Delivering, Written, AllGiven, OneFile, ordering, delivery, clipboard, copying
<1>p. parent # "idle" => stage = "deliver" /\ sink \in 1..Len(sinks) /\ Len(sinks) \in Nat
  BY DEF SinkInv
<1>1. CASE SelectorAnswers
  <2>1. PICK o \in Outcomes : sinks' = ApplyOutputOverride(sinks, o.mode)
    BY <1>1 DEF SelectorAnswers
  <2>2. OneFile(sinks')
    BY <2>1, OverrideOneFile
  <2>3. QED
    BY <1>1, <1>p, <2>2 DEF SelectorAnswers
<1>2. CASE WindowManagerAnswers
  BY <1>2 DEF WindowManagerAnswers
<1>3. CASE ResolveFails \/ CountdownRefused \/ CaptureFails \/ EditorCloses
  BY <1>3 DEF ResolveFails, CountdownRefused, CaptureFails, EditorCloses, Refuse, Answer
<1>4. CASE Resolve \/ CountdownTicks
  BY <1>4 DEF Resolve, CountdownTicks, Refuse, Answer
<1>5. CASE CaptureStarts \/ CaptureGoesOn
  BY <1>5 DEF CaptureStarts, CaptureGoesOn
<1>6. CASE CaptureReturns
  <2>1. call' = "captured" /\ UNCHANGED <<selection, targets, sinks, edit, picture, paths>>
        /\ picture = 1 /\ paths = <<>> /\ stage' \in {"editing", "deliver"}
    BY <1>6 DEF CaptureReturns
  <2>2. Pictures' \in Nat /\ 1 <= Pictures'
    <3>1. Pictures \in Nat /\ 1 <= Pictures
      BY <1>6, PicturesCount DEF CaptureReturns
    <3>2. QED
      BY <2>1, <3>1 DEF Pictures
  <2>3. QED
    BY <1>6, <2>1, <2>2 DEF CaptureReturns
<1>7. CASE EditorSwitches
  BY <1>7 DEF EditorSwitches
<1>8. CASE EditorSaves
  <2>1. IsSwitch(switch) /\ edit /\ call = "captured" /\ picture = 1 /\ paths = <<>>
    BY <1>8 DEF EditorSaves, SinkInv
  <2>2. OneFile(sinks')
    BY <1>8, <2>1, ToSinksOneFile DEF EditorSaves
  <2>3. Pictures' \in Nat /\ 1 <= Pictures'
    <3>1. Pictures \in Nat /\ 1 <= Pictures
      BY <2>1, PicturesCount
    <3>2. QED
      BY <1>8, <3>1 DEF EditorSaves, Pictures
  <2>4. QED
    BY <1>8, <1>p, <2>1, <2>2, <2>3 DEF EditorSaves
<1>9. CASE SinksRefused \/ FileFails \/ CopyFails
  BY <1>9, FailureKeepsFlow DEF SinksRefused, FileFails, CopyFails, AtSink, AtClipboard
<1>h. ASSUME NEW ok \in BOOLEAN, parent # "idle", HandshakeOver(ok) PROVE FlowInv'
  <2>1. CASE ok
    BY <1>h, <2>1 DEF HandshakeOver, SinkInv, Pictures
  <2>2. CASE ~ok
    BY <1>h, <2>2, FailureKeepsFlow DEF HandshakeOver, SinkInv
  <2>3. QED
    BY <2>1, <2>2
<1>10. CASE /\ UNCHANGED <<copying, ordering, picture, paths, stage, result>>
            /\ parent' # "idle" => parent # "idle" /\ sink' = sink
  BY <1>10 DEF Pictures
<1>11. CASE FirstByteRead
  <2>1. CASE pipe # <<>> /\ Head(pipe) = 0
    BY <1>10, <1>11, <2>1 DEF FirstByteRead
  <2>2. CASE ~(pipe # <<>> /\ Head(pipe) = 0)
    BY <1>11, <1>h, <2>2 DEF FirstByteRead
  <2>3. QED
    BY <2>1, <2>2
<1>12. CASE GraceOver
  BY <1>12, <1>h DEF GraceOver
<1>13. CASE SinksBuilt \/ CopyInline \/ Fork \/ Returned \/ UNCHANGED vars
  <2>1. CASE Fork
    BY <2>1 DEF Fork, AtClipboard, Pictures
  <2>2. CASE ~Fork
    BY <1>10, <1>13, <1>p, <2>2 DEF SinksBuilt, CopyInline, AtClipboard, AtSink, Returned, vars
  <2>3. QED
    BY <2>1, <2>2
<1>14. CASE FileWritten
  BY <1>14 DEF FileWritten, AtSink, Pictures
<1>15. CASE PictureDone
  <2>1. Pictures \in Nat /\ picture \in 1..Pictures /\ UNCHANGED Pictures
    BY <1>15, PicturesCount DEF PictureDone, Pictures
  <2>2. CASE picture < Pictures
    BY <1>15, <1>p, <2>1, <2>2 DEF PictureDone
  <2>3. CASE ~(picture < Pictures)
    BY <1>15, <1>p, <2>1, <2>3 DEF PictureDone, Answer
  <2>4. QED
    BY <2>2, <2>3
<1>16. CASE (\E s \in DOMAIN servers : \/ HelperClaims(s) \/ HelperRefused(s)
                                      \/ ServeFails(s) \/ HelperKilled(s))
            \/ \E k \in DOMAIN owner : Overtaken(k)
  BY <1>10, <1>16 DEF HelperClaims, HelperRefused, ServeFails, HelperKilled, Overtaken, Unserved
<1>17. CASE Exit
  BY <1>17 DEF Exit, Pictures
<1>18. QED
  BY <1>1, <1>2, <1>3, <1>4, <1>5, <1>6, <1>7, <1>8, <1>9, <1>11, <1>12, <1>13, <1>14, <1>15,
     <1>16, <1>17 DEF Next

LEMMA DiskKept ==
    ASSUME DiskInv, FlowInv, CopyInv, OwnInv, SinkInv, SinkInv', [Next]_vars
    PROVE  DiskInv'
<1> USE DEF Delivering, Written, ordering, delivery, clipboard, copying
<1>f. ASSUME DeliveryFails, stage = "deliver" PROVE DiskInv'
  BY <1>f, FailureKeepsFlow, DiskIdle
<1>1. CASE SelectorAnswers \/ WindowManagerAnswers
  BY <1>1, DiskIdle DEF SelectorAnswers, WindowManagerAnswers
<1>2. CASE ResolveFails \/ CountdownRefused \/ CaptureFails \/ EditorCloses
  BY <1>2, DiskIdle DEF ResolveFails, CountdownRefused, CaptureFails, EditorCloses, Refuse, Answer
<1>3. CASE Resolve \/ CountdownTicks
  BY <1>3, DiskIdle DEF Resolve, CountdownTicks, Refuse, Answer
<1>4. CASE CaptureStarts \/ CaptureGoesOn \/ EditorSwitches
  BY <1>4, DiskIdle DEF CaptureStarts, CaptureGoesOn, EditorSwitches
<1>5. CASE CaptureReturns
  <2>1. UNCHANGED <<picture, sink, paths, disk>> /\ picture = 1 /\ paths = <<>> /\ sink = 0
    BY <1>5 DEF CaptureReturns, FlowInv, SinkInv
  <2>2. CASE edit
    BY <1>5, <2>1, <2>2, DiskIdle DEF CaptureReturns
  <2>3. CASE ~edit
    BY <1>5, <2>1, <2>3, DiskBegins DEF CaptureReturns
  <2>4. QED
    BY <2>2, <2>3
<1>6. CASE EditorSaves
  <2>1. picture = 1 /\ paths = <<>> /\ sink = 0
    BY <1>6 DEF EditorSaves, FlowInv, SinkInv
  <2>2. QED
    BY <1>6, <2>1, DiskBegins DEF EditorSaves
<1>7. CASE SinksBuilt
  <2>1. stage = "deliver" /\ stage' = "deliver" /\ UNCHANGED <<selection, sinks, targets,
            desktop, picture, paths, disk>> /\ sink = 0 /\ sink' = 1
    BY <1>7 DEF SinksBuilt
  <2>2. UNCHANGED <<Behind, Files, Pictures>> /\ (\A n : NameOf(n)' = NameOf(n))
    BY <2>1 DEF Behind, SinkInv, Files, FilesOf, Pictures, NameOf, InOrder, FileName
  <2>3. /\ Whole => Whole'
        /\ Counted => Counted'
        /\ \A path, n : Holds(disk', paths', path, n) = Holds(disk, paths, path, n)
    BY <2>1, <2>2 DEF Whole, Counted, Holds
  <2>4. NamedWritten => NamedWritten'
    BY <2>1, <2>2, <2>3 DEF NamedWritten
  <2>5. DefaultWritten => DefaultWritten'
    BY <2>1, <2>2, <2>3 DEF DefaultWritten
  <2>6. QED
    BY <2>1, <2>2, <2>3, <2>4, <2>5 DEF DiskInv
<1>8. CASE SinksRefused \/ FileFails \/ CopyFails
  BY <1>8, <1>f DEF SinksRefused, FileFails, CopyFails, AtSink, AtClipboard
<1>9. CASE FileWritten
  BY <1>9, DiskGrows
<1>10. CASE PictureDone
  BY <1>10, DiskTurnsOver
<1>11. CASE CopyInline
  <2>1. ~IsFile(sinks[sink])
    BY <1>11 DEF CopyInline, AtClipboard, IsFile, IsClipboard
  <2>2. QED
    BY <1>11, <2>1, DiskPassesBy DEF CopyInline, AtClipboard, AtSink
<1>12. CASE UNCHANGED <<selection, sinks, targets, desktop, picture, sink, paths, disk, stage,
                       result>>
  BY <1>12, DiskStutters
<1>13. CASE Fork \/ Returned \/ UNCHANGED vars
  BY <1>12, <1>13 DEF Fork, Returned, vars
<1>14. CASE FirstByteRead
  <2>1. CASE pipe # <<>> /\ Head(pipe) = 0
    BY <1>12, <1>14, <2>1 DEF FirstByteRead
  <2>2. CASE ~(pipe # <<>> /\ Head(pipe) = 0)
    BY <1>14, <1>f, <2>2 DEF FirstByteRead, HandshakeOver, SinkInv
  <2>3. QED
    BY <2>1, <2>2
<1>15. CASE GraceOver
  <2>1. stage = "deliver" /\ sink \in DOMAIN sinks /\ ~IsFile(sinks[sink])
    BY <1>15 DEF GraceOver, SinkInv, FlowInv, IsClipboard, IsFile
  <2>2. QED
    BY <1>15, <1>f, <2>1, DiskPassesBy DEF GraceOver, HandshakeOver
<1>16. CASE (\E s \in DOMAIN servers : \/ HelperClaims(s) \/ HelperRefused(s)
                                      \/ ServeFails(s) \/ HelperKilled(s))
            \/ \E k \in DOMAIN owner : Overtaken(k)
  BY <1>12, <1>16 DEF HelperClaims, HelperRefused, ServeFails, HelperKilled, Overtaken, Unserved
<1>17. CASE Exit
  BY <1>17, DiskStutters DEF Exit
<1>18. QED
  BY <1>1, <1>2, <1>3, <1>4, <1>5, <1>6, <1>7, <1>8, <1>9, <1>10, <1>11, <1>13, <1>14, <1>15,
     <1>16, <1>17 DEF Next

LEMMA SuccessInv ==
    ASSUME DiskInv, FlowInv, SinkInv, OwnInv, CopyInv
    PROVE  SuccessIsComplete
<1> DEFINE Kept(i) ==
        LET named == sinks[i].path # Unset
        IN /\ named => sinks[i].path \in Range(paths)
           /\ ~named \/ Pictures = 1 =>
                \A n \in 1..Pictures :
                    \E path \in Range(paths) :
                        disk[path] = n /\ (named => path = sinks[i].path)
<1> SUFFICES ASSUME Written
             PROVE  /\ Len(paths) = Pictures * Cardinality(Files)
                    /\ \A i \in DOMAIN paths : paths[i] \in DOMAIN disk /\ disk[paths[i]] # Torn
                    /\ \A i \in Files : Kept(i)
  <2>1. Written => result.paths = paths
    BY DEF DiskInv
  <2>2. QED
    BY <2>1 DEF SuccessIsComplete, Written, Files, FilesOf
<1>1. /\ paths \in Seq(DOMAIN disk) /\ Whole /\ NamedWritten /\ DefaultWritten /\ Counted
      /\ sink > Len(sinks) /\ picture = Pictures
  BY DEF DiskInv, Delivering
<1>2. Pictures \in Nat /\ 1 <= Pictures
  BY PicturesCount DEF FlowInv, Delivering
<1>3. Files \cap Behind = Files
  BY <1>1 DEF Behind, SinkInv, OwnInv, Files, FilesOf
<1>4. Len(paths) = Pictures * Cardinality(Files)
  <2>1. Files \in SUBSET Files
    OBVIOUS
  <2>2. Cardinality(Files) \in Nat
    BY <2>1, FilesFinite, Zenon DEF SinkInv, Files
  <2>3. Len(paths) = (Pictures - 1) * Cardinality(Files) + Cardinality(Files)
    BY <1>1, <1>3 DEF Counted
  <2>4. QED
    BY <1>2, <2>2, <2>3
<1>5. \A i \in DOMAIN paths : paths[i] \in DOMAIN disk /\ disk[paths[i]] # Torn
  <2>1. \A i \in DOMAIN paths : paths[i] \in DOMAIN disk
    BY <1>1, ElementOfSeq, LenProperties
  <2>2. QED
    BY <1>1, <2>1 DEF Whole
<1>6. ASSUME NEW i \in Files, sinks[i].path # Unset
      PROVE  sinks[i].path \in Range(paths) /\ disk[sinks[i].path] = Pictures
  BY <1>1, <1>3, <1>6 DEF NamedWritten, Holds
<1>7. ASSUME NEW i \in Files, sinks[i].path = Unset, NEW n \in 1..Pictures
      PROVE  NameOf(n) \in Range(paths) /\ disk[NameOf(n)] = n
  BY <1>1, <1>3, <1>7 DEF DefaultWritten, Holds
<1>8. ASSUME NEW i \in Files PROVE Kept(i)
  <2>1. CASE sinks[i].path # Unset
    <3>1. sinks[i].path \in Range(paths) /\ disk[sinks[i].path] = Pictures
      BY <1>6, <2>1
    <3>2. ASSUME Pictures = 1, NEW n \in 1..Pictures PROVE n = Pictures
      BY <3>2
    <3>3. QED
      BY <2>1, <3>1, <3>2
  <2>2. CASE sinks[i].path = Unset
    BY <1>7, <2>2
  <2>3. QED
    BY <2>1, <2>2
<1>9. QED
  BY <1>4, <1>5, <1>8

LEMMA DeliveryBegins == Init => FlowInv /\ DiskInv
<1> SUFFICES ASSUME Init PROVE FlowInv /\ DiskInv
  OBVIOUS
<1>1. stage = "resolve" /\ picture = 1 /\ paths = <<>> /\ parent = "idle" /\ AllGiven(sinks)
  BY EffectiveGiven DEF Init
<1>2. FlowInv
  BY <1>1 DEF FlowInv, Delivering, Written
<1>3. DiskInv
  BY <1>1, EmptySeq DEF DiskInv, Delivering, Written
<1>4. QED
  BY <1>2, <1>3

(***************************************************************************)
(* Nothing is missing behind an answer of success, for any desktop and any *)
(* list of sinks: every file sink of every picture is listed and whole,    *)
(* and every picture is in a file - by default name under one of its own,  *)
(* or, if it is the only one, at the path that was named                   *)
(* (Outputs::write_png).                                                   *)
(***************************************************************************)
THEOREM SuccessSafe == Spec => []SuccessIsComplete
<1> DEFINE Inv == Typed /\ FlowInv /\ DiskInv
<1>1. Init => Inv
  BY TypedBegins, DeliveryBegins
<1>2. Inv /\ [Next]_vars => Inv'
  <2> SUFFICES ASSUME Inv, [Next]_vars PROVE Inv'
    OBVIOUS
  <2>1. Typed'
    BY TypedKept
  <2>2. QED
    BY <2>1, FlowKept, DiskKept DEF Typed
<1>3. Inv => SuccessIsComplete
  BY SuccessInv DEF Typed
<1>4. QED
  BY <1>1, <1>2, <1>3, PTL DEF Spec

-----------------------------------------------------------------------------
(***************************************************************************)
(* The clipboard's servers: only the last helper can still be starting,    *)
(* while its parent waits for its first byte, and who owns a selection     *)
(* serves it.                                                              *)
(***************************************************************************)
Latter == servers[Len(servers)]

ServerInv ==
    /\ \A s \in DOMAIN servers : servers[s].by = Strategy
    /\ \A s \in DOMAIN servers : servers[s].state = "preparing" =>
            s = Len(servers) /\ parent = "first" /\ pipe = <<>>
    /\ \A k \in DOMAIN owner : owner[k] # Nobody => servers[owner[k]].state = "serving"
    /\ parent # "idle" =>
            Len(servers) # 0 /\ Latter.picture = picture /\ Latter.holds = Held

(***************************************************************************)
(* What the bytes mean while nothing has disturbed the clipboard: a parent *)
(* that may still hear of success waits for a helper that owns what it was *)
(* to claim, or one that has not started yet.                              *)
(***************************************************************************)
Claimed == \A k \in Held : owner[k] = Len(servers)

Gone == Latter.state = "gone"

FirstInv ==
    \/ Latter.state = "preparing"
    \/ pipe = <<0>> /\ Claimed
    \/ Gone /\ pipe \in {<<>>, <<1>>, <<0, 1>>}

GraceInv ==
    \/ pipe = <<>> /\ Claimed
    \/ Gone /\ pipe = <<1>>

HandshakeInv ==
    ~disturbed => /\ parent = "first" => FirstInv
                  /\ parent = "grace" => GraceInv

Hopeful ==
    \/ parent = "idle"
    \/ parent = "first" /\ (Latter.state = "preparing" \/ pipe = <<0>>)
    \/ parent = "grace" /\ pipe = <<>>

Shown(k) == owner[k] # Nobody /\ servers[owner[k]].picture = picture

Copied ==
    \A i \in DOMAIN sinks : i < sink /\ IsClipboard(sinks[i]) =>
        \A k \in SelectionsOf(TargetOf(sinks[i])) : Shown(k)

CopiesInv == ~disturbed /\ Hopeful => Copied

HelperInv == ServerInv /\ HandshakeInv /\ CopiesInv

LEMMA StateOnly ==
    ASSUME NEW v \in Servers, NEW st \in {"preparing", "serving", "gone"}
    PROVE  LET w == [v EXCEPT !.state = st]
           IN w.by = v.by /\ w.picture = v.picture /\ w.holds = v.holds /\ w.state = st
  BY DEF Servers

LEMMA SelectionsAreTwo == \A kind : SelectionsOf(kind) \subseteq {"Regular", "Primary"}
  BY DEF SelectionsOf

\* A step that leaves the clipboard alone.
LEMMA HelperStutters ==
    ASSUME HelperInv, UNCHANGED <<request, servers, owner, pipe, parent, disturbed>>,
           UNCHANGED <<sinks, sink, picture>> \/ (parent = "idle" /\ Copied')
    PROVE  HelperInv'
<1>1. UNCHANGED <<Strategy, Latter, Gone>>
  BY DEF Strategy, Latter, Gone
<1>2. parent # "idle" => UNCHANGED <<Held, picture>> /\ (Claimed => Claimed')
  BY DEF Held, Claimed
<1>3. ServerInv'
  BY <1>1, <1>2 DEF HelperInv, ServerInv
<1>4. HandshakeInv'
  BY <1>1, <1>2 DEF HelperInv, HandshakeInv, FirstInv, GraceInv
<1>5. CopiesInv'
  <2>1. Hopeful' => Hopeful
    BY <1>1 DEF Hopeful
  <2>2. UNCHANGED <<sinks, sink, picture>> => (Copied => Copied')
    BY DEF Copied, Shown
  <2>3. QED
    BY <2>1, <2>2 DEF HelperInv, CopiesInv
<1>6. QED
  BY <1>3, <1>4, <1>5 DEF HelperInv

\* Before the first sink, and when only files were written, nothing is owed.
LEMMA NothingCopied ==
    ASSUME SinkInv', sink' \in {0, 1}
    PROVE  Copied'
  BY DEF Copied, SinkInv

LEMMA FileCopiesNothing ==
    ASSUME HelperInv, SinkInv, OwnInv, FileWritten
    PROVE  HelperInv'
<1>1. /\ parent = "idle" /\ sink \in 1..Len(sinks) /\ Len(sinks) \in Nat
      /\ DOMAIN sinks = 1..Len(sinks) /\ IsFile(sinks[sink]) /\ sink' = sink + 1
      /\ UNCHANGED <<request, sinks, picture, servers, owner, pipe, parent, disturbed>>
  BY DEF FileWritten, AtSink, SinkInv, ordering, clipboard
<1>2. ~disturbed => Copied
  BY <1>1 DEF HelperInv, CopiesInv, Hopeful
<1>3. ~IsClipboard(sinks[sink])
  BY <1>1 DEF IsFile, IsClipboard
<1>4. Copied => Copied'
  BY <1>1, <1>3 DEF Copied, Shown
<1>5. CASE disturbed
  BY <1>1, <1>5 DEF HelperInv, ServerInv, HandshakeInv, CopiesInv, Strategy, Latter
<1>6. CASE ~disturbed
  BY <1>1, <1>2, <1>4, <1>6, HelperStutters
<1>7. QED
  BY <1>5, <1>6

\* A delivery that failed is over: nobody waits, and no sink is behind.
LEMMA FailureKeepsHelpers ==
    ASSUME HelperInv, SinkInv', DeliveryFails, UNCHANGED <<servers, owner, disturbed>>,
           \A s \in DOMAIN servers : servers[s].state # "preparing"
    PROVE  HelperInv'
<1>1. parent' = "idle" /\ sink' = 0 /\ UNCHANGED <<request, servers, owner, disturbed>>
  BY DEF DeliveryFails, ordering
<1>2. Copied'
  BY <1>1, NothingCopied
<1>3. QED
  BY <1>1, <1>2 DEF HelperInv, ServerInv, HandshakeInv, CopiesInv, Strategy

LEMMA FirstByteKeeps ==
    ASSUME HelperInv, SinkInv', ClipInv, FirstByteRead
    PROVE  HelperInv'
<1>1. /\ parent = "first" /\ (pipe # <<>> \/ Gone)
      /\ UNCHANGED <<disk, servers, owner, disturbed>>
  BY DEF FirstByteRead, Gone, Latter
<1>2. \A s \in DOMAIN servers : servers[s].state # "preparing"
  BY <1>1 DEF HelperInv, ServerInv, Gone, Latter
<1>3. CASE ~(pipe # <<>> /\ Head(pipe) = 0)
  BY <1>1, <1>2, <1>3, FailureKeepsHelpers DEF FirstByteRead, HandshakeOver
<1>4. CASE pipe # <<>> /\ Head(pipe) = 0
  <2>1. /\ parent' = "grace" /\ pipe' = Tail(pipe)
        /\ UNCHANGED <<request, sinks, sink, picture, servers, owner, disturbed>>
    BY <1>1, <1>4 DEF FirstByteRead, ordering
  <2>2. UNCHANGED <<Strategy, Latter, Gone, Held>> /\ (Claimed => Claimed') /\ (Copied => Copied')
    BY <2>1 DEF Strategy, Latter, Gone, Held, Claimed, Copied, Shown
  <2>3. ServerInv'
    BY <1>1, <1>2, <2>1, <2>2 DEF HelperInv, ServerInv
  <2>4. ASSUME ~disturbed
        PROVE  \/ pipe = <<0>> /\ Claimed /\ pipe' = <<>>
               \/ Gone /\ pipe = <<0, 1>> /\ pipe' = <<1>>
    <3>1. FirstInv /\ (Len(servers) # 0 => Latter.state # "preparing")
      BY <1>1, <1>2, <2>4 DEF HelperInv, HandshakeInv, ClipInv, Latter
    <3>2. Latter.state # "preparing"
      BY <1>1, <3>1 DEF HelperInv, ServerInv
    <3>3. /\ Head(<<1>>) = 1 /\ Head(<<0, 1>>) = 0 /\ Tail(<<0>>) = <<>>
          /\ Tail(<<0, 1>>) = <<1>>
      OBVIOUS
    <3>4. CASE pipe = <<0>> /\ Claimed
      BY <2>1, <3>3, <3>4
    <3>5. CASE Gone /\ pipe \in {<<>>, <<1>>, <<0, 1>>}
      <4>1. pipe # <<>> /\ pipe # <<1>>
        BY <1>4, <3>3
      <4>2. QED
        BY <2>1, <3>3, <3>5, <4>1
    <3>6. QED
      BY <3>1, <3>2, <3>4, <3>5 DEF FirstInv
  <2>5. HandshakeInv'
    BY <2>1, <2>2, <2>4 DEF HandshakeInv, GraceInv
  <2>6. CopiesInv'
    <3> SUFFICES ASSUME ~disturbed, pipe' = <<>> PROVE Copied'
      BY <2>1 DEF CopiesInv, Hopeful
    <3>1. pipe = <<0>>
      BY <2>4
    <3>2. QED
      BY <1>1, <2>2, <3>1 DEF HelperInv, CopiesInv, Hopeful
  <2>7. QED
    BY <2>3, <2>5, <2>6 DEF HelperInv
<1>5. QED
  BY <1>3, <1>4

LEMMA GraceKeeps ==
    ASSUME HelperInv, SinkInv, SinkInv', OwnInv, ClipInv, GraceOver
    PROVE  HelperInv'
<1>1. parent = "grace" /\ UNCHANGED <<disk, servers, owner, disturbed>>
  BY DEF GraceOver
<1>2. \A s \in DOMAIN servers : servers[s].state # "preparing"
  BY <1>1 DEF HelperInv, ServerInv
<1>3. CASE ~(pipe = <<>> \/ Head(pipe) = 0)
  BY <1>1, <1>2, <1>3, FailureKeepsHelpers DEF GraceOver, HandshakeOver
<1>4. CASE pipe = <<>> \/ Head(pipe) = 0
  <2>1. /\ parent' = "idle" /\ sink' = sink + 1
        /\ UNCHANGED <<request, sinks, picture, servers, owner, disturbed>>
    BY <1>1, <1>4 DEF GraceOver, HandshakeOver, ordering
  <2>2. ServerInv'
    BY <1>2, <2>1 DEF HelperInv, ServerInv, Strategy
  <2>3. ASSUME ~disturbed PROVE Copied'
    <3>1. pipe = <<>> /\ Claimed
      <4>1. Head(<<1>>) = 1
        OBVIOUS
      <4>2. GraceInv
        BY <1>1, <2>3 DEF HelperInv, HandshakeInv
      <4>3. QED
        BY <1>4, <4>1, <4>2 DEF GraceInv
    <3>2. Copied
      BY <1>1, <2>3, <3>1 DEF HelperInv, CopiesInv, Hopeful
    <3>3. Len(servers) # 0 /\ servers[Len(servers)].picture = picture
      BY <1>1 DEF HelperInv, ServerInv, Latter
    <3>4. \A k \in SelectionsOf(TargetOf(sinks[sink])) : Shown(k)
      BY <3>1, <3>3 DEF Claimed, Held, Shown, Nobody
    <3>5. DOMAIN sinks \subseteq Nat /\ sink \in Nat
      BY <1>1 DEF SinkInv
    <3>6. ASSUME NEW i \in DOMAIN sinks, i < sink + 1, IsClipboard(sinks[i]),
                 NEW k \in SelectionsOf(TargetOf(sinks[i]))
          PROVE  Shown(k)
      <4>1. i = sink \/ i < sink
        BY <3>5, <3>6
      <4>2. QED
        BY <3>2, <3>4, <3>6, <4>1 DEF Copied
    <3>7. QED
      BY <2>1, <3>6 DEF Copied, Shown
  <2>4. QED
    BY <2>1, <2>2, <2>3 DEF HelperInv, HandshakeInv, CopiesInv
<1>5. QED
  BY <1>3, <1>4

LEMMA ForkKeeps ==
    ASSUME HelperInv, SinkInv, OwnInv, ClipInv, Fork
    PROVE  HelperInv'
<1> DEFINE new == [by |-> "Fork", picture |-> picture, holds |-> Held, state |-> "preparing"]
           n == Len(servers)
<1>1. /\ parent = "idle" /\ Strategy = "Fork" /\ servers' = Append(servers, new)
      /\ parent' = "first" /\ pipe' = <<>>
      /\ UNCHANGED <<request, sinks, sink, picture, owner, disturbed>>
  BY DEF Fork, AtClipboard, AtSink, ordering, delivery
<1>2. /\ n \in Nat /\ Len(servers') = n + 1 /\ servers'[n + 1] = new
      /\ DOMAIN servers' = 1..(n + 1) /\ DOMAIN servers = 1..n
      /\ \A i \in 1..n : servers'[i] = servers[i]
  <2>1. new \in Servers
    BY SelectionsAreTwo DEF Servers, Held, OwnInv
  <2> HIDE DEF new
  <2>2. QED
    BY <1>1, <2>1, AppendProperties, LenProperties DEF ClipInv
<1>3. \A i \in 1..n : servers[i].state # "preparing"
  BY <1>1, <1>2 DEF HelperInv, ServerInv
<1>4. UNCHANGED <<Strategy, Held>> /\ Latter' = new
  BY <1>1, <1>2 DEF Strategy, Held, Latter
<1>5. \A k \in DOMAIN owner : owner[k] # Nobody => owner[k] \in 1..n
  BY <1>2 DEF ClipInv, Nobody
<1>6. ServerInv'
  <2>1. \A s \in 1..(n + 1) : s = n + 1 \/ s \in 1..n
    BY <1>2
  <2>2. \A s \in DOMAIN servers' : servers'[s].by = Strategy
    BY <1>1, <1>2, <2>1 DEF HelperInv, ServerInv
  <2>3. \A s \in DOMAIN servers' : servers'[s].state = "preparing" => s = n + 1
    BY <1>2, <1>3, <2>1
  <2>4. \A k \in DOMAIN owner : owner[k] # Nobody => servers'[owner[k]].state = "serving"
    BY <1>2, <1>5 DEF HelperInv, ServerInv
  <2>5. Len(servers') # 0 /\ Latter'.picture = picture' /\ Latter'.holds = Held'
    BY <1>1, <1>2, <1>4
  <2>6. QED
    BY <1>1, <1>2, <1>4, <2>2, <2>3, <2>4, <2>5 DEF ServerInv
<1>7. HandshakeInv'
  BY <1>1, <1>4 DEF HandshakeInv, FirstInv
<1>8. CopiesInv'
  <2>1. ~disturbed => Copied
    BY <1>1 DEF HelperInv, CopiesInv, Hopeful
  <2>2. \A k \in {"Regular", "Primary"} : Shown(k) => Shown(k)'
    BY <1>1, <1>2, <1>5 DEF Shown, ClipInv
  <2>3. Copied => Copied'
    BY <1>1, <2>2, SelectionsAreTwo DEF Copied
  <2>4. QED
    BY <1>1, <2>1, <2>3 DEF CopiesInv
<1>9. QED
  BY <1>6, <1>7, <1>8 DEF HelperInv

\* Taking selections only ends servers that are left with none.
LEMMA ClaimResult ==
    ASSUME ClipInv, NEW all \in Seq(Servers), Len(servers) <= Len(all),
           NEW s \in 0..Len(all), NEW ss, Claim(s, ss, all)
    PROVE  /\ Len(servers') = Len(all) /\ DOMAIN servers' = 1..Len(all)
           /\ \A i \in 1..Len(all) :
                /\ servers'[i].by = all[i].by /\ servers'[i].picture = all[i].picture
                /\ servers'[i].holds = all[i].holds
                /\ \/ servers'[i].state = all[i].state
                   \/ /\ all[i].state = "serving" /\ servers'[i].state = "gone"
                      /\ \A k \in DOMAIN owner : owner'[k] # i
           /\ DOMAIN owner' = {"Regular", "Primary"} /\ DOMAIN owner = {"Regular", "Primary"}
           /\ \A k \in DOMAIN owner : owner'[k] = IF k \in ss THEN s ELSE owner[k]
           /\ \A k \in DOMAIN owner : owner'[k] \in 0..Len(all) /\ owner[k] \in 0..Len(servers)
<1>1. Len(servers') = Len(all) /\ servers' \in Seq(Servers)
  BY ClaimTypes, Zenon
<1>2. DOMAIN servers' = 1..Len(all) /\ DOMAIN all = 1..Len(all)
  BY <1>1, LenProperties
<1>3. ASSUME NEW i \in 1..Len(all)
      PROVE  /\ servers'[i].by = all[i].by /\ servers'[i].picture = all[i].picture
             /\ servers'[i].holds = all[i].holds
             /\ \/ servers'[i].state = all[i].state
                \/ /\ all[i].state = "serving" /\ servers'[i].state = "gone"
                   /\ \A k \in DOMAIN owner : owner'[k] # i
  <2>1. all[i] \in Servers
    BY ElementOfSeq
  <2>2. servers'[i] = IF all[i].state = "serving" /\ \A k \in DOMAIN owner : owner'[k] # i
                      THEN [all[i] EXCEPT !.state = "gone"] ELSE all[i]
    BY <1>2 DEF Claim
  <2>3. LET w == [all[i] EXCEPT !.state = "gone"]
        IN /\ w.by = all[i].by /\ w.picture = all[i].picture /\ w.holds = all[i].holds
           /\ w.state = "gone"
    BY <2>1, StateOnly
  <2>4. QED
    BY <2>2, <2>3
<1>4. /\ DOMAIN owner' = {"Regular", "Primary"} /\ DOMAIN owner = {"Regular", "Primary"}
      /\ \A k \in DOMAIN owner : owner'[k] = IF k \in ss THEN s ELSE owner[k]
  BY DEF Claim, ClipInv
<1>5. \A k \in DOMAIN owner : owner'[k] \in 0..Len(all) /\ owner[k] \in 0..Len(servers)
  <2>1. \A k \in DOMAIN owner : owner[k] \in 0..Len(servers)
    BY DEF ClipInv
  <2>2. Len(servers) \in Nat /\ Len(all) \in Nat
    BY LenProperties DEF ClipInv
  <2>3. QED
    BY <1>4, <2>1, <2>2
<1>6. QED
  BY <1>1, <1>2, <1>3, <1>4, <1>5

LEMMA StateResult ==
    ASSUME ClipInv, NEW s \in DOMAIN servers, NEW st \in {"preparing", "serving", "gone"}
    PROVE  LET all == [servers EXCEPT ![s].state = st]
           IN /\ all \in Seq(Servers) /\ Len(all) = Len(servers) /\ Len(servers) \in Nat
              /\ DOMAIN all = 1..Len(servers) /\ DOMAIN servers = 1..Len(servers)
              /\ all[s].by = servers[s].by /\ all[s].picture = servers[s].picture
              /\ all[s].holds = servers[s].holds /\ all[s].state = st
              /\ \A i \in 1..Len(servers) : i # s => all[i] = servers[i]
<1> DEFINE all == [servers EXCEPT ![s].state = st]
<1>1. all \in Seq(Servers) /\ Len(all) = Len(servers)
  BY ServerType, Zenon
<1>2. Len(servers) \in Nat /\ DOMAIN servers = 1..Len(servers)
  BY LenProperties DEF ClipInv
<1>3. servers[s] \in Servers
  BY <1>2, ElementOfSeq DEF ClipInv
<1>4. DOMAIN all = 1..Len(servers) /\ all[s] = [servers[s] EXCEPT !.state = st]
      /\ \A i \in 1..Len(servers) : i # s => all[i] = servers[i]
  BY <1>2
<1>5. LET w == [servers[s] EXCEPT !.state = st]
      IN /\ w.by = servers[s].by /\ w.picture = servers[s].picture
         /\ w.holds = servers[s].holds /\ w.state = st
  BY <1>3, StateOnly
<1> HIDE DEF all
<1>6. QED
  BY <1>1, <1>2, <1>4, <1>5 DEF all

\* A helper that ends leaves its selections to nobody.
LEMMA EndingKeeps ==
    ASSUME HelperInv, ClipInv, NEW s \in DOMAIN servers,
           servers' = [servers EXCEPT ![s].state = "gone"], owner' = Without(s),
           UNCHANGED <<request, sinks, sink, picture, parent>>,
           pipe' = pipe \/ s = Len(servers),
           ~disturbed' =>
                /\ s = Len(servers)
                /\ \/ parent = "first" /\ pipe' \in {<<>>, << 1 >>, <<0, 1>>}
                   \/ parent = "grace" /\ pipe' = << 1 >>
    PROVE  HelperInv'
<1>1. /\ Len(servers') = Len(servers) /\ Len(servers) \in Nat
      /\ DOMAIN servers' = 1..Len(servers) /\ DOMAIN servers = 1..Len(servers)
      /\ servers'[s].by = servers[s].by /\ servers'[s].picture = servers[s].picture
      /\ servers'[s].holds = servers[s].holds /\ servers'[s].state = "gone"
      /\ \A i \in 1..Len(servers) : i # s => servers'[i] = servers[i]
  <2>1. "gone" \in {"preparing", "serving", "gone"}
    OBVIOUS
  <2>2. QED
    BY <2>1, StateResult, Zenon
<1>2. \A k \in DOMAIN owner' : k \in DOMAIN owner
        /\ (owner'[k] # Nobody => owner'[k] = owner[k] /\ owner[k] # s /\ owner[k] \in 1..Len(servers))
  BY <1>1 DEF Without, Nobody, ClipInv
<1>3. UNCHANGED <<Strategy, Held>>
  BY DEF Strategy, Held
<1>4. ServerInv'
  <2>1. \A t \in DOMAIN servers' : servers'[t].by = Strategy
    BY <1>1 DEF HelperInv, ServerInv
  <2>2. \A t \in DOMAIN servers' : servers'[t].state = "preparing" =>
            t = Len(servers') /\ parent' = "first" /\ pipe' = <<>>
    BY <1>1 DEF HelperInv, ServerInv
  <2>3. \A k \in DOMAIN owner' : owner'[k] # Nobody => servers'[owner'[k]].state = "serving"
    BY <1>1, <1>2 DEF HelperInv, ServerInv
  <2>4. parent' # "idle" =>
            Len(servers') # 0 /\ Latter'.picture = picture' /\ Latter'.holds = Held'
    BY <1>1, <1>3 DEF HelperInv, ServerInv, Latter
  <2>5. QED
    BY <1>3, <2>1, <2>2, <2>3, <2>4 DEF ServerInv
<1>5. ~disturbed' => Gone'
  BY <1>1 DEF Gone, Latter
<1>6. HandshakeInv'
  BY <1>5 DEF HandshakeInv, FirstInv, GraceInv
<1>7. CopiesInv'
  <2>1. <<>> # <<0>> /\ <<1>> # <<0>> /\ <<0, 1>> # <<0>> /\ <<1>> # <<>>
    OBVIOUS
  <2>2. ~disturbed' => ~Hopeful'
    BY <1>5, <2>1 DEF Hopeful, Gone
  <2>3. QED
    BY <2>2 DEF CopiesInv
<1>8. QED
  BY <1>4, <1>6, <1>7 DEF HelperInv

LEMMA RefusedKeeps ==
    ASSUME HelperInv, ClipInv, NEW s \in DOMAIN servers, HelperRefused(s)
    PROVE  HelperInv'
<1>1. servers[s].state = "preparing" /\ s = Len(servers) /\ parent = "first" /\ pipe = <<>>
  BY DEF HelperRefused, HelperInv, ServerInv
<1>2. owner' = Without(s)
  <2>1. owner' = owner
    BY DEF HelperRefused
  <2>2. \A k \in DOMAIN owner : owner[k] # s
    BY <1>1, LenProperties DEF HelperInv, ServerInv, Nobody, ClipInv
  <2>3. owner = [k \in DOMAIN owner |-> owner[k]]
    BY DEF ClipInv
  <2>4. QED
    BY <2>1, <2>2, <2>3 DEF Without
<1>3. pipe' = <<1>>
  BY <1>1 DEF HelperRefused, Writes, Latest
<1>4. UNCHANGED <<request, sinks, sink, picture, parent, disturbed>>
  BY DEF HelperRefused, Unserved, ordering, delivery
<1>5. servers' = [servers EXCEPT ![s].state = "gone"]
  BY DEF HelperRefused
<1>6. QED
  BY <1>1, <1>2, <1>3, <1>4, <1>5, EndingKeeps

LEMMA ServeFailsKeeps ==
    ASSUME HelperInv, ClipInv, OwnInv, NEW s \in DOMAIN servers, ServeFails(s)
    PROVE  HelperInv'
<1>1. /\ servers[s].state = "serving" /\ servers' = [servers EXCEPT ![s].state = "gone"]
      /\ owner' = Without(s) /\ disturbed' = (disturbed \/ ~Latest(s)) /\ Writes(s, 1)
      /\ UNCHANGED <<request, sinks, sink, picture, parent>>
  BY DEF ServeFails, Unserved, ordering, delivery
<1>2. pipe' = pipe \/ s = Len(servers)
  BY <1>1 DEF Writes, Latest
<1>3. ASSUME ~disturbed'
      PROVE  /\ s = Len(servers)
             /\ \/ parent = "first" /\ pipe' \in {<<>>, <<1>>, <<0, 1>>}
                \/ parent = "grace" /\ pipe' = <<1>>
  <2>1. ~disturbed /\ s = Len(servers) /\ parent # "idle" /\ pipe' = Append(pipe, 1)
    BY <1>1, <1>3 DEF Latest, Writes
  <2>2. Latter.state = "serving" /\ ~Gone
    BY <1>1, <2>1 DEF Latter, Gone
  <2>3. Append(<<0>>, 1) = <<0, 1>> /\ Append(<<>>, 1) = <<1>>
    BY TwoBytes
  <2>4. CASE parent = "first"
    <3>1. pipe = <<0>>
      BY <2>1, <2>2, <2>4 DEF HelperInv, HandshakeInv, FirstInv
    <3>2. QED
      BY <2>1, <2>3, <2>4, <3>1
  <2>5. CASE parent = "grace"
    <3>1. pipe = <<>>
      BY <2>1, <2>2, <2>5 DEF HelperInv, HandshakeInv, GraceInv
    <3>2. QED
      BY <2>1, <2>3, <2>5, <3>1
  <2>6. QED
    BY <2>1, <2>4, <2>5 DEF OwnInv
<1>4. QED
  BY <1>1, <1>2, <1>3, EndingKeeps

LEMMA KilledKeeps ==
    ASSUME HelperInv, ClipInv, NEW s \in DOMAIN servers, HelperKilled(s)
    PROVE  HelperInv'
<1>1. /\ servers[s].state \in {"preparing", "serving"}
      /\ servers' = [servers EXCEPT ![s].state = "gone"] /\ owner' = Without(s)
      /\ disturbed' = (disturbed \/ servers[s].state = "serving")
      /\ UNCHANGED <<request, sinks, sink, picture, parent, pipe>>
  BY DEF HelperKilled, Unserved, ordering, delivery
<1>2. ~disturbed' => s = Len(servers) /\ parent = "first" /\ pipe = <<>>
  BY <1>1 DEF HelperInv, ServerInv
<1>3. QED
  BY <1>1, <1>2, EndingKeeps

LEMMA ClaimsKeeps ==
    ASSUME HelperInv, ClipInv, SinkInv, NEW s \in DOMAIN servers, HelperClaims(s)
    PROVE  HelperInv'
<1> DEFINE all == [servers EXCEPT ![s].state = "serving"]
           n == Len(servers)
<1>1. /\ servers[s].state = "preparing" /\ s = n /\ parent = "first" /\ pipe = <<>>
      /\ servers[s].picture = picture /\ servers[s].holds = Held
  BY DEF HelperClaims, HelperInv, ServerInv, Latter
<1>2. /\ Claim(s, Held, all) /\ pipe' = <<0>>
      /\ UNCHANGED <<request, sinks, sink, picture, parent, disturbed>>
  <2>1. Append(<<>>, 0) = <<0>>
    OBVIOUS
  <2>2. QED
    BY <1>1, <2>1 DEF HelperClaims, Writes, Latest, Unserved, ordering, delivery
<1>3. /\ all \in Seq(Servers) /\ Len(all) = n /\ n \in Nat
      /\ DOMAIN all = 1..n /\ DOMAIN servers = 1..n
      /\ all[s].by = servers[s].by /\ all[s].picture = servers[s].picture
      /\ all[s].holds = servers[s].holds /\ all[s].state = "serving"
      /\ \A i \in 1..n : i # s => all[i] = servers[i]
  <2>1. "serving" \in {"preparing", "serving", "gone"}
    OBVIOUS
  <2>2. QED
    BY <2>1, StateResult, Zenon
<1> HIDE DEF all
<1>4. /\ Len(servers') = n /\ DOMAIN servers' = 1..n
      /\ \A i \in 1..n :
            /\ servers'[i].by = all[i].by /\ servers'[i].picture = all[i].picture
            /\ servers'[i].holds = all[i].holds
            /\ \/ servers'[i].state = all[i].state
               \/ /\ all[i].state = "serving" /\ servers'[i].state = "gone"
                  /\ \A k \in DOMAIN owner : owner'[k] # i
      /\ DOMAIN owner' = {"Regular", "Primary"} /\ DOMAIN owner = {"Regular", "Primary"}
      /\ \A k \in DOMAIN owner : owner'[k] = IF k \in Held THEN s ELSE owner[k]
      /\ \A k \in DOMAIN owner : owner'[k] \in 0..n /\ owner[k] \in 0..n
  <2>1. Len(servers) <= Len(all) /\ s \in 0..Len(all)
    BY <1>3
  <2>2. Len(all) = n
    BY <1>3
  <2>3. QED
    BY <1>2, <1>3, <2>1, <2>2, ClaimResult
<1>5. \A i \in 1..n : /\ servers'[i].by = servers[i].by /\ servers'[i].picture = servers[i].picture
                      /\ servers'[i].holds = servers[i].holds
  BY <1>3, <1>4
<1>6. UNCHANGED <<Strategy, Held>>
  BY <1>2 DEF Strategy, Held
<1>7. ServerInv'
  <2>1. \A t \in DOMAIN servers' : servers'[t].by = Strategy
    BY <1>3, <1>4, <1>5 DEF HelperInv, ServerInv
  <2>2. \A t \in DOMAIN servers' : servers'[t].state # "preparing"
    BY <1>1, <1>3, <1>4 DEF HelperInv, ServerInv
  <2>3. \A k \in DOMAIN owner' : owner'[k] # Nobody => servers'[owner'[k]].state = "serving"
    BY <1>1, <1>3, <1>4 DEF HelperInv, ServerInv, Nobody
  <2>4. Len(servers') # 0 /\ Latter'.picture = picture' /\ Latter'.holds = Held'
    BY <1>1, <1>2, <1>3, <1>4, <1>5, <1>6 DEF Latter
  <2>5. QED
    BY <1>6, <2>1, <2>2, <2>3, <2>4 DEF ServerInv
<1>8. HandshakeInv'
  <2>1. Claimed'
    BY <1>1, <1>4, <1>6, SelectionsAreTwo DEF Claimed, Held
  <2>2. QED
    BY <1>1, <1>2, <2>1 DEF HandshakeInv, FirstInv
<1>9. CopiesInv'
  <2>1. ~disturbed => Copied
    BY <1>1 DEF HelperInv, CopiesInv, Hopeful, Latter
  <2>2. \A k \in {"Regular", "Primary"} : Shown(k) => Shown(k)'
    BY <1>1, <1>2, <1>3, <1>4, <1>5 DEF Shown, Nobody
  <2>3. Copied => Copied'
    BY <1>2, <2>2, SelectionsAreTwo DEF Copied
  <2>4. QED
    BY <1>2, <2>1, <2>3 DEF CopiesInv
<1>10. QED
  BY <1>7, <1>8, <1>9 DEF HelperInv

LEMMA OvertakenKeeps ==
    ASSUME HelperInv, ClipInv, NEW k \in DOMAIN owner, Overtaken(k)
    PROVE  HelperInv'
<1> DEFINE n == Len(servers)
<1>1. /\ owner[k] # Nobody /\ Claim(Nobody, {k}, servers) /\ disturbed' = TRUE
      /\ pipe' = pipe \/ owner[k] = n
      /\ UNCHANGED <<request, sinks, sink, picture, parent>>
  BY DEF Overtaken, Writes, Latest, Unserved, ordering, delivery
<1>2. /\ Len(servers') = n /\ DOMAIN servers' = 1..n
      /\ \A i \in 1..n :
            /\ servers'[i].by = servers[i].by /\ servers'[i].picture = servers[i].picture
            /\ servers'[i].holds = servers[i].holds
            /\ \/ servers'[i].state = servers[i].state
               \/ /\ servers[i].state = "serving" /\ servers'[i].state = "gone"
                  /\ \A j \in DOMAIN owner : owner'[j] # i
      /\ DOMAIN owner' = {"Regular", "Primary"} /\ DOMAIN owner = {"Regular", "Primary"}
      /\ \A j \in DOMAIN owner : owner'[j] = IF j \in {k} THEN Nobody ELSE owner[j]
      /\ \A j \in DOMAIN owner : owner'[j] \in 0..n /\ owner[j] \in 0..n
  <2>1. servers \in Seq(Servers) /\ n <= n /\ Nobody \in 0..n
    BY LenProperties DEF ClipInv, Nobody
  <2>2. QED
    BY <1>1, <2>1, ClaimResult
<1>3. n \in Nat /\ DOMAIN servers = 1..n
  BY LenProperties DEF ClipInv
<1>4. UNCHANGED <<Strategy, Held>>
  BY <1>1 DEF Strategy, Held
<1>5. ServerInv'
  <2>1. \A t \in DOMAIN servers' : servers'[t].by = Strategy
    BY <1>2, <1>3 DEF HelperInv, ServerInv
  <2>2. ASSUME NEW t \in DOMAIN servers', servers'[t].state = "preparing"
        PROVE  t = n /\ parent' = "first" /\ pipe' = <<>>
    <3>1. servers[t].state = "preparing"
      BY <1>2, <2>2
    <3>2. t = n /\ parent = "first" /\ pipe = <<>>
      BY <1>2, <1>3, <3>1 DEF HelperInv, ServerInv
    <3>3. owner[k] # n
      BY <1>1, <3>1, <3>2 DEF HelperInv, ServerInv
    <3>4. QED
      BY <1>1, <3>2, <3>3
  <2>3. \A j \in DOMAIN owner' : owner'[j] # Nobody => servers'[owner'[j]].state = "serving"
    BY <1>2 DEF HelperInv, ServerInv, Nobody
  <2>4. parent' # "idle" =>
            Len(servers') # 0 /\ Latter'.picture = picture' /\ Latter'.holds = Held'
    BY <1>1, <1>2, <1>3, <1>4 DEF HelperInv, ServerInv, Latter
  <2>5. QED
    BY <1>2, <1>4, <2>1, <2>2, <2>3, <2>4 DEF ServerInv
<1>6. QED
  BY <1>1, <1>5 DEF HelperInv, HandshakeInv, CopiesInv

LEMMA InlineKeeps ==
    ASSUME HelperInv, ClipInv, SinkInv, OwnInv, CopyInline
    PROVE  HelperInv'
<1> DEFINE new == [by |-> "Inline", picture |-> picture, holds |-> Held, state |-> "serving"]
           all == Append(servers, new)
           n == Len(servers)
<1>1. /\ parent = "idle" /\ Strategy = "Inline" /\ Claim(n + 1, Held, all)
      /\ sink' = sink + 1 /\ sink \in DOMAIN sinks
      /\ UNCHANGED <<request, sinks, picture, parent, pipe, disturbed>>
  BY DEF CopyInline, AtClipboard, AtSink, ordering
<1>2. /\ n \in Nat /\ all \in Seq(Servers) /\ Len(all) = n + 1 /\ all[n + 1] = new
      /\ DOMAIN servers = 1..n /\ \A i \in 1..n : all[i] = servers[i]
  <2>1. new \in Servers
    BY SelectionsAreTwo DEF Servers, Held, OwnInv
  <2> HIDE DEF new
  <2>2. QED
    BY <2>1, AppendProperties, LenProperties DEF ClipInv
<1>3. new.by = "Inline" /\ new.picture = picture /\ new.state = "serving"
  OBVIOUS
<1> HIDE DEF all, new
<1>4. /\ Len(servers') = n + 1 /\ DOMAIN servers' = 1..(n + 1)
      /\ \A i \in 1..(n + 1) :
            /\ servers'[i].by = all[i].by /\ servers'[i].picture = all[i].picture
            /\ \/ servers'[i].state = all[i].state
               \/ /\ all[i].state = "serving" /\ servers'[i].state = "gone"
                  /\ \A k \in DOMAIN owner : owner'[k] # i
      /\ DOMAIN owner' = {"Regular", "Primary"} /\ DOMAIN owner = {"Regular", "Primary"}
      /\ \A k \in DOMAIN owner : owner'[k] = IF k \in Held THEN n + 1 ELSE owner[k]
      /\ \A k \in DOMAIN owner : owner'[k] \in 0..(n + 1) /\ owner[k] \in 0..n
  <2>1. n <= Len(all) /\ n + 1 \in 0..Len(all)
    BY <1>2
  <2>2. Len(all) = n + 1
    BY <1>2
  <2>3. QED
    BY <1>1, <1>2, <2>1, <2>2, ClaimResult
<1>5. \A i \in 1..(n + 1) : i \in 1..n \/ i = n + 1
  BY <1>2
<1>6. ServerInv'
  <2>1. UNCHANGED Strategy
    BY <1>1 DEF Strategy
  <2>2. \A t \in DOMAIN servers' : servers'[t].by = Strategy
    BY <1>1, <1>2, <1>3, <1>4, <1>5 DEF HelperInv, ServerInv
  <2>3. \A t \in DOMAIN servers' : servers'[t].state # "preparing"
    BY <1>1, <1>2, <1>3, <1>4, <1>5 DEF HelperInv, ServerInv
  <2>4. \A k \in DOMAIN owner' : owner'[k] # Nobody => servers'[owner'[k]].state = "serving"
    BY <1>2, <1>3, <1>4, <1>5 DEF HelperInv, ServerInv, Nobody
  <2>5. QED
    BY <1>1, <2>1, <2>2, <2>3, <2>4 DEF ServerInv
<1>7. ASSUME ~disturbed PROVE Copied'
  <2>1. Copied
    BY <1>1, <1>7 DEF HelperInv, CopiesInv, Hopeful
  <2>2. \A k \in {"Regular", "Primary"} : Shown(k) => Shown(k)'
    BY <1>1, <1>2, <1>3, <1>4 DEF Shown, Nobody
  <2>3. \A k \in Held : Shown(k)'
    BY <1>1, <1>2, <1>3, <1>4, SelectionsAreTwo DEF Shown, Nobody, Held
  <2>4. ASSUME NEW i \in DOMAIN sinks, i < sink + 1, IsClipboard(sinks[i]),
               NEW k \in SelectionsOf(TargetOf(sinks[i]))
        PROVE  Shown(k)'
    <3>1. i = sink \/ i < sink
      BY <1>1, <2>4 DEF SinkInv
    <3>2. k \in {"Regular", "Primary"}
      BY SelectionsAreTwo
    <3>3. QED
      BY <2>1, <2>2, <2>3, <2>4, <3>1, <3>2 DEF Copied, Held
  <2>5. QED
    BY <1>1, <2>4 DEF Copied
<1>8. QED
  BY <1>1, <1>6, <1>7 DEF HelperInv, HandshakeInv, CopiesInv

\* Only threads end with their process, and a process that ends has none.
LEMMA ExitKeeps ==
    ASSUME HelperInv, ClipInv, SinkInv, Exit
    PROVE  HelperInv'
<1>1. /\ Strategy = "Fork" /\ UNCHANGED <<request, sinks, sink, picture, pipe, parent, disturbed>>
  BY DEF Exit, Strategy, ordering, delivery
<1>2. \A s \in DOMAIN servers : servers[s].by # "Inline"
  BY <1>1 DEF HelperInv, ServerInv
<1>3. servers' = servers
  <2>1. servers' = [s \in DOMAIN servers |-> servers[s]]
    BY <1>2 DEF Exit
  <2>2. servers = [s \in DOMAIN servers |-> servers[s]]
    BY DEF ClipInv
  <2>3. QED
    BY <2>1, <2>2
<1>4. owner' = owner
  <2>1. \A k \in DOMAIN owner : owner[k] # Nobody => owner[k] \in DOMAIN servers
    BY LenProperties DEF ClipInv, Nobody
  <2>2. owner' = [k \in DOMAIN owner |-> owner[k]]
    BY <1>2, <2>1 DEF Exit
  <2>3. owner = [k \in DOMAIN owner |-> owner[k]]
    BY DEF ClipInv
  <2>4. QED
    BY <2>2, <2>3
<1>5. QED
  BY <1>1, <1>3, <1>4, HelperStutters

LEMMA HelperKept ==
    ASSUME HelperInv, SinkInv, SinkInv', OwnInv, ClipInv, [Next]_vars
    PROVE  HelperInv'
<1> USE DEF ordering, delivery, clipboard
<1>s. CASE UNCHANGED <<request, servers, owner, pipe, parent, disturbed, sinks, sink, picture>>
  BY <1>s, HelperStutters
<1>n. ASSUME UNCHANGED <<request, servers, owner, pipe, parent, disturbed>>, parent = "idle",
             sink' \in {0, 1}
      PROVE  HelperInv'
  BY <1>n, NothingCopied, HelperStutters
<1>f. ASSUME parent = "idle", DeliveryFails, UNCHANGED <<servers, owner, disturbed>>
      PROVE  HelperInv'
  <2>1. \A s \in DOMAIN servers : servers[s].state # "preparing"
    BY <1>f DEF HelperInv, ServerInv
  <2>2. QED
    BY <1>f, <2>1, FailureKeepsHelpers
<1>1. CASE SelectorAnswers \/ EditorSaves
  BY <1>1, <1>n DEF SelectorAnswers, EditorSaves, SinkInv
<1>2. CASE WindowManagerAnswers \/ ResolveFails \/ Resolve \/ CountdownTicks \/ CountdownRefused
  BY <1>2, <1>s DEF WindowManagerAnswers, ResolveFails, Resolve, CountdownTicks, CountdownRefused
<1>3. CASE CaptureStarts \/ CaptureGoesOn \/ CaptureFails \/ CaptureReturns
  BY <1>3, <1>s DEF CaptureStarts, CaptureGoesOn, CaptureFails, CaptureReturns
<1>4. CASE EditorSwitches \/ EditorCloses \/ Returned \/ UNCHANGED vars
  BY <1>4, <1>s DEF EditorSwitches, EditorCloses, Returned, vars
<1>5. CASE SinksBuilt
  BY <1>5, <1>n DEF SinksBuilt, SinkInv
<1>6. CASE SinksRefused \/ FileFails \/ CopyFails
  BY <1>6, <1>f DEF SinksRefused, FileFails, CopyFails, AtSink, AtClipboard, SinkInv
<1>7. CASE FileWritten
  BY <1>7, FileCopiesNothing
<1>8. CASE PictureDone
  <2>1. parent = "idle"
    BY <1>8 DEF PictureDone, SinkInv
  <2>2. sink' = 0 \/ UNCHANGED <<picture, sink>>
    BY <1>8 DEF PictureDone
  <2>3. UNCHANGED <<request, servers, owner, pipe, parent, disturbed, sinks>>
    BY <1>8 DEF PictureDone
  <2>4. QED
    BY <1>n, <1>s, <2>1, <2>2, <2>3
<1>9. CASE CopyInline
  BY <1>9, InlineKeeps
<1>10. CASE Fork
  BY <1>10, ForkKeeps
<1>11. CASE FirstByteRead
  BY <1>11, FirstByteKeeps
<1>12. CASE GraceOver
  BY <1>12, GraceKeeps
<1>13. ASSUME NEW s \in DOMAIN servers,
              HelperClaims(s) \/ HelperRefused(s) \/ ServeFails(s) \/ HelperKilled(s)
       PROVE  HelperInv'
  BY <1>13, ClaimsKeeps, RefusedKeeps, ServeFailsKeeps, KilledKeeps
<1>14. ASSUME NEW k \in DOMAIN owner, Overtaken(k) PROVE HelperInv'
  BY <1>14, OvertakenKeeps
<1>15. CASE Exit
  BY <1>15, ExitKeeps
<1>16. QED
  BY <1>1, <1>2, <1>3, <1>4, <1>5, <1>6, <1>7, <1>8, <1>9, <1>10, <1>11, <1>12, <1>13, <1>14,
     <1>15 DEF Next

LEMMA PasteInv ==
    ASSUME HelperInv, DiskInv, SinkInv, OwnInv, ClipInv
    PROVE  PasteYieldsLast
<1> SUFFICES ASSUME Written, ~disturbed, NEW i \in DOMAIN sinks, IsClipboard(sinks[i]),
                    NEW k \in SelectionsOf(TargetOf(sinks[i]))
             PROVE  /\ owner[k] # Nobody /\ servers[owner[k]].state = "serving"
                    /\ servers[owner[k]].picture = Pictures
  BY DEF PasteYieldsLast, Written
<1>1. parent = "idle" /\ picture = Pictures /\ i < sink
  BY DEF SinkInv, DiskInv, OwnInv, Written
<1>2. Copied
  BY <1>1 DEF HelperInv, CopiesInv, Hopeful
<1>3. Shown(k)
  BY <1>1, <1>2 DEF Copied
<1>4. k \in DOMAIN owner
  BY SelectionsAreTwo DEF ClipInv
<1>5. QED
  BY <1>1, <1>3, <1>4 DEF Shown, HelperInv, ServerInv

(***************************************************************************)
(* After success a paste gives the last picture, whatever helpers of       *)
(* earlier sinks and earlier saves have come to (copy_inline, copy_forked, *)
(* read_serve_outcome), for any list of sinks and any number of saves.     *)
(***************************************************************************)
THEOREM PasteSafe == Spec => []PasteYieldsLast
<1> DEFINE Inv == Typed /\ FlowInv /\ DiskInv /\ HelperInv
<1>1. Init => Inv
  <2> SUFFICES ASSUME Init PROVE Inv
    OBVIOUS
  <2>1. Typed /\ FlowInv /\ DiskInv
    BY TypedBegins, DeliveryBegins
  <2>2. /\ servers = <<>> /\ DOMAIN servers = {} /\ parent = "idle" /\ sink = 0
        /\ \A k \in DOMAIN owner : owner[k] = Nobody
    BY DEF Init
  <2>3. Copied
    BY <2>1, <2>2 DEF Copied, Typed, SinkInv
  <2>4. HelperInv
    BY <2>2, <2>3 DEF HelperInv, ServerInv, HandshakeInv, CopiesInv
  <2>5. QED
    BY <2>1, <2>4
<1>2. Inv /\ [Next]_vars => Inv'
  <2> SUFFICES ASSUME Inv, [Next]_vars PROVE Inv'
    OBVIOUS
  <2>1. Typed'
    BY TypedKept
  <2>2. QED
    BY <2>1, FlowKept, DiskKept, HelperKept DEF Typed
<1>3. Inv => PasteYieldsLast
  BY PasteInv DEF Typed
<1>4. QED
  BY <1>1, <1>2, <1>3, PTL DEF Spec

-----------------------------------------------------------------------------
(***************************************************************************)
(* Where the pixels of a picture come from.  Rectangles first.             *)
(***************************************************************************)
LEMMA LargerOf ==
    ASSUME NEW a \in Int, NEW b \in Int
    PROVE  /\ Max({a, b}) = (IF a >= b THEN a ELSE b)
           /\ Min({a, b}) = (IF a <= b THEN a ELSE b)
<1> DEFINE M == IF a >= b THEN a ELSE b
           L == IF a <= b THEN a ELSE b
<1>1. M \in {a, b} /\ \A y \in {a, b} : M >= y
  OBVIOUS
<1>2. L \in {a, b} /\ \A y \in {a, b} : L <= y
  OBVIOUS
<1>3. /\ \A x \in {a, b} : (\A y \in {a, b} : x >= y) => x = M
      /\ \A x \in {a, b} : (\A y \in {a, b} : x <= y) => x = L
  OBVIOUS
<1> HIDE DEF M, L
<1>4. Max({a, b}) = M
  BY <1>1, <1>3 DEF Max
<1>5. Min({a, b}) = L
  BY <1>2, <1>3 DEF Min
<1>6. QED
  BY <1>4, <1>5 DEF M, L

(***************************************************************************)
(* The sides of a rectangle.                                               *)
(***************************************************************************)
LEMMA RectParts ==
    ASSUME NEW r \in Rects
    PROVE  /\ r.x \in Int /\ r.y \in Int /\ r.w \in Nat /\ r.h \in Nat
           /\ Right(r) \in Int /\ Bottom(r) \in Int
           /\ Right(r) = r.x + r.w /\ Bottom(r) = r.y + r.h
<1>1. r.x \in Int /\ r.y \in Int /\ r.w \in Nat /\ r.h \in Nat
  BY DEF Rects
<1>2. QED
  BY <1>1 DEF Right, Bottom

(***************************************************************************)
(* The union of two rectangles is one, and has both in it.                 *)
(***************************************************************************)
LEMMA UnionSpans ==
    ASSUME NEW a \in Rects, NEW b \in Rects
    PROVE  RectUnion(a, b) \in Rects /\ Spans(RectUnion(a, b), a) /\ Spans(RectUnion(a, b), b)
<1>1. /\ a.x \in Int /\ a.y \in Int /\ a.w \in Nat /\ a.h \in Nat
      /\ b.x \in Int /\ b.y \in Int /\ b.w \in Nat /\ b.h \in Nat
  BY DEF Rects
<1> DEFINE x == IF a.x <= b.x THEN a.x ELSE b.x
           y == IF a.y <= b.y THEN a.y ELSE b.y
           r == IF Right(a) >= Right(b) THEN Right(a) ELSE Right(b)
           e == IF Bottom(a) >= Bottom(b) THEN Bottom(a) ELSE Bottom(b)
<1>2. Right(a) \in Int /\ Right(b) \in Int /\ Bottom(a) \in Int /\ Bottom(b) \in Int
  BY <1>1 DEF Right, Bottom
<1>3. /\ Min({a.x, b.x}) = x /\ Min({a.y, b.y}) = y
      /\ Max({Right(a), Right(b)}) = r /\ Max({Bottom(a), Bottom(b)}) = e
  BY <1>1, <1>2, LargerOf
<1>4. /\ x \in Int /\ y \in Int /\ r - x \in Nat /\ e - y \in Nat
      /\ x <= a.x /\ y <= a.y /\ x <= b.x /\ y <= b.y
      /\ Right(a) <= x + (r - x) /\ Bottom(a) <= y + (e - y)
      /\ Right(b) <= x + (r - x) /\ Bottom(b) <= y + (e - y)
  <2>1. /\ r \in Int /\ e \in Int /\ x \in Int /\ y \in Int
        /\ x <= a.x /\ y <= a.y /\ x <= b.x /\ y <= b.y
        /\ Right(a) <= r /\ Right(b) <= r /\ Bottom(a) <= e /\ Bottom(b) <= e
    BY <1>1, <1>2, SMTT(30)
  <2>2. a.x <= Right(a) /\ a.y <= Bottom(a)
    BY <1>1 DEF Right, Bottom
  <2> HIDE DEF x, y, r, e
  <2>3. x + (r - x) = r /\ y + (e - y) = e /\ x <= r /\ y <= e
    BY <1>1, <1>2, <2>1, <2>2
  <2>4. QED
    BY <2>1, <2>3
<1>5. RectUnion(a, b) = [x |-> x, y |-> y, w |-> r - x, h |-> e - y]
  BY <1>3 DEF RectUnion
<1> HIDE DEF x, y, r, e
<1>6. QED
  BY <1>4, <1>5 DEF Rects, Spans, Right, Bottom

(***************************************************************************)
(* What two rectangles share lies in both and has an area.                 *)
(***************************************************************************)
LEMMA SharedSpans ==
    ASSUME NEW a \in Rects, NEW b \in Rects, Intersect(a, b) # None
    PROVE  /\ Intersect(a, b) \in Rects /\ Intersect(a, b).w > 0 /\ Intersect(a, b).h > 0
           /\ Spans(a, Intersect(a, b)) /\ Spans(b, Intersect(a, b))
<1>1. /\ a.x \in Int /\ a.y \in Int /\ a.w \in Nat /\ a.h \in Nat
      /\ b.x \in Int /\ b.y \in Int /\ b.w \in Nat /\ b.h \in Nat
  BY DEF Rects
<1> DEFINE x == IF a.x >= b.x THEN a.x ELSE b.x
           y == IF a.y >= b.y THEN a.y ELSE b.y
           r == IF Right(a) <= Right(b) THEN Right(a) ELSE Right(b)
           e == IF Bottom(a) <= Bottom(b) THEN Bottom(a) ELSE Bottom(b)
<1>2. Right(a) \in Int /\ Right(b) \in Int /\ Bottom(a) \in Int /\ Bottom(b) \in Int
  BY <1>1, SMTT(30) DEF Right, Bottom
<1>3. /\ Max({a.x, b.x}) = x /\ Max({a.y, b.y}) = y
      /\ Min({Right(a), Right(b)}) = r /\ Min({Bottom(a), Bottom(b)}) = e
  BY <1>1, <1>2, LargerOf
<1>4. /\ x \in Int /\ y \in Int /\ r \in Int /\ e \in Int
      /\ a.x <= x /\ a.y <= y /\ b.x <= x /\ b.y <= y
      /\ r <= Right(a) /\ e <= Bottom(a) /\ r <= Right(b) /\ e <= Bottom(b)
  BY <1>1, <1>2, SMTT(30)
<1>5. Intersect(a, b) = IF r <= x \/ e <= y THEN None
                        ELSE [x |-> x, y |-> y, w |-> r - x, h |-> e - y]
  BY <1>3 DEF Intersect
<1> HIDE DEF x, y, r, e
<1>6. ~(r <= x \/ e <= y) /\ Intersect(a, b) = [x |-> x, y |-> y, w |-> r - x, h |-> e - y]
  BY <1>5
<1>7. r - x \in Nat /\ e - y \in Nat /\ r - x > 0 /\ e - y > 0
      /\ x + (r - x) = r /\ y + (e - y) = e
  BY <1>4, <1>6
<1>8. QED
  BY <1>4, <1>6, <1>7 DEF Rects, Spans, Right, Bottom

(***************************************************************************)
(* A rectangle with an area that lies in another is what they share.       *)
(***************************************************************************)
LEMMA SharedInside ==
    ASSUME NEW a \in Rects, NEW b \in Rects, b.w > 0, b.h > 0, Spans(a, b)
    PROVE  Intersect(a, b) = b
<1>1. /\ a.x \in Int /\ a.y \in Int /\ a.w \in Nat /\ a.h \in Nat
      /\ b.x \in Int /\ b.y \in Int /\ b.w \in Nat /\ b.h \in Nat
      /\ b = [x |-> b.x, y |-> b.y, w |-> b.w, h |-> b.h]
  BY DEF Rects
<1>2. Right(a) \in Int /\ Right(b) \in Int /\ Bottom(a) \in Int /\ Bottom(b) \in Int
  BY <1>1 DEF Right, Bottom
<1>3. a.x <= b.x /\ a.y <= b.y /\ Right(b) <= Right(a) /\ Bottom(b) <= Bottom(a)
  BY DEF Spans
<1>4. /\ Max({a.x, b.x}) = b.x /\ Max({a.y, b.y}) = b.y
      /\ Min({Right(a), Right(b)}) = Right(b) /\ Min({Bottom(a), Bottom(b)}) = Bottom(b)
  <2>1. ASSUME NEW m \in Int, NEW n \in Int, m <= n PROVE Max({m, n}) = n
    <3>1. Max({m, n}) = IF m >= n THEN m ELSE n
      BY LargerOf, Zenon
    <3>2. QED
      BY <2>1, <3>1
  <2>2. ASSUME NEW m \in Int, NEW n \in Int, n <= m PROVE Min({m, n}) = n
    <3>1. Min({m, n}) = IF m <= n THEN m ELSE n
      BY LargerOf, Zenon
    <3>2. QED
      BY <2>2, <3>1
  <2>3. Max({a.x, b.x}) = b.x
    BY <1>1, <1>3, <2>1, Zenon
  <2>4. Max({a.y, b.y}) = b.y
    BY <1>1, <1>3, <2>1, Zenon
  <2>5. Min({Right(a), Right(b)}) = Right(b)
    BY <1>2, <1>3, <2>2, Zenon
  <2>6. Min({Bottom(a), Bottom(b)}) = Bottom(b)
    BY <1>2, <1>3, <2>2, Zenon
  <2>7. QED
    BY <2>3, <2>4, <2>5, <2>6
<1>5. ~(Right(b) <= b.x \/ Bottom(b) <= b.y) /\ Right(b) - b.x = b.w /\ Bottom(b) - b.y = b.h
  BY <1>1 DEF Right, Bottom
<1>6. Intersect(a, b) = [x |-> b.x, y |-> b.y, w |-> b.w, h |-> b.h]
  BY <1>4, <1>5 DEF Intersect
<1>7. QED
  BY <1>1, <1>6

(***************************************************************************)
(* The bounding box of one image or more is a rectangle, and has each in   *)
(* it.                                                                     *)
(***************************************************************************)
BoxAt(images, g, n) ==
    IF n = 1 THEN Place(images[1]) ELSE RectUnion(g[n - 1], Place(images[n]))

LEMMA BoxSolves ==
    ASSUME NEW N \in Nat, NEW images, DOMAIN images = 1..N
    PROVE  \E g : g = [n \in DOMAIN images |-> BoxAt(images, g, n)]
<1> DEFINE Solved(m) == \E g : g = [n \in 1..m |-> BoxAt(images, g, n)]
           T == {m \in Nat : Solved(m)}
<1>1. 0 \in T
  <2>1. [n \in 1..0 |-> 0] = [n \in 1..0 |-> BoxAt(images, [m \in 1..0 |-> 0], n)]
    OBVIOUS
  <2>2. QED
    BY <2>1
<1>2. ASSUME NEW m \in T PROVE m + 1 \in T
  <2>1. PICK g : g = [n \in 1..m |-> BoxAt(images, g, n)]
    BY <1>2
  <2> DEFINE h == [n \in 1..(m + 1) |-> IF n = m + 1 THEN BoxAt(images, g, n) ELSE g[n]]
  <2>2. m \in Nat
    BY <1>2
  <2>3. \A n \in 1..(m + 1) : n # 1 => h[n - 1] = g[n - 1]
    BY <2>2
  <2>4. \A n \in 1..(m + 1) : BoxAt(images, h, n) = BoxAt(images, g, n)
    <3> HIDE DEF h
    <3>1. QED
      BY <2>3 DEF BoxAt
  <2>5. \A n \in 1..m : g[n] = BoxAt(images, g, n)
    BY <2>1
  <2>6. \A n \in 1..(m + 1) : h[n] = BoxAt(images, h, n)
    BY <2>2, <2>4, <2>5
  <2>7. h = [n \in 1..(m + 1) |-> h[n]]
    OBVIOUS
  <2> HIDE DEF h
  <2>8. h = [n \in 1..(m + 1) |-> BoxAt(images, h, n)]
    BY <2>6, <2>7
  <2>9. QED
    BY <2>2, <2>8
<1>3. T = Nat
  <2> HIDE DEF T
  <2>1. T \in SUBSET Nat
    BY DEF T
  <2>2. QED
    BY <1>1, <1>2, <2>1, SetInduction
<1>4. Solved(N)
  BY <1>3
<1>5. QED
  BY <1>4

LEMMA BboxSpans ==
    ASSUME NEW N \in Nat, N > 0, NEW images, DOMAIN images = 1..N, Len(images) = N,
           \A i \in 1..N : Place(images[i]) \in Rects
    PROVE  /\ Bbox(images) \in Rects
           /\ \A i \in 1..N : Spans(Bbox(images), Place(images[i]))
           /\ N = 1 => Bbox(images) = Place(images[1])
<1> DEFINE upto == CHOOSE g : g = [n \in DOMAIN images |-> BoxAt(images, g, n)]
           Good(m) == m >= 1 /\ m <= N =>
                        /\ upto[m] \in Rects
                        /\ \A i \in 1..m : Spans(upto[m], Place(images[i]))
           T == {m \in Nat : Good(m)}
<1>1. upto = [n \in DOMAIN images |-> BoxAt(images, upto, n)]
  BY BoxSolves
<1>2. \A n \in 1..N : upto[n] = IF n = 1 THEN Place(images[1])
                                ELSE RectUnion(upto[n - 1], Place(images[n]))
  <2> HIDE DEF upto
  <2>1. QED
    BY <1>1 DEF BoxAt
<1>3. Bbox(images) = upto[N]
  BY DEF Bbox, BoxAt
<1> HIDE DEF upto
<1>4. \A a \in Rects : Spans(a, a)
  BY DEF Spans, Rects, Right, Bottom
<1>5. \A a \in Rects, b \in Rects, c \in Rects : Spans(a, b) /\ Spans(b, c) => Spans(a, c)
  <2> TAKE a \in Rects, b \in Rects, c \in Rects
  <2>1. /\ a.x \in Int /\ a.y \in Int /\ Right(a) \in Int /\ Bottom(a) \in Int
        /\ b.x \in Int /\ b.y \in Int /\ Right(b) \in Int /\ Bottom(b) \in Int
        /\ c.x \in Int /\ c.y \in Int /\ Right(c) \in Int /\ Bottom(c) \in Int
    BY RectParts
  <2> SUFFICES ASSUME Spans(a, b), Spans(b, c) PROVE Spans(a, c)
    OBVIOUS
  <2>2. a.x <= b.x /\ b.x <= c.x /\ a.y <= b.y /\ b.y <= c.y
        /\ Right(c) <= Right(b) /\ Right(b) <= Right(a)
        /\ Bottom(c) <= Bottom(b) /\ Bottom(b) <= Bottom(a)
    BY DEF Spans
  <2>3. /\ a.x <= c.x /\ a.y <= c.y
        /\ Right(c) <= Right(a)
        /\ Bottom(c) <= Bottom(a)
    <3>1. \A i \in Int, j \in Int, k \in Int : i <= j /\ j <= k => i <= k
      OBVIOUS
    <3>2. a.x <= c.x
      BY <2>1, <2>2, <3>1, Zenon
    <3>3. a.y <= c.y
      BY <2>1, <2>2, <3>1, Zenon
    <3>4. Right(c) <= Right(a)
      BY <2>1, <2>2, <3>1, Zenon
    <3>5. Bottom(c) <= Bottom(a)
      BY <2>1, <2>2, <3>1, Zenon
    <3>6. QED
      BY <3>2, <3>3, <3>4, <3>5
  <2>4. QED
    BY <2>3 DEF Spans
<1>6. 0 \in T
  OBVIOUS
<1>7. ASSUME NEW m \in T PROVE m + 1 \in T
  <2>1. m \in Nat /\ Good(m)
    BY <1>7
  <2> SUFFICES ASSUME m + 1 <= N
               PROVE  /\ upto[m + 1] \in Rects
                      /\ \A i \in 1..(m + 1) : Spans(upto[m + 1], Place(images[i]))
    BY <2>1
  <2>2. CASE m = 0
    <3>1. upto[1] = Place(images[1])
      BY <1>2
    <3>2. \A i \in 1..(m + 1) : i = 1
      BY <2>2
    <3>3. QED
      BY <1>4, <2>2, <3>1, <3>2
  <2>3. CASE m # 0
    <3> DEFINE p == Place(images[m + 1])
    <3>1. m + 1 \in 1..N /\ m \in 1..N /\ (m + 1) - 1 = m /\ m + 1 # 1
      BY <2>1, <2>3
    <3>2. upto[m + 1] = RectUnion(upto[m], p)
      BY <1>2, <3>1
    <3>3. upto[m] \in Rects /\ p \in Rects /\ \A i \in 1..m : Spans(upto[m], Place(images[i]))
      BY <2>1, <3>1
    <3>4. /\ upto[m + 1] \in Rects
          /\ Spans(upto[m + 1], upto[m]) /\ Spans(upto[m + 1], p)
      <4> HIDE DEF p
      <4>1. QED
        BY <3>2, <3>3, UnionSpans
    <3>5. \A i \in 1..(m + 1) : i \in 1..m \/ i = m + 1
      BY <2>1
    <3>6. ASSUME NEW i \in 1..m PROVE Spans(upto[m + 1], Place(images[i]))
      <4>1. i \in 1..N
        BY <2>1
      <4>2. QED
        BY <1>5, <3>3, <3>4, <4>1
    <3>7. QED
      BY <3>4, <3>5, <3>6
  <2>4. QED
    BY <2>2, <2>3
<1>8. T = Nat
  <2> HIDE DEF T
  <2>1. T \in SUBSET Nat
    BY DEF T
  <2>2. QED
    BY <1>6, <1>7, <2>1, SetInduction
<1>9. N = 1 => upto[N] = Place(images[1])
  BY <1>2
<1>10. QED
  BY <1>3, <1>8, <1>9

-----------------------------------------------------------------------------
(* Points of the desktop and cells of a screen *)

(***************************************************************************)
(* A common factor goes.                                                   *)
(***************************************************************************)
LEMMA Cancel ==
    ASSUME NEW n \in Int, n > 0, NEW a \in Int, NEW b \in Int, b > 0
    PROVE  (n * a) \div (n * b) = a \div b
<1> DEFINE q == a \div b
<1>1. q \in Int /\ b * q <= a /\ a < b * q + b
  BY DivFact
<1> HIDE DEF q
<1>2. b * q \in Int /\ n * a \in Int /\ n * b \in Int
  BY <1>1
<1>3. \A u \in Int, v \in Int : u <= v => n * u <= n * v
  OBVIOUS
<1>4. n * b > 0
  OBVIOUS
<1>5. n * (b * q) <= n * a
  BY <1>1, <1>2, <1>3
<1>6. a + 1 <= b * q + b
  BY <1>1, <1>2
<1>7. n * (a + 1) <= n * (b * q + b)
  BY <1>2, <1>3, <1>6
<1>8. n * (a + 1) = n * a + n /\ n * (b * q + b) = (n * b) * q + n * b
      /\ n * (b * q) = (n * b) * q
  BY <1>1
<1>9. (n * b) * q <= n * a /\ n * a < (n * b) * q + n * b
  <2> DEFINE k == (n * b) * q
             c == n * b
             d == n * a
  <2>1. k \in Int /\ c \in Int /\ d \in Int /\ k <= d /\ d + n <= k + c
    BY <1>1, <1>2, <1>5, <1>7, <1>8
  <2> HIDE DEF k, c, d
  <2>2. k <= d /\ d < k + c
    BY <2>1
  <2>3. QED
    BY <2>2 DEF k, c, d
<1>10. (n * a) \div (n * b) = q
  BY <1>1, <1>2, <1>4, <1>9, DivUnique
<1>11. QED
  BY <1>10 DEF q

(***************************************************************************)
(* The cell, of m that span lw points, under the centre of point q.        *)
(***************************************************************************)
Centre(q, m, lw) == ((2 * q + 1) * m) \div (2 * lw)

(***************************************************************************)
(* It is one of the m just where q is one of the lw.                       *)
(***************************************************************************)
LEMMA CentreIn ==
    ASSUME NEW q \in Int, NEW m \in Nat, NEW lw \in Nat, m > 0, lw > 0
    PROVE  Centre(q, m, lw) \in 0..(m - 1) <=> q \in 0..(lw - 1)
<1> DEFINE c == Centre(q, m, lw)
           x == (2 * q + 1) * m
           d == 2 * lw
<1>1. x \in Int /\ d \in Int /\ d > 0
  OBVIOUS
<1>2. c = x \div d
  BY DEF Centre
<1> HIDE DEF x, d, c
<1>3. c \in Int /\ d * c <= x /\ x < d * c + d
  BY <1>1, <1>2, DivFact
<1>4. d * c \in Int /\ d * m \in Int
  BY <1>1, <1>3
<1>5. ASSUME q \in 0..(lw - 1) PROVE c \in 0..(m - 1)
  <2>1. 0 < x
    BY <1>5 DEF x
  <2>2. x < d * m
    <3>1. (2 * q + 1) * m <= (2 * lw - 1) * m
      BY <1>5
    <3>2. (2 * lw - 1) * m = (2 * lw) * m - m
      OBVIOUS
    <3>3. QED
      BY <3>1, <3>2 DEF x, d
  <2>3. ~(c <= -1)
    <3> SUFFICES ASSUME c <= -1 PROVE FALSE
      OBVIOUS
    <3>1. d * 0 >= d * c + d
      BY <1>1, <1>3, Mono
    <3>2. QED
      BY <1>1, <1>3, <1>4, <2>1, <3>1
  <2>4. ~(c >= m)
    <3> SUFFICES ASSUME c >= m PROVE FALSE
      OBVIOUS
    <3>1. d * c >= d * m
      BY <1>1, <1>3
    <3>2. QED
      BY <1>1, <1>3, <1>4, <2>2, <3>1
  <2>5. QED
    BY <1>3, <2>3, <2>4
<1>6. ASSUME c \in 0..(m - 1) PROVE q \in 0..(lw - 1)
  <2>1. d * c >= 0
    BY <1>1, <1>6
  <2>2. x >= 0
    BY <1>1, <1>3, <1>4, <2>1
  <2>3. ~(q <= -1)
    <3> SUFFICES ASSUME q <= -1 PROVE FALSE
      OBVIOUS
    <3>1. 2 * q + 1 \in Int /\ 2 * q + 1 <= -1
      OBVIOUS
    <3>2. \A u \in Int : u <= -1 => u * m < 0
      OBVIOUS
    <3>3. x < 0
      BY <3>1, <3>2 DEF x
    <3>4. QED
      BY <1>1, <2>2, <3>3
  <2>4. x < d * m
    <3>1. d * m >= d * c + d
      BY <1>1, <1>6, Mono
    <3>2. QED
      BY <1>1, <1>3, <1>4, <3>1
  <2>5. ~(q >= lw)
    <3> SUFFICES ASSUME q >= lw PROVE FALSE
      OBVIOUS
    <3>1. 2 * q + 1 \in Int /\ 2 * q + 1 >= 2 * lw
      OBVIOUS
    <3>2. \A u \in Int, v \in Int : u >= v => u * m >= v * m
      OBVIOUS
    <3>3. x >= d * m
      BY <3>1, <3>2 DEF x, d
    <3>4. QED
      BY <1>1, <1>4, <2>4, <3>3
  <2>6. QED
    BY <2>3, <2>5
<1>7. QED
  BY <1>5, <1>6 DEF c

(***************************************************************************)
(* Under a picture of a pixel a point lies the centre of the point, and    *)
(* under one in the screen's own pixels the cell of the same number.       *)
(***************************************************************************)
SameCell(i, n, fx, m, lx, lw) ==
    CellUnder(i, n, fx, n, m, lx, lw) = Centre(i + fx - lx, m, lw)

LEMMA UnderPoint ==
    ASSUME NEW i \in Int, NEW fx \in Int, NEW lx \in Int,
           NEW n \in Nat, n > 0, NEW m \in Nat, NEW lw \in Nat, lw > 0
    PROVE  SameCell(i, n, fx, m, lx, lw)
<1> DEFINE a == (2 * (i + fx - lx) + 1) * m
           b == 2 * lw
<1>1. a \in Int /\ b \in Int /\ b > 0
  OBVIOUS
<1>2. (2 * n * (fx - lx) + (2 * i + 1) * n) * m = n * a
  <2> DEFINE u == fx - lx
  <2>1. u \in Int /\ i + fx - lx = i + u
    OBVIOUS
  <2> HIDE DEF u
  <2>2. (2 * n * u + (2 * i + 1) * n) = n * (2 * (i + u) + 1)
    BY <2>1
  <2> DEFINE v == 2 * (i + u) + 1
  <2>3. v \in Int
    BY <2>1
  <2> HIDE DEF v
  <2>4. (n * v) * m = n * (v * m)
    BY <2>3
  <2>5. QED
    BY <2>1, <2>2, <2>4 DEF u, v
<1>3. 2 * n * lw = n * b
  OBVIOUS
<1>4. (n * a) \div (n * b) = a \div b
  <2> HIDE DEF a, b
  <2>1. QED
    BY <1>1, Cancel
<1>5. QED
  BY <1>2, <1>3, <1>4 DEF CellUnder, Centre, SameCell

LEMMA UnderCell ==
    ASSUME NEW m \in Nat, m > 0, NEW lw \in Nat, lw > 0, NEW i \in Int, NEW lx \in Int
    PROVE  CellUnder(i, m, lx, lw, m, lx, lw) = i
<1> DEFINE x == (2 * m * (lx - lx) + (2 * i + 1) * lw) * m
           d == 2 * m * lw
           e == m * lw
<1>1. e \in Int /\ e > 0
  OBVIOUS
<1>2. d = 2 * e
  OBVIOUS
<1>3. x = (2 * i + 1) * e
  <2>1. 2 * m * (lx - lx) = 0
    OBVIOUS
  <2> DEFINE u == 2 * i + 1
  <2>2. u \in Int
    OBVIOUS
  <2> HIDE DEF u
  <2>3. (0 + u * lw) * m = u * (m * lw)
    BY <2>2
  <2>4. QED
    BY <2>1, <2>3 DEF u
<1> HIDE DEF x, d, e
<1>4. d * i = 2 * (i * e) /\ x = 2 * (i * e) + e /\ i * e \in Int
  BY <1>1, <1>2, <1>3
<1>5. x \in Int /\ d \in Int /\ d > 0 /\ d * i <= x /\ x < d * i + d
  BY <1>1, <1>2, <1>4
<1>6. x \div d = i
  BY <1>5, DivUnique
<1>7. QED
  BY <1>6 DEF CellUnder, x, d

-----------------------------------------------------------------------------
(* The images, as captured and as stitched *)

(***************************************************************************)
(* What is read of an output, and what its image is at logical size.       *)
(***************************************************************************)
Shot(o) ==
    [w |-> o.w, h |-> o.h, source |-> o, format |-> o.format, order |-> o.format,
     at |-> [p \in Cells(o.w, o.h) |-> [output |-> o.name, cell |-> p]]]

CentreOf(q, o) == << Centre(q[1], o.w, o.logical.w), Centre(q[2], o.h, o.logical.h) >>

Scaled(o) ==
    [w |-> o.logical.w, h |-> o.logical.h, source |-> o, format |-> o.format,
     order |-> o.format,
     at |-> [p \in Cells(o.logical.w, o.logical.h) |->
                [output |-> o.name, cell |-> CentreOf(p, o)]]]

LEMMA OutputParts ==
    ASSUME NEW o, IsOutput(o)
    PROVE  /\ o.w \in Nat /\ o.w > 0 /\ o.h \in Nat /\ o.h > 0
           /\ o.logical \in Rects
           /\ o.logical.x \in Int /\ o.logical.y \in Int
           /\ o.logical.w \in Nat /\ o.logical.w > 0 /\ o.logical.h \in Nat /\ o.logical.h > 0
           /\ o # None /\ o.format \in {"Bgra", "Rgba"}
  BY DEF IsOutput, Rects

(***************************************************************************)
(* A point is one of an output's just where its cell is one of them.       *)
(***************************************************************************)
LEMMA CentreOfIn ==
    ASSUME NEW o, IsOutput(o), NEW a \in Int, NEW b \in Int
    PROVE  CentreOf(<<a, b>>, o) \in Cells(o.w, o.h)
              <=> <<a, b>> \in Cells(o.logical.w, o.logical.h)
<1>1. /\ o.w \in Nat /\ o.w > 0 /\ o.h \in Nat /\ o.h > 0
      /\ o.logical.w \in Nat /\ o.logical.w > 0 /\ o.logical.h \in Nat /\ o.logical.h > 0
  BY OutputParts
<1>2. Centre(a, o.w, o.logical.w) \in 0..(o.w - 1) <=> a \in 0..(o.logical.w - 1)
  BY <1>1, CentreIn
<1>3. Centre(b, o.h, o.logical.h) \in 0..(o.h - 1) <=> b \in 0..(o.logical.h - 1)
  BY <1>1, CentreIn
<1>4. CentreOf(<<a, b>>, o) = << Centre(a, o.w, o.logical.w), Centre(b, o.h, o.logical.h) >>
  BY DEF CentreOf
<1>5. QED
  BY <1>2, <1>3, <1>4 DEF Cells

LEMMA ShotScaled ==
    ASSUME NEW o, IsOutput(o)
    PROVE  ToLogicalSize(Shot(o)) = Scaled(o)
<1>1. o # None /\ o.logical.w # 0 /\ o.logical.h # 0
  BY OutputParts
<1>2. ToLogicalSize(Shot(o)) = Resized(Shot(o), o.logical.w, o.logical.h)
  BY <1>1 DEF ToLogicalSize, Shot
<1> DEFINE L == Cells(o.logical.w, o.logical.h)
<1>3. \A p \in L : p = << p[1], p[2] >> /\ p[1] \in Int /\ p[2] \in Int
  BY OutputParts DEF Cells
<1>4. \A p \in L : CentreOf(p, o) \in Cells(o.w, o.h)
  <2> TAKE p \in L
  <2>1. CentreOf(<< p[1], p[2] >>, o) \in Cells(o.w, o.h)
    BY <1>3, CentreOfIn
  <2>2. QED
    BY <1>3, <2>1
<1>5. \A p \in L : Shot(o).at[CentreOf(p, o)] = [output |-> o.name, cell |-> CentreOf(p, o)]
  BY <1>4 DEF Shot
<1>6. \A p \in L : << ((2 * p[1] + 1) * o.w) \div (2 * o.logical.w),
                      ((2 * p[2] + 1) * o.h) \div (2 * o.logical.h) >> = CentreOf(p, o)
  BY DEF CentreOf, Centre
<1>7. Shot(o).w = o.w /\ Shot(o).h = o.h
  BY DEF Shot
<1>8. Resized(Shot(o), o.logical.w, o.logical.h)
        = [Shot(o) EXCEPT !.w = o.logical.w, !.h = o.logical.h,
                          !.at = [p \in L |-> [output |-> o.name, cell |-> CentreOf(p, o)]]]
  <2>1. [p \in L |-> Shot(o).at[<< ((2 * p[1] + 1) * Shot(o).w) \div (2 * o.logical.w),
                                   ((2 * p[2] + 1) * Shot(o).h) \div (2 * o.logical.h) >>]]
            = [p \in L |-> [output |-> o.name, cell |-> CentreOf(p, o)]]
    BY <1>5, <1>6, <1>7
  <2>2. QED
    BY <2>1, Zenon DEF Resized
<1>9. QED
  BY <1>2, <1>8 DEF Shot, Scaled

(***************************************************************************)
(* A capture that succeeded has an image of every target, in the order of  *)
(* the outputs, with every pixel filled.                                   *)
(***************************************************************************)
Count == Cardinality(targets)

LEMMA ImagesTaken ==
    ASSUME CopyInv, call = "captured"
    PROVE  /\ Count \in Nat /\ Count > 0
           /\ DOMAIN Images = 1..Count /\ Len(Images) = Count
           /\ \A i \in 1..Count : /\ InOrder[i] \in targets
                                  /\ IsOutput(desktop[InOrder[i]])
                                  /\ Images[i] = Shot(desktop[InOrder[i]])
           /\ \A o \in targets : \E i \in 1..Count : InOrder[i] = o
<1>1. desktop \in Desktops /\ targets \subseteq DOMAIN desktop /\ targets # {}
  BY DEF CopyInv, CopyTypeOK, Targeted
<1>2. /\ Len(desktop) \in Nat /\ DOMAIN desktop = 1..Len(desktop)
      /\ \A i \in DOMAIN desktop : IsOutput(desktop[i])
  BY <1>1, DesktopAssumption, LenProperties
<1>3. Count \in Nat /\ Increasing(InOrder, targets)
  BY OrderExists DEF Count
<1>4. InOrder \in [1..Count -> targets]
  BY <1>3 DEF Increasing, Count
<1>5. \A o \in targets : \E i \in 1..Count : InOrder[i] = o
  <2>1. targets \in SUBSET (1..Len(desktop))
    BY <1>1, <1>2
  <2>2. \A n \in Nat : \A T \in SUBSET (1..n) : \A f : Increasing(f, T)
            => \A i \in T : \E k \in 1..Cardinality(T) : f[k] = i
    BY IncreasingOnto, Zenon
  <2>3. \A f : Increasing(f, targets)
            => \A i \in targets : \E k \in 1..Cardinality(targets) : f[k] = i
    BY <1>2, <2>1, <2>2, Zenon
  <2>4. QED
    BY <1>3, <2>3, Zenon DEF Count
<1>6. Count > 0
  BY <1>1, <1>3, <1>5
<1>7. \A o \in targets : frames[o].filled
  BY CaptureWhole DEF WholeCapture
<1>8. \A o \in targets : FrameImage(o) = Shot(desktop[o])
  BY <1>7 DEF FrameImage, Shot
<1>9. Images = [i \in 1..Count |-> FrameImage(InOrder[i])]
  BY <1>4 DEF Images
<1> HIDE DEF Images
<1>10. \A i \in 1..Count : Images[i] = Shot(desktop[InOrder[i]])
  BY <1>4, <1>8, <1>9
<1>11. DOMAIN Images = 1..Count
  BY <1>9
<1>12. Images = [i \in 1..Count |-> Images[i]]
  BY <1>9, <1>11
<1>13. Len(Images) = Count
  BY <1>3, <1>12, MappedSeq
<1>14. QED
  BY <1>1, <1>2, <1>3, <1>4, <1>5, <1>6, <1>10, <1>11, <1>13

(***************************************************************************)
(* A pixel v of a picture that shows the part f of the desktop, at its     *)
(* pixel p, a point wide.                                                  *)
(***************************************************************************)
PointOf(f, p, r) == << p[1] + f.x - r.x, p[2] + f.y - r.y >>

CellAt(f, p, o) == CentreOf(PointOf(f, p, o.logical), o)

ShownAt(f, p, v) ==
    LET Over == {o \in targets :
                    CellAt(f, p, desktop[o]) \in Cells(desktop[o].w, desktop[o].h)}
    IN IF Over = {} THEN v = None
       ELSE \E o \in Over : v = [output |-> desktop[o].name, cell |-> CellAt(f, p, desktop[o])]

Normalised == [i \in DOMAIN Images |-> ToLogicalSize(Images[i])]

LEMMA NormalisedParts ==
    ASSUME CopyInv, call = "captured"
    PROVE  /\ DOMAIN Normalised = 1..Count
           /\ \A i \in 1..Count : Normalised[i] = Scaled(desktop[InOrder[i]])
<1>1. DOMAIN Images = 1..Count
  BY ImagesTaken
<1>2. \A i \in 1..Count : ToLogicalSize(Images[i]) = Scaled(desktop[InOrder[i]])
  <2> TAKE i \in 1..Count
  <2>1. IsOutput(desktop[InOrder[i]]) /\ Images[i] = Shot(desktop[InOrder[i]])
    BY ImagesTaken
  <2>2. QED
    BY <2>1, ShotScaled
<1>3. QED
  BY <1>1, <1>2 DEF Normalised

(***************************************************************************)
(* Offsets: pixel i of w that start at x, seen from b and from l.          *)
(***************************************************************************)
LEMMA Offset ==
    ASSUME NEW w \in Nat, NEW i \in 0..(w - 1), NEW x \in Int, NEW b \in Int, NEW l \in Int
    PROVE  /\ i + x - b \in Int /\ i + x - l \in Int
           /\ (i + x - b) + b - l = i + x - l
           /\ \A n \in Nat : b <= x /\ x + w <= b + n => i + x - b \in 0..(n - 1)
  OBVIOUS

(***************************************************************************)
(* The composite of the images shows at every point what lies there, and   *)
(* nothing between them: the part f of it is a picture of that part.       *)
(***************************************************************************)
LEMMA CompositeShows ==
    ASSUME CopyInv, call = "captured", NEW box \in Rects, NEW f \in Rects, Spans(box, f),
           NEW p \in Cells(f.w, f.h)
    PROVE  ShownAt(f, p, Composite(Normalised, box).at[PointOf(f, p, box)])
<1> DEFINE q == PointOf(f, p, box)
           out(i) == desktop[InOrder[i]]
           off(i) == PointOf(f, p, out(i).logical)
           drawn == {i \in 1..Count : off(i) \in Cells(out(i).logical.w, out(i).logical.h)}
           v == Composite(Normalised, box).at[q]
<1>1. /\ Count \in Nat
      /\ \A i \in 1..Count : InOrder[i] \in targets /\ IsOutput(out(i))
      /\ \A o \in targets : \E i \in 1..Count : InOrder[i] = o
  BY ImagesTaken
<1>2. /\ box.x \in Int /\ box.y \in Int /\ box.w \in Nat /\ box.h \in Nat
      /\ f.x \in Int /\ f.y \in Int /\ f.w \in Nat /\ f.h \in Nat
  BY RectParts
<1>3. p[1] \in 0..(f.w - 1) /\ p[2] \in 0..(f.h - 1)
  BY DEF Cells
<1>4. q = << q[1], q[2] >> /\ q[1] = p[1] + f.x - box.x /\ q[2] = p[2] + f.y - box.y
  BY DEF PointOf
<1>5. q \in Cells(box.w, box.h)
  <2>1. box.x <= f.x /\ f.x + f.w <= box.x + box.w /\ box.y <= f.y /\ f.y + f.h <= box.y + box.h
    BY RectParts DEF Spans
  <2>2. p[1] + f.x - box.x \in 0..(box.w - 1)
    BY <1>2, <1>3, <2>1, Offset
  <2>3. p[2] + f.y - box.y \in 0..(box.h - 1)
    BY <1>2, <1>3, <2>1, Offset
  <2> HIDE DEF q
  <2>4. QED
    BY <1>4, <2>2, <2>3 DEF Cells
<1>6. \A i \in 1..Count : /\ Normalised[i] = Scaled(out(i))
                          /\ Place(Normalised[i]) = out(i).logical
                          /\ Normalised[i].w = out(i).logical.w
                          /\ Normalised[i].h = out(i).logical.h
  <2> TAKE i \in 1..Count
  <2>1. Normalised[i] = Scaled(out(i)) /\ out(i) # None
    BY <1>1, NormalisedParts, OutputParts
  <2>2. QED
    BY <2>1 DEF Scaled, Place
<1>7. \A i \in 1..Count : << q[1] + box.x - Place(Normalised[i]).x,
                             q[2] + box.y - Place(Normalised[i]).y >> = off(i)
  <2> TAKE i \in 1..Count
  <2>1. out(i).logical.x \in Int /\ out(i).logical.y \in Int
    BY <1>1, OutputParts
  <2> DEFINE lx == out(i).logical.x
             ly == out(i).logical.y
  <2> HIDE DEF lx, ly
  <2>2. (p[1] + f.x - box.x) + box.x - lx = p[1] + f.x - lx
    <3> DEFINE i0 == p[1]
               f0 == f.x
               b0 == box.x
    <3>1. i0 \in Int /\ f0 \in Int /\ b0 \in Int /\ lx \in Int
      BY <1>2, <1>3, <2>1 DEF lx
    <3> HIDE DEF i0, f0, b0
    <3>2. (i0 + f0 - b0) + b0 - lx = i0 + f0 - lx
      BY <3>1
    <3>3. QED
      BY <3>2 DEF i0, f0, b0
  <2>3. (p[2] + f.y - box.y) + box.y - ly = p[2] + f.y - ly
    <3> DEFINE i0 == p[2]
               f0 == f.y
               b0 == box.y
    <3>1. i0 \in Int /\ f0 \in Int /\ b0 \in Int /\ ly \in Int
      BY <1>2, <1>3, <2>1 DEF ly
    <3> HIDE DEF i0, f0, b0
    <3>2. (i0 + f0 - b0) + b0 - ly = i0 + f0 - ly
      BY <3>1
    <3>3. QED
      BY <3>2 DEF i0, f0, b0
  <2>4. QED
    BY <1>4, <1>6, <2>2, <2>3 DEF PointOf, lx, ly
<1>8. DOMAIN Normalised = 1..Count
  BY NormalisedParts
<1>9. v = IF drawn = {} THEN None ELSE Normalised[Max(drawn)].at[off(Max(drawn))]
  <2> DEFINE far(i, r) == << r[1] + box.x - Place(Normalised[i]).x,
                             r[2] + box.y - Place(Normalised[i]).y >>
             over(r) == {i \in 1..Count :
                            far(i, r) \in Cells(Normalised[i].w, Normalised[i].h)}
  <2>1. \A r \in Cells(box.w, box.h) :
            Composite(Normalised, box).at[r]
                = IF over(r) = {} THEN None ELSE Normalised[Max(over(r))].at[far(Max(over(r)), r)]
    BY <1>8 DEF Composite
  <2>2. \A i \in 1..Count : far(i, q) = off(i)
    BY <1>7
  <2>3. over(q) = drawn
    <3> HIDE DEF q, off, far
    <3>1. QED
      BY <1>6, <2>2
  <2>4. v = IF over(q) = {} THEN None ELSE Normalised[Max(over(q))].at[far(Max(over(q)), q)]
    BY <1>5, <2>1
  <2>5. drawn # {} => Max(drawn) \in 1..Count
    <3>1. drawn \in SUBSET (1..Count)
      OBVIOUS
    <3> HIDE DEF drawn
    <3>2. drawn # {} => Max(drawn) \in drawn
      BY <1>1, <3>1, HasGreatest, Zenon DEF Max
    <3>3. QED
      BY <3>1, <3>2
  <2> HIDE DEF over, far, drawn, q, v, off
  <2>6. QED
    BY <2>2, <2>3, <2>4, <2>5
<1>10. drawn # {} => Max(drawn) \in drawn
  <2>1. drawn \in SUBSET (1..Count)
    OBVIOUS
  <2> HIDE DEF drawn
  <2>2. QED
    BY <1>1, <2>1, HasGreatest, Zenon DEF Max
<1> DEFINE seen == {o \in targets :
                        CellAt(f, p, desktop[o]) \in Cells(desktop[o].w, desktop[o].h)}
<1>11. \A i \in 1..Count : i \in drawn <=> InOrder[i] \in seen
  <2> TAKE i \in 1..Count
  <2> DEFINE l == out(i).logical
             a == p[1] + f.x - l.x
             b == p[2] + f.y - l.y
  <2>1. IsOutput(out(i)) /\ l.x \in Int /\ l.y \in Int /\ InOrder[i] \in targets
    BY <1>1, OutputParts
  <2>2. a \in Int /\ b \in Int
    BY <1>2, <1>3, <2>1, Offset
  <2>3. off(i) = <<a, b>>
    BY DEF PointOf
  <2>4. CellAt(f, p, out(i)) = CentreOf(<<a, b>>, out(i))
    BY DEF CellAt, PointOf
  <2> HIDE DEF a, b
  <2>5. CentreOf(<<a, b>>, out(i)) \in Cells(out(i).w, out(i).h)
            <=> <<a, b>> \in Cells(l.w, l.h)
    BY <2>1, <2>2, CentreOfIn
  <2>6. QED
    BY <2>1, <2>3, <2>4, <2>5
<1>12. CASE drawn = {}
  <2>1. seen = {}
    <3> HIDE DEF drawn, seen
    <3>1. \A o \in seen : o \in targets
      BY DEF seen
    <3>2. QED
      BY <1>1, <1>11, <1>12, <3>1
  <2>2. v = None
    BY <1>9, <1>12
  <2>3. QED
    BY <2>1, <2>2 DEF ShownAt
<1>13. CASE drawn # {}
  <2> DEFINE i == Max(drawn)
  <2>1. i \in drawn /\ i \in 1..Count
    BY <1>10, <1>13
  <2>2. v = Normalised[i].at[off(i)]
    BY <1>9, <1>13
  <2> HIDE DEF i
  <2>3. off(i) \in Cells(out(i).logical.w, out(i).logical.h) /\ InOrder[i] \in seen
    BY <1>11, <2>1
  <2>4. Scaled(out(i)).at[off(i)] = [output |-> out(i).name, cell |-> CentreOf(off(i), out(i))]
    <3> HIDE DEF off
    <3>1. QED
      BY <2>3 DEF Scaled
  <2>5. v = [output |-> out(i).name, cell |-> CellAt(f, p, out(i))]
    BY <1>6, <2>1, <2>2, <2>4 DEF CellAt
  <2> HIDE DEF v, seen
  <2>6. \E o \in seen : v = [output |-> desktop[o].name, cell |-> CellAt(f, p, desktop[o])]
    BY <2>3, <2>5
  <2>7. QED
    BY <2>6 DEF ShownAt, v, seen
<1>14. QED
  BY <1>12, <1>13

(***************************************************************************)
(* So a picture that has a pixel for every point of its frame shows what   *)
(* lies under each, and so does the image of an output, in its own pixels. *)
(***************************************************************************)
LEMMA OutputsOf ==
    ASSUME CopyInv
    PROVE  /\ DOMAIN desktop = 1..Len(desktop) /\ Len(desktop) \in Nat
           /\ \A o \in DOMAIN desktop : IsOutput(desktop[o])
           /\ targets \subseteq DOMAIN desktop
<1>1. desktop \in Desktops /\ targets \subseteq DOMAIN desktop
  BY DEF CopyInv, CopyTypeOK
<1>2. QED
  BY <1>1, DesktopAssumption, LenProperties

LEMMA ShownShows ==
    ASSUME CopyInv, Frame \in Rects, NEW pic, pic.w = Frame.w, pic.h = Frame.h,
           NEW p \in Cells(pic.w, pic.h), ShownAt(Frame, p, pic.at[p])
    PROVE  Shows(pic, p)
<1> DEFINE f == Frame
<1>1. f.x \in Int /\ f.y \in Int /\ f.w \in Nat /\ f.h \in Nat
  BY RectParts
<1>2. pic.w = f.w /\ pic.h = f.h /\ ShownAt(f, p, pic.at[p])
  OBVIOUS
<1>3. p[1] \in 0..(f.w - 1) /\ p[2] \in 0..(f.h - 1)
  BY DEF Cells
<1>4. p[1] \in Int /\ p[2] \in Int /\ f.w > 0 /\ f.h > 0
  <2> HIDE DEF f
  <2>1. QED
    BY <1>1, <1>3
<1>5. ASSUME NEW o \in targets
      PROVE  Under(pic, p, desktop[o]) = CellAt(f, p, desktop[o])
  <2> DEFINE t == desktop[o]
  <2>1. IsOutput(t)
    BY OutputsOf
  <2>2. /\ t.w \in Nat /\ t.h \in Nat /\ t.logical.x \in Int /\ t.logical.y \in Int
        /\ t.logical.w \in Nat /\ t.logical.w > 0 /\ t.logical.h \in Nat /\ t.logical.h > 0
    BY <2>1, OutputParts
  <2>3. Under(pic, p, t) =
            << CellUnder(p[1], f.w, f.x, f.w, t.w, t.logical.x, t.logical.w),
               CellUnder(p[2], f.h, f.y, f.h, t.h, t.logical.y, t.logical.h) >>
    BY <1>2 DEF Under
  <2> HIDE DEF f, t
  <2>4. SameCell(p[1], f.w, f.x, t.w, t.logical.x, t.logical.w)
    BY <1>1, <1>4, <2>2, UnderPoint
  <2>5. SameCell(p[2], f.h, f.y, t.h, t.logical.y, t.logical.h)
    BY <1>1, <1>4, <2>2, UnderPoint
  <2>6. Under(pic, p, t) = CellAt(f, p, t)
    BY <2>3, <2>4, <2>5 DEF SameCell, CellAt, CentreOf, PointOf
  <2>7. QED
    BY <2>6 DEF t
<1> HIDE DEF f
<1> DEFINE over == {o \in targets :
                        Under(pic, p, desktop[o]) \in Cells(desktop[o].w, desktop[o].h)}
           seen == {o \in targets :
                        CellAt(f, p, desktop[o]) \in Cells(desktop[o].w, desktop[o].h)}
<1>6. over = seen
  BY <1>5
<1>7. IF seen = {} THEN pic.at[p] = None
      ELSE \E o \in seen : pic.at[p] = [output |-> desktop[o].name,
                                        cell |-> CellAt(f, p, desktop[o])]
  BY <1>2 DEF ShownAt
<1>8. \A o \in seen : Under(pic, p, desktop[o]) = CellAt(f, p, desktop[o])
  BY <1>5
<1> HIDE DEF over, seen
<1>9. IF over = {} THEN pic.at[p] = None
      ELSE \E o \in over : pic.at[p] = [output |-> desktop[o].name,
                                        cell |-> Under(pic, p, desktop[o])]
  BY <1>6, <1>7, <1>8
<1>10. QED
  BY <1>9 DEF Shows, over

LEMMA ShotShows ==
    ASSUME CopyInv, NEW o \in targets, Frame = desktop[o].logical,
           NEW p \in Cells(desktop[o].w, desktop[o].h)
    PROVE  Shows(Shot(desktop[o]), p)
<1> DEFINE t == desktop[o]
           l == t.logical
           pic == Shot(t)
<1>1. IsOutput(t)
  BY OutputsOf
<1>2. /\ t.w \in Nat /\ t.h \in Nat /\ t.w > 0 /\ t.h > 0 /\ l.x \in Int /\ l.y \in Int
      /\ l.w \in Nat /\ l.w > 0 /\ l.h \in Nat /\ l.h > 0
  BY <1>1, OutputParts
<1>3. p = << p[1], p[2] >> /\ p[1] \in Int /\ p[2] \in Int
  BY <1>2 DEF Cells
<1>4. pic.w = t.w /\ pic.h = t.h /\ pic.at[p] = [output |-> t.name, cell |-> p]
  BY DEF Shot
<1>5. Under(pic, p, t) = << CellUnder(p[1], t.w, l.x, l.w, t.w, l.x, l.w),
                            CellUnder(p[2], t.h, l.y, l.h, t.h, l.y, l.h) >>
  BY <1>4 DEF Under
<1>6. CellUnder(p[1], t.w, l.x, l.w, t.w, l.x, l.w) = p[1]
  BY <1>2, <1>3, UnderCell
<1>7. CellUnder(p[2], t.h, l.y, l.h, t.h, l.y, l.h) = p[2]
  BY <1>2, <1>3, UnderCell, SMTT(30)
<1>8. Under(pic, p, t) = p
  BY <1>3, <1>5, <1>6, <1>7
<1> DEFINE over == {n \in targets :
                        Under(pic, p, desktop[n]) \in Cells(desktop[n].w, desktop[n].h)}
<1>9. o \in over
  BY <1>8
<1>10. pic.at[p] = [output |-> desktop[o].name, cell |-> Under(pic, p, desktop[o])]
  BY <1>4, <1>8
<1> HIDE DEF over, pic
<1>11. \E n \in over : pic.at[p] = [output |-> desktop[n].name,
                                    cell |-> Under(pic, p, desktop[n])]
  BY <1>9, <1>10
<1>12. Shows(pic, p)
  BY <1>9, <1>11 DEF Shows, over
<1>13. QED
  BY <1>12 DEF pic

-----------------------------------------------------------------------------
(* The picture that is delivered *)

(***************************************************************************)
(* An image, in a byte order it claims and has; what it shows is right.    *)
(***************************************************************************)
IsImage(pic) ==
    /\ pic.w \in Nat /\ pic.h \in Nat
    /\ pic = [w |-> pic.w, h |-> pic.h, source |-> pic.source, format |-> pic.format,
              order |-> pic.order, at |-> [p \in Cells(pic.w, pic.h) |-> pic.at[p]]]

IsTrue(pic) ==
    /\ IsImage(pic)
    /\ pic.format \in {"Bgra", "Rgba"} /\ pic.order = pic.format
    /\ \A p \in Cells(pic.w, pic.h) : Shows(pic, p)

LEMMA CompositeIsImage ==
    ASSUME CopyInv, call = "captured", NEW box \in Rects
    PROVE  LET whole == Composite(Normalised, box)
           IN /\ IsImage(whole) /\ whole.w = box.w /\ whole.h = box.h
              /\ whole.format \in {"Bgra", "Rgba"} /\ whole.order = whole.format
<1> DEFINE whole == Composite(Normalised, box)
           o == desktop[InOrder[1]]
<1>1. Count \in Nat /\ 1 \in 1..Count
  BY ImagesTaken
<1>2. IsOutput(o) /\ Normalised[1] = Scaled(o)
  BY <1>1, ImagesTaken, NormalisedParts
<1>3. o.format \in {"Bgra", "Rgba"} /\ Normalised[1].format = o.format
      /\ Normalised[1].order = o.format
  BY <1>2, OutputParts DEF Scaled
<1>4. box.w \in Nat /\ box.h \in Nat
  BY RectParts
<1>5. whole = [w |-> box.w, h |-> box.h, source |-> None, format |-> Normalised[1].format,
               order |-> Normalised[1].order, at |-> whole.at]
  BY DEF Composite
<1>6. whole.at = [p \in Cells(box.w, box.h) |-> whole.at[p]]
  BY DEF Composite
<1> HIDE DEF whole
<1>7. whole.w = box.w /\ whole.h = box.h
      /\ whole.format \in {"Bgra", "Rgba"} /\ whole.order = whole.format
  BY <1>3, <1>5
<1>8. IsImage(whole)
  BY <1>4, <1>5, <1>6 DEF IsImage
<1>9. QED
  BY <1>7, <1>8 DEF whole

(***************************************************************************)
(* A part of it is one, too, with the pixels moved.                        *)
(***************************************************************************)
LEMMA CutIsImage ==
    ASSUME NEW img, IsImage(img), NEW part \in Rects, NEW x, NEW y
    PROVE  LET cut == Cut(img, x, y, part)
           IN /\ IsImage(cut) /\ cut.w = part.w /\ cut.h = part.h
              /\ cut.format = img.format /\ cut.order = img.order
              /\ \A p \in Cells(part.w, part.h) :
                    cut.at[p] = img.at[<< p[1] + part.x - x, p[2] + part.y - y >>]
<1> DEFINE cut == Cut(img, x, y, part)
           new == [p \in Cells(part.w, part.h) |->
                    img.at[<< p[1] + part.x - x, p[2] + part.y - y >>]]
<1>1. part.w \in Nat /\ part.h \in Nat
  BY RectParts
<1>2. cut = [img EXCEPT !.w = part.w, !.h = part.h, !.source = None, !.at = new]
  BY DEF Cut
<1>3. \A p \in Cells(part.w, part.h) :
            new[p] = img.at[<< p[1] + part.x - x, p[2] + part.y - y >>]
  OBVIOUS
<1>4. new = [p \in Cells(part.w, part.h) |-> new[p]]
  OBVIOUS
<1> HIDE DEF new, cut
<1>5. cut = [w |-> part.w, h |-> part.h, source |-> None, format |-> img.format,
             order |-> img.order, at |-> new]
  <2> DEFINE old == [p \in Cells(img.w, img.h) |-> img.at[p]]
  <2>1. img = [w |-> img.w, h |-> img.h, source |-> img.source, format |-> img.format,
               order |-> img.order, at |-> old]
    BY DEF IsImage
  <2> HIDE DEF old
  <2>2. QED
    BY <1>2, <2>1
<1>6. cut.w = part.w /\ cut.h = part.h /\ cut.format = img.format /\ cut.order = img.order
      /\ cut.at = new /\ cut.source = None
  BY <1>5
<1>7. IsImage(cut)
  BY <1>1, <1>4, <1>5, <1>6 DEF IsImage
<1>8. QED
  BY <1>3, <1>6, <1>7 DEF cut

(***************************************************************************)
(* The box around the images, and what Stitch makes of them.               *)
(***************************************************************************)
LEMMA BoxAround ==
    ASSUME CopyInv, call = "captured"
    PROVE  /\ Bbox(Images) \in Rects
           /\ \A o \in targets : Spans(Bbox(Images), desktop[o].logical)
           /\ Count = 1 => \A o \in targets : Bbox(Images) = desktop[o].logical
<1> DEFINE pics == Images
           n == Count
<1>1. /\ n \in Nat /\ n > 0 /\ DOMAIN pics = 1..n /\ Len(pics) = n
      /\ \A i \in 1..n : InOrder[i] \in targets /\ IsOutput(desktop[InOrder[i]])
      /\ \A o \in targets : \E i \in 1..n : InOrder[i] = o
  BY ImagesTaken
<1>2. \A i \in 1..n : Place(pics[i]) = desktop[InOrder[i]].logical
  <2> TAKE i \in 1..n
  <2>1. pics[i] = Shot(desktop[InOrder[i]]) /\ desktop[InOrder[i]] # None
    BY ImagesTaken, OutputParts
  <2>2. QED
    BY <2>1 DEF Place, Shot
<1>3. \A i \in 1..n : Place(pics[i]) \in Rects
  BY <1>1, <1>2, OutputParts
<1> HIDE DEF pics, n
<1>4. /\ Bbox(pics) \in Rects
      /\ \A i \in 1..n : Spans(Bbox(pics), Place(pics[i]))
      /\ n = 1 => Bbox(pics) = Place(pics[1])
  BY <1>1, <1>3, BboxSpans
<1>5. n = 1 => \A i \in 1..n : i = 1
  OBVIOUS
<1>6. /\ \A o \in targets : Spans(Bbox(pics), desktop[o].logical)
      /\ n = 1 => \A o \in targets : Bbox(pics) = desktop[o].logical
  BY <1>1, <1>2, <1>4, <1>5
<1>7. QED
  BY <1>4, <1>6 DEF pics, n

IsRegion(s) == s.kind = "Region" => s.rect \in Rects

LEMMA PartShows ==
    ASSUME CopyInv, call = "captured", NEW box \in Rects, Frame \in Rects, Spans(box, Frame),
           NEW pic, IsImage(pic), pic.w = Frame.w, pic.h = Frame.h,
           \A p \in Cells(pic.w, pic.h) :
                pic.at[p] = Composite(Normalised, box).at[PointOf(Frame, p, box)]
    PROVE  \A p \in Cells(pic.w, pic.h) : Shows(pic, p)
<1> SUFFICES ASSUME NEW p \in Cells(pic.w, pic.h) PROVE Shows(pic, p)
  OBVIOUS
<1> DEFINE f == Frame
<1>1. p \in Cells(f.w, f.h)
  OBVIOUS
<1>2. ShownAt(f, p, Composite(Normalised, box).at[PointOf(f, p, box)])
  <2>1. f \in Rects /\ Spans(box, f)
    OBVIOUS
  <2> HIDE DEF f
  <2>2. QED
    BY <1>1, <2>1, CompositeShows
<1>3. ShownAt(Frame, p, pic.at[p])
  BY <1>2
<1>4. QED
  BY <1>3, ShownShows

LEMMA StitchTrue ==
    ASSUME CopyInv, call = "captured", selection.kind # "PerOutput",
           IsRegion(selection), Stitch(Images, selection) # None
    PROVE  IsTrue(Stitch(Images, selection))
<1> DEFINE box == Bbox(Images)
           whole == Composite(Normalised, box)
           pic == Stitch(Images, selection)
<1>1. box \in Rects
  BY BoxAround
<1>2. /\ IsImage(whole) /\ whole.w = box.w /\ whole.h = box.h
      /\ whole.format \in {"Bgra", "Rgba"} /\ whole.order = whole.format
  BY <1>1, CompositeIsImage
<1>3. box.w \in Nat /\ box.h \in Nat /\ box.x \in Int /\ box.y \in Int
  BY <1>1, RectParts
<1>4. Spans(box, box)
  BY <1>3 DEF Spans, Right, Bottom
<1>5. \A p \in Cells(box.w, box.h) : PointOf(box, p, box) = p
  <2> TAKE p \in Cells(box.w, box.h)
  <2>1. p = << p[1], p[2] >> /\ p[1] \in 0..(box.w - 1) /\ p[2] \in 0..(box.h - 1)
    BY DEF Cells
  <2> HIDE DEF box
  <2>2. p[1] \in Int /\ p[2] \in Int
    BY <1>3, <2>1
  <2>3. p[1] + box.x - box.x = p[1] /\ p[2] + box.y - box.y = p[2]
    BY <1>3, <2>2
  <2>4. QED
    BY <2>1, <2>3 DEF PointOf
<1>6. Count \in Nat /\ Len(Images) = Count
  BY ImagesTaken
<1>7. CASE Len(Images) = 1 /\ selection.kind # "Region"
  <2> DEFINE t == InOrder[1]
  <2>1. 1 \in 1..Count
    BY <1>6, <1>7
  <2>2. t \in targets /\ IsOutput(desktop[t]) /\ Images[1] = Shot(desktop[t])
    BY <2>1, ImagesTaken
  <2>3. pic = Shot(desktop[t])
    BY <1>7, <2>2 DEF Stitch
  <2>4. Frame = desktop[t].logical
    BY <1>6, <1>7, <2>2, BoxAround DEF Frame
  <2>5. \A p \in Cells(desktop[t].w, desktop[t].h) : Shows(Shot(desktop[t]), p)
    BY <2>2, <2>4, ShotShows
  <2>6. desktop[t].w \in Nat /\ desktop[t].h \in Nat /\ desktop[t].format \in {"Bgra", "Rgba"}
    BY <2>2, OutputParts
  <2> DEFINE o == desktop[t]
  <2> HIDE DEF o
  <2>7. /\ Shot(o).w = o.w /\ Shot(o).h = o.h
        /\ Shot(o).format = o.format /\ Shot(o).order = o.format
        /\ Shot(o) = [w |-> o.w, h |-> o.h, source |-> o, format |-> o.format,
                      order |-> o.format, at |-> Shot(o).at]
        /\ Shot(o).source = o
        /\ Shot(o).at = [p \in Cells(o.w, o.h) |-> Shot(o).at[p]]
    BY DEF Shot
  <2>8. o.w \in Nat /\ o.h \in Nat /\ o.format \in {"Bgra", "Rgba"}
        /\ \A p \in Cells(o.w, o.h) : Shows(Shot(o), p)
    BY <2>5, <2>6 DEF o
  <2>9. IsImage(Shot(o))
    BY <2>7, <2>8 DEF IsImage
  <2>10. IsTrue(Shot(o))
    BY <2>7, <2>8, <2>9 DEF IsTrue
  <2>11. QED
    BY <2>3, <2>10 DEF o
<1>8. CASE selection.kind = "Region"
  <2> DEFINE clipped == Intersect(selection.rect, box)
  <2>1. pic = Crop(whole, box, selection.rect)
    BY <1>8, Zenon DEF Stitch, Normalised
  <2>2. clipped # None
    <3> SUFFICES ASSUME clipped = None PROVE FALSE
      OBVIOUS
    <3>1. box # None
      BY <1>1, RegionAssumption
    <3> HIDE DEF whole, box
    <3>2. Crop(whole, box, selection.rect) = None
      BY <3>1 DEF Crop
    <3>3. QED
      BY <2>1, <3>2
  <2>3. selection.rect \in Rects
    BY <1>8 DEF IsRegion
  <2>4. clipped \in Rects /\ Spans(box, clipped)
    BY <1>1, <2>2, <2>3, SharedSpans
  <2>5. Frame = clipped
    BY <1>8 DEF Frame
  <2>6. /\ IsImage(pic) /\ pic.w = clipped.w /\ pic.h = clipped.h
        /\ pic.format \in {"Bgra", "Rgba"} /\ pic.order = pic.format
        /\ \A p \in Cells(clipped.w, clipped.h) : pic.at[p] = whole.at[PointOf(clipped, p, box)]
    <3>1. CASE clipped = box
      <4>1. pic = whole
        BY <2>1, <2>2, <3>1 DEF Crop
      <4> HIDE DEF pic, whole, box, clipped
      <4>2. QED
        BY <1>2, <1>5, <3>1, <4>1
    <3>2. CASE clipped # box
      <4>1. pic = Cut(whole, box.x, box.y, clipped)
        BY <2>1, <2>2, <3>2 DEF Crop
      <4> HIDE DEF pic, whole, box, clipped
      <4> DEFINE cut == Cut(whole, box.x, box.y, clipped)
      <4>2. /\ IsImage(cut) /\ cut.w = clipped.w /\ cut.h = clipped.h
            /\ cut.format = whole.format /\ cut.order = whole.order
            /\ \A p \in Cells(clipped.w, clipped.h) :
                  cut.at[p] = whole.at[<< p[1] + clipped.x - box.x, p[2] + clipped.y - box.y >>]
        BY <1>2, <2>4, CutIsImage
      <4> HIDE DEF cut
      <4>3. pic = cut
        BY <4>1 DEF cut
      <4>4. QED
        BY <1>2, <4>2, <4>3 DEF PointOf
    <3>3. QED
      BY <3>1, <3>2
  <2> HIDE DEF clipped, box, pic
  <2>7. \A p \in Cells(pic.w, pic.h) : pic.at[p] = Composite(Normalised, box).at[PointOf(Frame, p, box)]
    BY <2>5, <2>6
  <2>8. \A p \in Cells(pic.w, pic.h) : Shows(pic, p)
    BY <1>1, <2>4, <2>5, <2>6, <2>7, PartShows
  <2>9. IsTrue(pic)
    BY <2>6, <2>8 DEF IsTrue
  <2>10. QED
    BY <2>9 DEF pic
<1>9. CASE ~(Len(Images) = 1) /\ selection.kind # "Region"
  <2>1. pic = whole
    BY <1>9 DEF Stitch, Normalised
  <2>2. Frame = box
    BY <1>9 DEF Frame
  <2> HIDE DEF pic, box
  <2>3. \A p \in Cells(pic.w, pic.h) : pic.at[p] = Composite(Normalised, box).at[PointOf(Frame, p, box)]
    BY <1>2, <1>5, <2>1, <2>2
  <2>4. \A p \in Cells(pic.w, pic.h) : Shows(pic, p)
    <3> HIDE DEF whole
    <3>1. QED
      BY <1>1, <1>2, <1>4, <2>1, <2>2, <2>3, PartShows
  <2>5. IsTrue(pic)
    <3> HIDE DEF whole
    <3>1. QED
      BY <1>2, <2>1, <2>4 DEF IsTrue
  <2>6. QED
    BY <2>5 DEF pic
<1>10. QED
  BY <1>7, <1>8, <1>9

(***************************************************************************)
(* The editor's canvases are the picture cut up by outputs and put         *)
(* together again: where nothing was drawn every pixel is where it was.    *)
(***************************************************************************)
LEMMA OriginTypes ==
    ASSUME CopyInv, call = "captured", IsRegion(selection)
    PROVE  Origin[1] \in Int /\ Origin[2] \in Int
<1>1. CASE selection.kind = "Region"
  <2>1. selection.rect.x \in Int /\ selection.rect.y \in Int
    BY <1>1, RectParts DEF IsRegion
  <2>2. QED
    BY <1>1, <2>1 DEF Origin
<1>2. CASE selection.kind # "Region"
  <2> DEFINE box == Bbox(Images)
  <2>1. box.x \in Int /\ box.y \in Int
    BY BoxAround, RectParts
  <2> HIDE DEF box
  <2>2. Origin = <<box.x, box.y>>
    BY <1>2 DEF Origin, box
  <2>3. QED
    BY <2>1, <2>2
<1>3. QED
  BY <1>1, <1>2

LEMMA Back ==
    ASSUME NEW x \in Int, NEW a \in Int, NEW s \in Int, NEW w \in Nat, s <= x + a, x + a < s + w
    PROVE  x + a - s \in 0..(w - 1) /\ (x + a - s) + s - x = a
  OBVIOUS

LEMMA SliceKeeps ==
    ASSUME CopyInv, Origin[1] \in Int, Origin[2] \in Int, NEW base, IsImage(base),
           NEW p \in Cells(base.w, base.h), NEW o \in DOMAIN desktop, Slice(base, o) # None,
           Within(Slice(base, o), Origin[1] + p[1], Origin[2] + p[2])
    PROVE  SlicePixels(base, Origin, Slice(base, o)).at
                [<< Origin[1] + p[1] - Slice(base, o).x, Origin[2] + p[2] - Slice(base, o).y >>]
             = base.at[p]
<1> DEFINE x == Origin[1]
           y == Origin[2]
           b == [x |-> x, y |-> y, w |-> base.w, h |-> base.h]
           l == desktop[o].logical
           s == Slice(base, o)
           cut == Cut(base, b.x, b.y, s)
           q == << x + p[1] - s.x, y + p[2] - s.y >>
<1>1. x \in Int /\ y \in Int /\ base.w \in Nat /\ base.h \in Nat
  BY DEF IsImage
<1>2. b \in Rects /\ b.x = x /\ b.y = y
  BY <1>1 DEF Rects
<1>3. l \in Rects
  BY OutputsOf, OutputParts
<1>4. s = Intersect(b, l) /\ s # None
  BY DEF Slice
<1>5. s \in Rects /\ s.w > 0 /\ s.h > 0 /\ Spans(b, s)
  <2> HIDE DEF b, l, s
  <2>1. QED
    BY <1>2, <1>3, <1>4, SharedSpans
<1>6. Intersect(b, s) = s
  <2> HIDE DEF b, s
  <2>1. QED
    BY <1>2, <1>5, SharedInside
<1>7. SlicePixels(base, Origin, s) = cut
  <2> HIDE DEF s
  <2>1. QED
    BY <1>4, <1>6 DEF SlicePixels
<1>8. \A r \in Cells(s.w, s.h) : cut.at[r] = base.at[<< r[1] + s.x - b.x, r[2] + s.y - b.y >>]
  <2> HIDE DEF b, s
  <2>1. QED
    BY <1>5, CutIsImage
<1>9. p = << p[1], p[2] >> /\ p[1] \in Int /\ p[2] \in Int
  BY <1>1 DEF Cells
<1>10. s.x \in Int /\ s.y \in Int /\ s.w \in Nat /\ s.h \in Nat
       /\ Right(s) = s.x + s.w /\ Bottom(s) = s.y + s.h
  <2> HIDE DEF s
  <2>1. QED
    BY <1>5, RectParts
<1>11. /\ s.x <= x + p[1] /\ x + p[1] < s.x + s.w
       /\ s.y <= y + p[2] /\ y + p[2] < s.y + s.h
  <2>1. Within(s, x + p[1], y + p[2])
    OBVIOUS
  <2> HIDE DEF s, x, y
  <2>2. QED
    BY <1>10, <2>1 DEF Within
<1> HIDE DEF s, x, y
<1>12. /\ x + p[1] - s.x \in 0..(s.w - 1) /\ y + p[2] - s.y \in 0..(s.h - 1)
       /\ (x + p[1] - s.x) + s.x - x = p[1] /\ (y + p[2] - s.y) + s.y - y = p[2]
  <2> DEFINE u == p[1]
             v == p[2]
             sx == s.x
             sy == s.y
             sw == s.w
             sh == s.h
  <2>1. /\ u \in Int /\ v \in Int /\ sx \in Int /\ sy \in Int /\ sw \in Nat /\ sh \in Nat
        /\ sx <= x + u /\ x + u < sx + sw /\ sy <= y + v /\ y + v < sy + sh
    BY <1>9, <1>10, <1>11
  <2> HIDE DEF u, v, sx, sy, sw, sh
  <2>2. x + u - sx \in 0..(sw - 1) /\ (x + u - sx) + sx - x = u
    BY <1>1, <2>1, Back
  <2>3. y + v - sy \in 0..(sh - 1) /\ (y + v - sy) + sy - y = v
    BY <1>1, <2>1, Back
  <2>4. QED
    BY <2>2, <2>3 DEF u, v, sx, sy, sw, sh
<1>13. q \in Cells(s.w, s.h)
  BY <1>12 DEF Cells
<1>14. cut.at[q] = base.at[<< q[1] + s.x - b.x, q[2] + s.y - b.y >>]
  <2> HIDE DEF q, cut, b
  <2>1. QED
    BY <1>8, <1>13
<1>15. << q[1] + s.x - b.x, q[2] + s.y - b.y >> = p
  BY <1>2, <1>9, <1>12
<1>16. SlicePixels(base, Origin, s).at[q] = base.at[p]
  <2> HIDE DEF q, cut, b
  <2>1. QED
    BY <1>7, <1>14, <1>15
<1>17. QED
  BY <1>16 DEF s, x, y

LEMMA EditedSame ==
    ASSUME CopyInv, call = "captured", IsRegion(selection), NEW base, IsImage(base)
    PROVE  Edited(base) = base
<1> DEFINE over(p) == {o \in DOMAIN desktop :
                        /\ Slice(base, o) # None
                        /\ Within(Slice(base, o), Origin[1] + p[1], Origin[2] + p[2])}
           far(o, p) == << Origin[1] + p[1] - Slice(base, o).x,
                           Origin[2] + p[2] - Slice(base, o).y >>
           drawn(p) == IF over(p) = {} THEN base.at[p]
                       ELSE SlicePixels(base, Origin, Slice(base, Max(over(p)))).at
                                [far(Max(over(p)), p)]
<1>1. Origin[1] \in Int /\ Origin[2] \in Int
  BY OriginTypes
<1>2. DOMAIN desktop = 1..Len(desktop) /\ Len(desktop) \in Nat
  BY OutputsOf
<1>3. ASSUME NEW p \in Cells(base.w, base.h) PROVE drawn(p) = base.at[p]
  <2>1. CASE over(p) = {}
    BY <2>1
  <2>2. CASE over(p) # {}
    <3> DEFINE T == over(p)
               m == Max(T)
    <3>1. T \in SUBSET (1..Len(desktop)) /\ T # {}
      BY <1>2, <2>2
    <3>2. m \in T
      <4> HIDE DEF T
      <4>1. QED
        BY <1>2, <3>1, HasGreatest, Zenon DEF Max
    <3>3. /\ m \in DOMAIN desktop /\ Slice(base, m) # None
          /\ Within(Slice(base, m), Origin[1] + p[1], Origin[2] + p[2])
      <4> HIDE DEF m
      <4>1. QED
        BY <3>2
    <3>4. drawn(p) = SlicePixels(base, Origin, Slice(base, m)).at[far(m, p)]
      BY <2>2
    <3> HIDE DEF m, T, drawn
    <3>5. SlicePixels(base, Origin, Slice(base, m)).at[far(m, p)] = base.at[p]
      BY <1>1, <3>3, SliceKeeps
    <3>6. QED
      BY <3>4, <3>5
  <2>3. QED
    BY <2>1, <2>2
<1>4. Edited(base) = [base EXCEPT !.at = [p \in Cells(base.w, base.h) |-> drawn(p)]]
  BY Zenon DEF Edited
<1> HIDE DEF drawn
<1>5. [p \in Cells(base.w, base.h) |-> drawn(p)] = [p \in Cells(base.w, base.h) |-> base.at[p]]
  BY <1>3
<1> DEFINE new == [p \in Cells(base.w, base.h) |-> base.at[p]]
<1>6. base = [w |-> base.w, h |-> base.h, source |-> base.source, format |-> base.format,
              order |-> base.order, at |-> new]
  BY DEF IsImage
<1>7. Edited(base) = [base EXCEPT !.at = new]
  BY <1>4, <1>5
<1> HIDE DEF new
<1>8. QED
  BY <1>6, <1>7

(***************************************************************************)
(* What is kept for it: a region is a rectangle, and nothing is edited or  *)
(* delivered but a picture that there is (the error of stitch).            *)
(***************************************************************************)
PixelInv ==
    /\ IsRegion(selection)
    /\ stage \in {"editing", "deliver"} =>
            selection.kind = "PerOutput" \/ Stitch(Images, selection) # None

LEMMA PixelBegins == Init => PixelInv
<1> SUFFICES ASSUME Init PROVE PixelInv
  OBVIOUS
<1>1. stage = "resolve" /\ request \in Requests /\ selection = request.selection
  BY DEF Init
<1>2. IsRegion(selection)
  BY <1>1, RegionAssumption DEF IsRegion
<1>3. QED
  BY <1>1, <1>2 DEF PixelInv

LEMMA PixelStays ==
    ASSUME PixelInv, UNCHANGED <<copying, selection>>,
           stage' \in {"editing", "deliver"} => stage \in {"editing", "deliver"}
    PROVE  PixelInv'
<1>1. UNCHANGED <<desktop, targets, frames, selection>>
  BY DEF copying
<1>2. UNCHANGED <<Images, selection>>
  BY <1>1 DEF Images, InOrder, FrameImage
<1>3. Stitch(Images, selection)' = Stitch(Images, selection)
  BY <1>2
<1>4. QED
  BY <1>1, <1>3 DEF PixelInv, IsRegion

LEMMA PixelKept ==
    ASSUME PixelInv, SinkInv, [Next]_vars
    PROVE  PixelInv'
<1> USE DEF ordering
<1>1. CASE SelectorAnswers
  <2>1. stage' = "resolve" /\ \E o \in Outcomes : selection' = o.selection
    BY <1>1 DEF SelectorAnswers
  <2>2. IsRegion(selection')
    BY <2>1, RegionAssumption DEF IsRegion
  <2>3. QED
    BY <2>1, <2>2 DEF PixelInv, IsRegion
<1>2. CASE WindowManagerAnswers
  <2>1. /\ stage' = "resolve"
        /\ \/ \E r \in Windows : selection' = [kind |-> "Region", rect |-> r]
           \/ \E o \in DOMAIN desktop :
                selection' = [kind |-> "Output", name |-> desktop[o].name]
    BY <1>2 DEF WindowManagerAnswers
  <2>2. IsRegion(selection')
    BY <2>1, RegionAssumption DEF IsRegion
  <2>3. QED
    BY <2>1, <2>2 DEF PixelInv, IsRegion
<1>3. CASE ResolveFails \/ CountdownRefused \/ CaptureFails \/ EditorCloses \/ Resolve
           \/ CountdownTicks
  BY <1>3, PixelStays
     DEF ResolveFails, CountdownRefused, CaptureFails, EditorCloses, Resolve, CountdownTicks,
         Refuse, Answer
<1>4. CASE CaptureStarts \/ CaptureGoesOn
  <2>1. stage' = "capture" /\ selection' = selection
    BY <1>4 DEF CaptureStarts, CaptureGoesOn
  <2>2. QED
    BY <2>1 DEF PixelInv, IsRegion
<1>5. CASE CaptureReturns
  <2>1. UNCHANGED <<copying, selection>>
        /\ (selection.kind = "PerOutput" \/ Stitch(Images, selection) # None)
    BY <1>5 DEF CaptureReturns
  <2>2. UNCHANGED <<Images, selection>>
    BY <2>1 DEF Images, InOrder, FrameImage, copying
  <2>3. Stitch(Images, selection)' = Stitch(Images, selection)
    BY <2>2
  <2>4. QED
    BY <2>1, <2>2, <2>3 DEF PixelInv, IsRegion
<1>6. CASE EditorSwitches \/ EditorSaves
  BY <1>6, PixelStays DEF EditorSwitches, EditorSaves
<1>7. ASSUME stage = "deliver", DeliveryFails PROVE PixelInv'
  BY <1>7, PixelStays DEF DeliveryFails
<1>8. CASE SinksRefused \/ FileFails \/ CopyFails
  BY <1>7, <1>8 DEF SinksRefused, FileFails, CopyFails, AtSink, AtClipboard
<1>9. CASE FirstByteRead \/ GraceOver
  <2>1. parent # "idle"
    BY <1>9 DEF FirstByteRead, GraceOver
  <2>2. stage = "deliver"
    BY <2>1 DEF SinkInv
  <2>3. ASSUME NEW ok, HandshakeOver(ok) PROVE PixelInv'
    BY <1>7, <2>2, <2>3, PixelStays DEF HandshakeOver
  <2>4. CASE FirstByteRead
    BY <2>2, <2>3, <2>4, PixelStays DEF FirstByteRead
  <2>5. CASE GraceOver
    BY <2>3, <2>5 DEF GraceOver
  <2>6. QED
    BY <1>9, <2>4, <2>5
<1>10. CASE SinksBuilt \/ FileWritten \/ CopyInline \/ Fork
  BY <1>10, PixelStays DEF SinksBuilt, FileWritten, CopyInline, Fork, AtSink
<1>11. CASE PictureDone
  BY <1>11, PixelStays DEF PictureDone, Answer
<1>12. CASE (\E s \in DOMAIN servers : \/ HelperClaims(s) \/ HelperRefused(s)
                                      \/ ServeFails(s) \/ HelperKilled(s))
            \/ \E k \in DOMAIN owner : Overtaken(k)
  BY <1>12, PixelStays
     DEF HelperClaims, HelperRefused, ServeFails, HelperKilled, Overtaken, Unserved
<1>13. CASE Exit \/ Returned \/ UNCHANGED vars
  BY <1>13, PixelStays DEF Exit, Returned, vars
<1>14. QED
  BY <1>1, <1>2, <1>3, <1>4, <1>5, <1>6, <1>8, <1>9, <1>10, <1>11, <1>12, <1>13 DEF Next

(***************************************************************************)
(* The picture at the encoder: an output's image, what was stitched, or    *)
(* what was stitched, turned to Rgba, edited, and turned back.             *)
(***************************************************************************)
LEMMA PixelsHold ==
    ASSUME CopyInv, FlowInv, PixelInv
    PROVE  PixelsInPlace
<1> SUFFICES ASSUME stage = "deliver"
             PROVE  /\ Rgba(PictureOf(picture)).order = "Rgba"
                    /\ \A p \in Cells(PictureOf(picture).w, PictureOf(picture).h) :
                            Shows(PictureOf(picture), p)
                    /\ selection.kind \notin {"PerOutput", "Region"} =>
                            \A o \in targets : Spans(Frame, desktop[o].logical)
  BY DEF PixelsInPlace
<1>1. call = "captured" /\ picture \in 1..Pictures /\ (edit => selection.kind # "PerOutput")
  BY DEF FlowInv, Delivering
<1>2. IsRegion(selection)
      /\ (selection.kind = "PerOutput" \/ Stitch(Images, selection) # None)
  BY DEF PixelInv
<1>3. selection.kind \notin {"PerOutput", "Region"} =>
            \A o \in targets : Spans(Frame, desktop[o].logical)
  BY <1>1, BoxAround DEF Frame
<1>4. ASSUME NEW pic, pic = [w |-> pic.w, h |-> pic.h, source |-> pic.source,
                             format |-> pic.format, order |-> pic.order, at |-> pic.at],
             pic.format \in {"Bgra", "Rgba"}, pic.order = pic.format
      PROVE  /\ Rgba(pic) = [w |-> pic.w, h |-> pic.h, source |-> pic.source,
                             format |-> pic.format, order |-> "Rgba", at |-> pic.at]
             /\ Rgba(pic).order = "Rgba"
  BY <1>4 DEF Rgba, Swapped
<1>5. CASE selection.kind = "PerOutput"
  <2> DEFINE o == InOrder[picture]
             t == desktop[o]
  <2>1. Pictures = Count
    BY <1>5 DEF Pictures, Count
  <2>2. o \in targets /\ IsOutput(t) /\ Images[picture] = Shot(t)
    BY <1>1, <2>1, ImagesTaken
  <2>3. PictureOf(picture) = Shot(t)
    BY <1>1, <1>5, <2>2 DEF PictureOf
  <2>4. Frame = t.logical
    BY <1>5 DEF Frame
  <2>5. \A p \in Cells(t.w, t.h) : Shows(Shot(t), p)
    <3> HIDE DEF o
    <3>1. QED
      BY <2>2, <2>4, ShotShows
  <2>6. t.format \in {"Bgra", "Rgba"}
    BY <2>2, OutputParts
  <2> HIDE DEF t, o
  <2>7. Rgba(Shot(t)).order = "Rgba" /\ Shot(t).w = t.w /\ Shot(t).h = t.h
    <3>1. /\ Shot(t).w = t.w /\ Shot(t).h = t.h /\ Shot(t).format = t.format
          /\ Shot(t).order = t.format /\ Shot(t).source = t
          /\ Shot(t) = [w |-> t.w, h |-> t.h, source |-> t, format |-> t.format,
                        order |-> t.format, at |-> Shot(t).at]
      BY DEF Shot
    <3> DEFINE pic == Shot(t)
    <3> HIDE DEF pic
    <3>2. pic = [w |-> pic.w, h |-> pic.h, source |-> pic.source, format |-> pic.format,
                 order |-> pic.order, at |-> pic.at]
          /\ pic.format \in {"Bgra", "Rgba"} /\ pic.order = pic.format
      BY <2>6, <3>1 DEF pic
    <3>3. Rgba(pic).order = "Rgba"
      BY <1>4, <3>2
    <3>4. QED
      BY <3>1, <3>3 DEF pic
  <2>8. QED
    BY <1>5, <2>3, <2>5, <2>7
<1>6. CASE selection.kind # "PerOutput"
  <2> DEFINE pic == Stitch(Images, selection)
  <2>1. IsTrue(pic)
    BY <1>1, <1>2, <1>6, StitchTrue
  <2> HIDE DEF pic
  <2>2. /\ pic = [w |-> pic.w, h |-> pic.h, source |-> pic.source, format |-> pic.format,
                  order |-> pic.order, at |-> pic.at]
        /\ pic.at = [p \in Cells(pic.w, pic.h) |-> pic.at[p]]
    <3> DEFINE new == [p \in Cells(pic.w, pic.h) |-> pic.at[p]]
    <3>1. pic = [w |-> pic.w, h |-> pic.h, source |-> pic.source, format |-> pic.format,
                 order |-> pic.order, at |-> new]
      BY <2>1 DEF IsTrue, IsImage
    <3> HIDE DEF new
    <3>2. pic.at = new
      BY <3>1
    <3>3. QED
      BY <3>1, <3>2 DEF new
  <2>3. /\ pic.w \in Nat /\ pic.h \in Nat
        /\ pic.format \in {"Bgra", "Rgba"} /\ pic.order = pic.format
        /\ \A p \in Cells(pic.w, pic.h) : Shows(pic, p)
    BY <2>1 DEF IsTrue, IsImage
  <2> DEFINE turned == Rgba(pic)
             back == Bgra(turned)
  <2>4. turned = [w |-> pic.w, h |-> pic.h, source |-> pic.source, format |-> pic.format,
                  order |-> "Rgba", at |-> pic.at]
    BY <1>4, <2>2, <2>3
  <2>5. back = [w |-> pic.w, h |-> pic.h, source |-> pic.source, format |-> "Bgra",
                order |-> "Bgra", at |-> pic.at]
    <3> HIDE DEF turned
    <3>1. Swapped(turned.order) = "Bgra"
      BY <2>4 DEF Swapped
    <3>2. back = [turned EXCEPT !.order = "Bgra", !.format = "Bgra"]
      BY <3>1 DEF Bgra
    <3> HIDE DEF back
    <3>3. QED
      BY <2>4, <3>2
  <2>6. Edited(turned) = turned
    <3> HIDE DEF turned
    <3>1. IsImage(turned)
      BY <2>2, <2>3, <2>4 DEF IsImage
    <3>2. QED
      BY <1>1, <1>2, <3>1, EditedSame
  <2>7. CASE edit
    <3>1. PictureOf(picture) = back
      BY <1>6, <2>6, <2>7 DEF PictureOf, pic
    <3> HIDE DEF back
    <3>2. back.w = pic.w /\ back.h = pic.h /\ back.at = pic.at
      BY <2>5
    <3>3. \A p \in Cells(back.w, back.h) : Shows(back, p)
      <4> SUFFICES ASSUME NEW p \in Cells(back.w, back.h) PROVE Shows(back, p)
        OBVIOUS
      <4>1. Shows(pic, p)
        BY <2>3, <3>2
      <4>2. \A o : Under(back, p, o) = Under(pic, p, o)
        BY <3>2 DEF Under
      <4>3. {o \in targets : Under(back, p, desktop[o]) \in Cells(desktop[o].w, desktop[o].h)}
                = {o \in targets : Under(pic, p, desktop[o]) \in Cells(desktop[o].w, desktop[o].h)}
        BY <4>2
      <4>4. QED
        BY <3>2, <4>1, <4>2, <4>3, Zenon DEF Shows
    <3>4. Rgba(back).order = "Rgba"
      BY <2>5 DEF Rgba, Swapped
    <3>5. QED
      BY <1>3, <3>1, <3>3, <3>4
  <2>8. CASE ~edit
    <3>1. PictureOf(picture) = pic
      BY <1>6, <2>8 DEF PictureOf, pic
    <3>2. Rgba(pic).order = "Rgba"
      BY <2>4
    <3>3. QED
      BY <1>3, <2>3, <3>1, <3>2
  <2>9. QED
    BY <2>7, <2>8
<1>7. QED
  BY <1>5, <1>6

(***************************************************************************)
(* Every pixel that goes to the encoder shows what lies under it, for any  *)
(* outputs - whatever their places, sizes and scales - and any selection:  *)
(* through scaling, stitching, cropping, the editor's slices and both      *)
(* changes of byte order (stitch, crop, slice_pixels, compose_edit).       *)
(***************************************************************************)
THEOREM PixelsSafe == Spec => []PixelsInPlace
<1> DEFINE Inv == Typed /\ FlowInv /\ DiskInv /\ PixelInv
<1>1. Init => Inv
  BY TypedBegins, DeliveryBegins, PixelBegins
<1>2. Inv /\ [Next]_vars => Inv'
  <2> SUFFICES ASSUME Inv, [Next]_vars PROVE Inv'
    OBVIOUS
  <2>1. Typed'
    BY TypedKept
  <2>2. FlowInv' /\ DiskInv'
    BY <2>1, FlowKept, DiskKept DEF Typed
  <2>3. PixelInv'
    BY PixelKept DEF Typed
  <2>4. QED
    BY <2>1, <2>2, <2>3
<1>3. Inv => PixelsInPlace
  BY PixelsHold DEF Typed
<1>4. QED
  BY <1>1, <1>2, <1>3, PTL DEF Spec

=============================================================================
