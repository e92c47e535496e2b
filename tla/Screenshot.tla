----------------------------- MODULE Screenshot -----------------------------
(***************************************************************************)
(* One screenshot from request to answer: execute() of cli/screenshot.rs   *)
(* with what it calls - the window manager's one-shot queries, the         *)
(* countdown, the capture, the editor's save, the sinks in turn, and the   *)
(* clipboard's helper process.  The selector and the drawing in the editor *)
(* are in modules of their own: here they only answer.                     *)
(***************************************************************************)
EXTENDS Screencopy, Sinks

CONSTANTS
    Requests,       \* what may be asked for
    Outcomes,       \* what the selector may answer
    Windows,        \* what the window manager may say of the active window
    MaxSaves        \* bound on the saves tried in the editor

ASSUME ScreenshotAssumption ==
    /\ \A r \in Requests : r.sinks \in Seq(SinkSpecs) /\ r.edit \in BOOLEAN /\ r.delay \in Nat
    /\ \A o \in Outcomes : o.edit \in BOOLEAN /\ o.mode \in Modes
    /\ DefaultSinks \in Seq(SinkSpecs)
    /\ MaxSaves \in Nat

Rects == [x : Int, y : Int, w : Nat, h : Nat]

\* A region is a Rect, whoever chose it, and there may be none.
ASSUME RegionAssumption ==
    /\ None \notin Rects
    /\ \A r \in Requests : r.selection.kind = "Region" => r.selection.rect \in Rects
    /\ \A o \in Outcomes : o.selection.kind = "Region" => o.selection.rect \in Rects
    /\ Windows \subseteq Rects

\* An output has an area, in points and in pixels.
IsOutput(o) ==
    /\ o # None
    /\ o.logical \in Rects /\ o.logical.w > 0 /\ o.logical.h > 0
    /\ o.w \in Nat \ {0} /\ o.h \in Nat \ {0}
    /\ o.format \in {"Bgra", "Rgba"}

\* The names of outputs are their own, and nobody names a path that the
\* template gives to one of them.  The compositor's buffers agree in format.
ASSUME DesktopAssumption ==
    \A d \in Desktops :
        /\ d \in Seq(Range(d))
        /\ \A i \in DOMAIN d : IsOutput(d[i])
        /\ \A i, j \in DOMAIN d : d[i].format = d[j].format
        /\ \A i, j \in DOMAIN d : d[i].name = d[j].name => i = j
        /\ \A i \in DOMAIN d : FileName(d[i].name, TRUE) \notin Paths

VARIABLES
    stage,          \* where execute() is
    request,        \* what was asked for
    selection, sinks, edit, delay,  \* as resolved
    switch,         \* the SinkSelection behind the editor's switcher
    picture, sink,  \* the picture and the sink being written; sink 0: none yet
    paths,          \* the paths written so far
    saves,          \* how many saves the editor has tried
    disk,           \* path -> the number of the picture in the file, or Torn
    servers,        \* the processes and threads that serve a clipboard
    owner,          \* Wayland selection -> the server that owns it
    pipe,           \* the handshake bytes of the last helper
    parent,         \* "idle", or which byte it waits for: "first", "grace"
    disturbed,      \* history: a clipboard was lost to others or to a late death
    result

ordering == <<request, selection, sinks, edit, delay, switch>>
delivery == <<picture, sink, paths, saves, disk>>
clipboard == <<servers, owner, pipe, parent, disturbed>>
vars == <<copying, ordering, delivery, clipboard, stage, result>>

Torn == 0

Nobody == 0

Stages == {"resolve", "countdown", "capture", "editing", "deliver", "returned", "exited"}

\* A server is a helper process, or a thread of the process that took the picture.
Servers == [by : {"Inline", "Fork"}, picture : Nat \ {0},
            holds : SUBSET {"Regular", "Primary"},
            state : {"preparing", "serving", "gone"}]

TypeOK ==
    /\ CopyTypeOK
    /\ stage \in Stages
    /\ request \in Requests
    /\ edit \in BOOLEAN /\ delay \in Nat
    /\ picture \in Nat \ {0} /\ sink \in 0..(Len(sinks) + 1) /\ saves \in 0..MaxSaves
    /\ servers \in Seq(Servers)
    /\ owner \in [{"Regular", "Primary"} -> 0..Len(servers)]
    /\ pipe \in Seq({0, 1})
    /\ parent \in {"idle", "first", "grace"}
    /\ disturbed \in BOOLEAN
    /\ stage \in {"returned", "exited"} => result.answer \in {"written", "closed", "error"}

Init ==
    /\ CopyInit
    /\ stage = "resolve"
    /\ request \in Requests
    /\ selection = request.selection
    /\ sinks = EffectiveSinks(request.sinks)
    /\ edit = request.edit
    /\ delay = request.delay
    /\ switch = None
    /\ picture = 1 /\ sink = 0 /\ paths = <<>> /\ saves = 0
    /\ disk = [p \in {} |-> Torn]
    /\ servers = <<>> /\ owner = [s \in {"Regular", "Primary"} |-> Nobody]
    /\ pipe = <<>> /\ parent = "idle" /\ disturbed = FALSE
    /\ result = None

Answer(answer, written) ==
    /\ stage' = "returned"
    /\ result' = [answer |-> answer, paths |-> written]

Refuse == Answer("error", <<>>)

-----------------------------------------------------------------------------
(* resolve_selection *)

SelectorAnswers ==
    /\ stage = "resolve" /\ selection.kind = "Interactive"
    /\ \E o \in Outcomes :
        /\ selection' = o.selection
        /\ edit' = (edit \/ o.edit)
        /\ sinks' = ApplyOutputOverride(sinks, o.mode)
    /\ delay' = 0
    /\ UNCHANGED <<copying, request, switch, delivery, clipboard, stage, result>>

\* The window manager names the active window's rectangle, or the output.
WindowManagerAnswers ==
    /\ stage = "resolve"
    /\ \/ /\ selection.kind = "Window"
          /\ \E r \in Windows : selection' = [kind |-> "Region", rect |-> r]
       \/ /\ selection.kind = "Focused"
          /\ \E o \in DOMAIN desktop :
                selection' = [kind |-> "Output", name |-> desktop[o].name]
    /\ UNCHANGED <<copying, request, sinks, edit, delay, switch, delivery, clipboard, stage,
                   result>>

\* Cancelled, no window manager, no active window, a window without geometry.
ResolveFails ==
    /\ stage = "resolve" /\ selection.kind \in {"Interactive", "Window", "Focused"}
    /\ Refuse
    /\ UNCHANGED <<copying, ordering, delivery, clipboard>>

Resolve ==
    /\ stage = "resolve" /\ EnsureResolvable(selection)
    /\ IF edit /\ selection.kind = "PerOutput" THEN Refuse
       ELSE /\ stage' = IF delay > 0 THEN "countdown" ELSE "capture"
            /\ UNCHANGED result
    /\ UNCHANGED <<copying, ordering, delivery, clipboard>>

\* Defect: the tick that shows zero does not end the countdown.
CountdownTicks_ShowsZero ==
    /\ stage = "countdown"
    /\ delay' = delay - 1
    /\ stage' = IF delay = 0 THEN "capture" ELSE stage
    /\ UNCHANGED <<copying, request, selection, sinks, edit, switch, delivery, clipboard,
                   result>>

\* One second; at zero the windows close and the application quits.
CountdownTicks ==
    /\ stage = "countdown"
    /\ delay' = delay - 1
    /\ stage' = IF delay' = 0 THEN "capture" ELSE stage
    /\ UNCHANGED <<copying, request, selection, sinks, edit, switch, delivery, clipboard,
                   result>>

CountdownRefused ==
    /\ stage = "countdown"
    /\ Refuse
    /\ UNCHANGED <<copying, ordering, delivery, clipboard>>

-----------------------------------------------------------------------------
(* Capture and editor *)

CaptureStarts ==
    /\ stage = "capture" /\ Start(selection)
    /\ UNCHANGED <<ordering, delivery, clipboard, stage, result>>

CaptureGoesOn ==
    /\ stage = "capture" /\ CopyNext
    /\ UNCHANGED <<ordering, delivery, clipboard, stage, result>>

Pictures == IF selection.kind = "PerOutput" THEN Cardinality(targets) ELSE 1

\* base_from_captured, spawn_monitor_overlay, and compose_edit of canvases on
\* which nothing was drawn.
Origin == IF selection.kind = "Region" THEN <<selection.rect.x, selection.rect.y>>
          ELSE LET box == Bbox(Images) IN <<box.x, box.y>>

Slice(base, o) ==
    Intersect([x |-> Origin[1], y |-> Origin[2], w |-> base.w, h |-> base.h],
              desktop[o].logical)

Edited(base) ==
    LET Over(p) == {o \in DOMAIN desktop :
                        /\ Slice(base, o) # None
                        /\ Within(Slice(base, o), Origin[1] + p[1], Origin[2] + p[2])}
        At(o, p) == <<Origin[1] + p[1] - Slice(base, o).x,
                      Origin[2] + p[2] - Slice(base, o).y>>
    IN [base EXCEPT !.at = [p \in Cells(base.w, base.h) |->
            IF Over(p) = {} THEN base.at[p]
            ELSE LET o == Max(Over(p))
                 IN SlicePixels(base, Origin, Slice(base, o)).at[At(o, p)]]]

\* bgra_to_rgba, and back in compose_edit.
Swapped(order) == IF order = "Bgra" THEN "Rgba" ELSE "Bgra"

Rgba(img) == IF img.format = "Bgra" THEN [img EXCEPT !.order = Swapped(@)] ELSE img

Bgra(img) == [img EXCEPT !.order = Swapped(@), !.format = "Bgra"]

\* What is encoded as picture n.
PictureOf(n) ==
    CASE selection.kind = "PerOutput" -> Images[n]
      [] edit -> Bgra(Edited(Rgba(Stitch(Images, selection))))
      [] OTHER -> Stitch(Images, selection)

CaptureFails ==
    /\ stage = "capture"
    /\ \/ call = "failed"
       \/ call = "captured" /\ selection.kind # "PerOutput" /\ Stitch(Images, selection) = None
    /\ Refuse
    /\ UNCHANGED <<copying, ordering, delivery, clipboard>>

CaptureReturns ==
    /\ stage = "capture" /\ call = "captured"
    /\ selection.kind = "PerOutput" \/ Stitch(Images, selection) # None
    /\ stage' = IF edit THEN "editing" ELSE "deliver"
    /\ switch' = IF edit THEN FromSinks(sinks) ELSE None
    /\ UNCHANGED <<copying, request, selection, sinks, edit, delay, delivery, clipboard, result>>

\* set_output_mode
EditorSwitches ==
    /\ stage = "editing"
    /\ switch' = SetMode(switch, NextMode(switch.mode))
    /\ UNCHANGED <<copying, request, selection, sinks, edit, delay, delivery, clipboard,
                   stage, result>>

\* The closure of sinks_save_fn.
EditorSaves ==
    /\ stage = "editing" /\ saves < MaxSaves
    /\ saves' = saves + 1
    /\ sinks' = ToSinks(switch)
    /\ stage' = "deliver"
    /\ UNCHANGED <<copying, request, selection, edit, delay, switch, clipboard, picture, sink,
                   paths, disk, result>>

\* Escape, a refusal of GTK, or no monitor that shows a part of the picture.
EditorCloses ==
    /\ stage = "editing"
    /\ Answer("closed", <<>>) \/ Refuse
    /\ UNCHANGED <<copying, ordering, delivery, clipboard>>

-----------------------------------------------------------------------------
(* Outputs: the sinks in turn, for each picture in turn *)

\* An error: the editor stays open, everything else is over.  What was
\* written stays written.
DeliveryFails ==
    /\ paths' = <<>> /\ sink' = 0
    /\ parent' = "idle" /\ pipe' = <<>>
    /\ IF edit THEN stage' = "editing" /\ UNCHANGED result ELSE Refuse
    /\ UNCHANGED <<copying, ordering, picture, saves>>

\* from_specs and encode_png.
SinksBuilt ==
    /\ stage = "deliver" /\ sink = 0
    /\ sink' = 1
    /\ UNCHANGED <<copying, ordering, clipboard, picture, paths, saves, disk, stage, result>>

\* The default directory cannot be created, or the picture not be encoded.
SinksRefused ==
    /\ stage = "deliver" /\ sink = 0
    /\ DeliveryFails
    /\ UNCHANGED <<disk, servers, owner, disturbed>>

AtSink == stage = "deliver" /\ sink \in DOMAIN sinks /\ parent = "idle"

OutputName == IF selection.kind = "PerOutput" THEN desktop[InOrder[picture]].name ELSE Unset

Path == PathOf(sinks[sink], OutputName, selection.kind = "PerOutput")

Holding(path, content) ==
    [p \in DOMAIN disk \cup {path} |-> IF p = path THEN content ELSE disk[p]]

FileWritten ==
    /\ AtSink /\ IsFile(sinks[sink])
    /\ disk' = Holding(Path, picture)
    /\ paths' = Append(paths, Path)
    /\ sink' = sink + 1
    /\ UNCHANGED <<copying, ordering, clipboard, picture, saves, stage, result>>

\* Before the file was opened, or in the middle of it.
FileFails ==
    /\ AtSink /\ IsFile(sinks[sink])
    /\ disk' \in {disk, Holding(Path, Torn)}
    /\ DeliveryFails
    /\ UNCHANGED <<servers, owner, disturbed>>

\* The paths of this picture are added to those of the pictures before it.
PictureDone ==
    /\ stage = "deliver" /\ sink > Len(sinks)
    /\ IF picture < Pictures
       THEN picture' = picture + 1 /\ sink' = 0 /\ UNCHANGED <<stage, result>>
       ELSE Answer("written", paths) /\ UNCHANGED <<picture, sink>>
    /\ UNCHANGED <<copying, ordering, clipboard, paths, saves, disk>>

-----------------------------------------------------------------------------
(* The clipboard: a thread of the daemon, or a helper process *)

AtClipboard == AtSink /\ IsClipboard(sinks[sink])

Held == SelectionsOf(TargetOf(sinks[sink]))

\* Server s takes the selections ss; who has lost all it had stops serving.
Claim(s, ss, all) ==
    /\ owner' = [k \in DOMAIN owner |-> IF k \in ss THEN s ELSE owner[k]]
    /\ servers' = [i \in DOMAIN all |->
            IF all[i].state = "serving" /\ \A k \in DOMAIN owner : owner'[k] # i
            THEN [all[i] EXCEPT !.state = "gone"] ELSE all[i]]

\* Defect: a process that is about to end serves the clipboard itself.
Strategy_AlwaysInline == "Inline"

Strategy == IF request.daemon THEN "Inline" ELSE "Fork"

\* copy_inline
CopyInline ==
    /\ AtClipboard /\ Strategy = "Inline"
    /\ LET new == [by |-> "Inline", picture |-> picture, holds |-> Held, state |-> "serving"]
       IN Claim(Len(servers) + 1, Held, Append(servers, new))
    /\ sink' = sink + 1
    /\ UNCHANGED <<copying, ordering, picture, paths, saves, disk, pipe, parent, disturbed,
                   stage, result>>

\* copy_inline fails, or there is no pipe or no process to be had.
CopyFails ==
    /\ AtClipboard
    /\ DeliveryFails
    /\ UNCHANGED <<disk, servers, owner, disturbed>>

Fork ==
    /\ AtClipboard /\ Strategy = "Fork"
    /\ servers' = Append(servers,
            [by |-> "Fork", picture |-> picture, holds |-> Held, state |-> "preparing"])
    /\ parent' = "first" /\ pipe' = <<>>
    /\ UNCHANGED <<copying, ordering, delivery, owner, disturbed, stage, result>>

Unserved == <<copying, ordering, delivery, parent, stage, result>>

Latest(s) == s = Len(servers) /\ parent # "idle"

Writes(s, byte) == pipe' = IF Latest(s) THEN Append(pipe, byte) ELSE pipe

HelperClaims(s) ==
    /\ servers[s].state = "preparing"
    /\ Claim(s, servers[s].holds, [servers EXCEPT ![s].state = "serving"])
    /\ Writes(s, 0)
    /\ UNCHANGED <<Unserved, disturbed>>

HelperRefused(s) ==
    /\ servers[s].state = "preparing"
    /\ servers' = [servers EXCEPT ![s].state = "gone"]
    /\ Writes(s, 1)
    /\ UNCHANGED <<Unserved, owner, disturbed>>

Without(s) == [k \in DOMAIN owner |-> IF owner[k] = s THEN Nobody ELSE owner[k]]

\* serve() fails: in time for the parent to hear of it, or later.
ServeFails(s) ==
    /\ servers[s].state = "serving" /\ servers[s].by = "Fork"
    /\ servers' = [servers EXCEPT ![s].state = "gone"]
    /\ owner' = Without(s)
    /\ Writes(s, 1)
    /\ disturbed' = (disturbed \/ ~Latest(s))
    /\ UNCHANGED Unserved

HelperKilled(s) ==
    /\ servers[s].state \in {"preparing", "serving"} /\ servers[s].by = "Fork"
    /\ servers' = [servers EXCEPT ![s].state = "gone"]
    /\ owner' = Without(s)
    /\ disturbed' = (disturbed \/ servers[s].state = "serving")
    /\ UNCHANGED <<Unserved, pipe>>

\* Another program copies something: serve() ends when nothing is left to it.
Overtaken(k) ==
    /\ owner[k] # Nobody
    /\ Claim(Nobody, {k}, servers)
    /\ IF servers'[owner[k]].state = "gone"
       THEN Writes(owner[k], 0) ELSE UNCHANGED pipe
    /\ disturbed' = TRUE
    /\ UNCHANGED Unserved

HandshakeOver(ok) ==
    IF ok
    THEN /\ sink' = sink + 1
         /\ parent' = "idle" /\ pipe' = <<>>
         /\ UNCHANGED <<copying, ordering, picture, paths, saves, stage, result>>
    ELSE DeliveryFails

\* The first byte, or the end of the pipe.
FirstByteRead ==
    /\ parent = "first"
    /\ pipe # <<>> \/ servers[Len(servers)].state = "gone"
    /\ IF pipe # <<>> /\ Head(pipe) = 0
       THEN /\ parent' = "grace" /\ pipe' = Tail(pipe)
            /\ UNCHANGED <<copying, ordering, picture, sink, paths, saves, stage, result>>
       ELSE HandshakeOver(FALSE)
    /\ UNCHANGED <<disk, servers, owner, disturbed>>

\* A second byte within the grace period decides; silence and the end of the
\* pipe count as serving.
GraceOver ==
    /\ parent = "grace"
    /\ HandshakeOver(pipe = <<>> \/ Head(pipe) = 0)
    /\ UNCHANGED <<disk, servers, owner, disturbed>>

\* The process of the command line ends and its threads with it; helpers do not.
Exit ==
    /\ stage = "returned" /\ ~request.daemon
    /\ stage' = "exited"
    /\ servers' = [s \in DOMAIN servers |->
            IF servers[s].by = "Inline" THEN [servers[s] EXCEPT !.state = "gone"]
            ELSE servers[s]]
    /\ owner' = [k \in DOMAIN owner |->
            IF owner[k] # Nobody /\ servers[owner[k]].by = "Inline" THEN Nobody
            ELSE owner[k]]
    /\ UNCHANGED <<copying, ordering, delivery, pipe, parent, disturbed, result>>

-----------------------------------------------------------------------------
Returned ==
    /\ \/ stage = "exited"
       \/ stage = "returned" /\ request.daemon
    /\ UNCHANGED vars

Next ==
    \/ SelectorAnswers \/ WindowManagerAnswers \/ ResolveFails \/ Resolve
    \/ CountdownTicks \/ CountdownRefused
    \/ CaptureStarts \/ CaptureGoesOn \/ CaptureFails \/ CaptureReturns
    \/ EditorSwitches \/ EditorSaves \/ EditorCloses
    \/ SinksBuilt \/ SinksRefused \/ FileWritten \/ FileFails \/ PictureDone
    \/ CopyInline \/ CopyFails \/ Fork \/ FirstByteRead \/ GraceOver
    \/ \E s \in DOMAIN servers : \/ HelperClaims(s) \/ HelperRefused(s)
                                 \/ ServeFails(s) \/ HelperKilled(s)
    \/ \E k \in DOMAIN owner : Overtaken(k)
    \/ Exit \/ Returned

(***************************************************************************)
(* execute() goes on by itself and time passes; a helper that was forked   *)
(* gets through its own start.  Nobody else owes anything: not the user,   *)
(* nor the compositor once the frames are asked for.                       *)
(***************************************************************************)
Progress ==
    \/ Resolve \/ CountdownTicks
    \/ CaptureStarts \/ CaptureFails \/ CaptureReturns
    \/ stage = "capture" /\ UNCHANGED <<ordering, delivery, clipboard, stage, result>>
        /\ (Connected \/ FormatsKnown \/ CopiesDone \/ Tick \/ DispatchTimesOut)
    \/ SinksBuilt \/ FileWritten \/ PictureDone
    \/ CopyInline \/ Fork \/ FirstByteRead \/ GraceOver

HelperStarts == \E s \in DOMAIN servers : HelperClaims(s) \/ HelperRefused(s)

Spec == Init /\ [][Next]_vars /\ WF_vars(Progress) /\ WF_vars(HelperStarts)

-----------------------------------------------------------------------------
(***************************************************************************)
(* Every pixel of a picture that goes to the encoder shows the cell of a   *)
(* screen that lies under its centre, on an output that was captured; it   *)
(* is transparent just where there is none; nothing of an output is cut    *)
(* off unless a region was asked for; and the bytes are in the order that  *)
(* the encoder takes them for - for outputs of different scale, gaps,      *)
(* negative coordinates, regions over several outputs, and after a trip    *)
(* through the editor's canvases (stitch, bbox, crop, slice_pixels,        *)
(* compose_edit, bgra_to_rgba).                                            *)
(***************************************************************************)
\* The part of the desktop that the picture is of.
Frame ==
    CASE selection.kind = "PerOutput" -> desktop[InOrder[picture]].logical
      [] selection.kind = "Region" -> Intersect(selection.rect, Bbox(Images))
      [] OTHER -> Bbox(Images)

\* The cell, of m that span lw points from lx on, under the centre of pixel i
\* of a frame that shows fw points from fx on in n pixels.
CellUnder(i, n, fx, fw, m, lx, lw) ==
    ((2 * n * (fx - lx) + (2 * i + 1) * fw) * m) \div (2 * n * lw)

\* The cell of output o under pixel p of a picture.
Under(pic, p, o) ==
    << CellUnder(p[1], pic.w, Frame.x, Frame.w, o.w, o.logical.x, o.logical.w),
       CellUnder(p[2], pic.h, Frame.y, Frame.h, o.h, o.logical.y, o.logical.h) >>

Shows(pic, p) ==
    LET Over == {o \in targets :
                    Under(pic, p, desktop[o]) \in Cells(desktop[o].w, desktop[o].h)}
    IN IF Over = {} THEN pic.at[p] = None
       ELSE \E o \in Over :
                pic.at[p] = [output |-> desktop[o].name, cell |-> Under(pic, p, desktop[o])]

Spans(box, r) == /\ box.x <= r.x /\ Right(r) <= Right(box)
                 /\ box.y <= r.y /\ Bottom(r) <= Bottom(box)

PixelsInPlace ==
    stage = "deliver" /\ sink = 0 =>
        LET pic == PictureOf(picture)
        IN /\ Rgba(pic).order = "Rgba"
           /\ \A p \in Cells(pic.w, pic.h) : Shows(pic, p)
           /\ selection.kind \notin {"PerOutput", "Region"} =>
                \A o \in targets : Spans(Frame, desktop[o].logical)

(***************************************************************************)
(* An answer that lists the files written is true: each sink of each       *)
(* picture has its path in it, every file is whole, and every picture is   *)
(* in one, at the path the user named if there is one: for every sink by   *)
(* default name, and for a named path if there is but one picture to write *)
(* to it (Outputs::write_png, execute()'s loop).  Of several pictures for  *)
(* one named path only the last stays, though --per-output is to "capture  *)
(* each connected output to a separate file" (cli/screenshot.rs:18): a     *)
(* named path takes no output's name, and that case is left out.           *)
(***************************************************************************)
SuccessIsComplete ==
    stage \in {"returned", "exited"} /\ result.answer = "written" =>
        LET files == {i \in DOMAIN sinks : IsFile(sinks[i])}
        IN /\ Len(result.paths) = Pictures * Cardinality(files)
           /\ \A i \in DOMAIN result.paths :
                result.paths[i] \in DOMAIN disk /\ disk[result.paths[i]] # Torn
           /\ \A i \in files :
                LET named == sinks[i].path # Unset
                IN /\ named => sinks[i].path \in Range(result.paths)
                   /\ ~named \/ Pictures = 1 =>
                        \A n \in 1..Pictures :
                            \E path \in Range(result.paths) :
                                disk[path] = n /\ (named => path = sinks[i].path)

(***************************************************************************)
(* After a request that succeeded, and after its process has ended, a      *)
(* paste gives its last picture on every Wayland selection it was to be    *)
(* copied to, unless somebody else has copied since or a helper that was   *)
(* serving has died: a sink that comes later, a save that failed halfway   *)
(* and a helper that never came up do not count (copy_inline, copy_forked, *)
(* strategy, read_serve_outcome).                                          *)
(***************************************************************************)
PasteYieldsLast ==
    stage \in {"returned", "exited"} /\ result.answer = "written" /\ ~disturbed =>
        \A i \in DOMAIN sinks : IsClipboard(sinks[i]) =>
            \A k \in SelectionsOf(TargetOf(sinks[i])) :
                /\ owner[k] # Nobody
                /\ servers[owner[k]].state = "serving"
                /\ servers[owner[k]].picture = Pictures

(***************************************************************************)
(* However often the switchers are turned, a file goes to the path and a   *)
(* copy to the selection that the request had named ("Cycling away from a  *)
(* mode and back is therefore lossless", output/mod.rs).  The selector     *)
(* followed by the editor is left out: there the first switcher hands on   *)
(* only what its mode needs.                                               *)
(***************************************************************************)
SwitchingIsLossless ==
    stage = "deliver" /\ (edit /\ request.selection.kind # "Interactive") =>
        LET given == EffectiveSinks(request.sinks)
        IN \A i \in DOMAIN sinks :
            IF IsFile(sinks[i]) THEN sinks[i].path = FirstPath(given)
            ELSE sinks[i].target = FirstKind(given)

(***************************************************************************)
(* Whatever the compositor does once it was asked for frames, a request    *)
(* that is past its selection gets to the editor or to an answer           *)
(* (wait_until, read_serve_outcome).                                       *)
(***************************************************************************)
RequestReturns ==
    stage \in {"countdown", "capture", "deliver"} ~> stage \in {"editing", "returned", "exited"}

=============================================================================
