----------------------------- MODULE Screencopy -----------------------------
(***************************************************************************)
(* capture_blocking of capture/wlr.rs: one call of the screencopy client.  *)
(* It asks the compositor for a frame of every output it wants, waits for  *)
(* the format of each, hands out buffers, waits for each to be filled, and *)
(* reads them.  Both waits have a deadline of their own.  The compositor   *)
(* answers in any order, late, with a failure, or never; outputs may be    *)
(* unplugged and the connection may break.                                 *)
(***************************************************************************)
EXTENDS Region

CONSTANTS
    Desktops,   \* what the compositor may show: sequences of outputs
    Deadline    \* SCREENCOPY_FRAME_TIMEOUT, in ticks

VARIABLES
    desktop,    \* the outputs that were there at the start
    plugged,    \* the positions in `desktop` of those still there
    call,       \* "idle", "connecting", "formats", "copies", "captured", "failed"
    wanted,     \* the selection
    targets,    \* the positions of the outputs to capture, in their order
    frames,     \* a FrameSlot for each target, and whether its buffer is filled
    asked,      \* what the compositor still owes for each target
    clock       \* ticks since the wait began

copying == <<desktop, plugged, call, wanted, targets, frames, asked, clock>>

ASSUME DeadlineAssumption == Deadline \in Nat \ {0}

FrameSlots == [format : BOOLEAN, done : BOOLEAN, failed : BOOLEAN, filled : BOOLEAN]

NewFrame == [format |-> FALSE, done |-> FALSE, failed |-> FALSE, filled |-> FALSE]

Owed == {"buffer", "copy", "ready", "nothing"}

CopyTypeOK ==
    /\ desktop \in Desktops
    /\ plugged \subseteq DOMAIN desktop
    /\ call \in {"idle", "connecting", "formats", "copies", "captured", "failed"}
    /\ targets \subseteq DOMAIN desktop
    /\ frames \in [targets -> FrameSlots]
    /\ asked \in [targets -> Owed]
    /\ clock \in 0..Deadline

CopyInit ==
    /\ desktop \in Desktops
    /\ plugged = DOMAIN desktop
    /\ call = "idle"
    /\ wanted = None
    /\ targets = {} /\ frames = [o \in {} |-> NewFrame] /\ asked = [o \in {} |-> "nothing"]
    /\ clock = 0

Start(selection) ==
    /\ call = "idle"
    /\ call' = "connecting"
    /\ wanted' = selection
    /\ UNCHANGED <<desktop, plugged, targets, frames, asked, clock>>

-----------------------------------------------------------------------------
WantOutput(selection, output) ==
    \/ selection.kind \in {"Full", "PerOutput"}
    \/ selection.kind = "Output" /\ selection.name = output.name
    \/ selection.kind = "Region" /\ Intersect(selection.rect, output.logical) # None

EnsureResolvable(selection) ==
    selection.kind \notin {"Focused", "Window", "Interactive"}

Resolved == {o \in plugged : WantOutput(wanted, desktop[o])}

\* The two roundtrips are over; the globals may be missing.
Connected ==
    /\ call = "connecting"
    /\ \/ /\ EnsureResolvable(wanted)
          /\ Resolved # {}
          /\ call' = "formats"
          /\ targets' = Resolved
          /\ frames' = [o \in Resolved |-> NewFrame]
          /\ asked' = [o \in Resolved |-> "buffer"]
          /\ clock' = 0
       \/ /\ call' = "failed"
          /\ UNCHANGED <<targets, frames, asked, clock>>
    /\ UNCHANGED <<desktop, plugged, wanted>>

Waiting == call \in {"formats", "copies"}

\* The event Buffer.
BufferOffered(o) ==
    /\ Waiting /\ asked[o] = "buffer"
    /\ asked' = [asked EXCEPT ![o] = "copy"]
    /\ frames' = [frames EXCEPT ![o].format = TRUE]
    /\ UNCHANGED <<desktop, plugged, call, wanted, targets, clock>>

\* The event Ready: the compositor has filled the buffer.
FrameReady(o) ==
    /\ Waiting /\ asked[o] = "ready"
    /\ asked' = [asked EXCEPT ![o] = "nothing"]
    /\ frames' = [frames EXCEPT ![o].done = TRUE, ![o].filled = TRUE]
    /\ UNCHANGED <<desktop, plugged, call, wanted, targets, clock>>

\* The event Failed.
FrameFailed(o) ==
    /\ Waiting /\ asked[o] # "nothing"
    /\ asked' = [asked EXCEPT ![o] = "nothing"]
    /\ frames' = [frames EXCEPT ![o].failed = TRUE]
    /\ UNCHANGED <<desktop, plugged, call, wanted, targets, clock>>

ShouldFailOnOutputDestroyed(target, o) ==
    target = o /\ ~frames[target].done /\ ~frames[target].failed

\* output_destroyed; the compositor may still answer for the frame, or not.
OutputDestroyed(o) ==
    /\ call \in {"connecting", "formats", "copies"}
    /\ o \in plugged
    /\ plugged' = plugged \ {o}
    /\ frames' = [t \in targets |->
                    [frames[t] EXCEPT !.failed = @ \/ ShouldFailOnOutputDestroyed(t, o)]]
    /\ UNCHANGED <<desktop, call, wanted, targets, asked, clock>>

-----------------------------------------------------------------------------
(* The waits of the client *)

AllHaveFormat == \A o \in targets : frames[o].format \/ frames[o].failed

\* Defect: the wait ends with the first frame.
AllSettled_First == \E o \in targets : frames[o].done \/ frames[o].failed

AllSettled == \A o \in targets : frames[o].done \/ frames[o].failed

NoneFailed == \A o \in targets : ~frames[o].failed

\* Every frame has its format: allocate the pool and submit the copies.
FormatsKnown ==
    /\ call = "formats"
    /\ AllHaveFormat
    /\ IF NoneFailed
       THEN /\ call' = "copies"
            /\ asked' = [o \in targets |-> "ready"]
            /\ clock' = 0
       ELSE call' = "failed" /\ UNCHANGED <<asked, clock>>
    /\ UNCHANGED <<desktop, plugged, wanted, targets, frames>>

\* Every frame is done: read the buffers.
CopiesDone ==
    /\ call = "copies"
    /\ AllSettled
    /\ call' = IF NoneFailed THEN "captured" ELSE "failed"
    /\ UNCHANGED <<desktop, plugged, wanted, targets, frames, asked, clock>>

Tick ==
    /\ Waiting /\ clock < Deadline
    /\ clock' = clock + 1
    /\ UNCHANGED <<desktop, plugged, call, wanted, targets, frames, asked>>

\* Defect: the second wait blocks on the connection without a deadline.
DispatchTimesOut_FirstWaitOnly ==
    /\ call = "formats" /\ ~AllHaveFormat
    /\ clock = Deadline
    /\ call' = "failed"
    /\ UNCHANGED <<desktop, plugged, wanted, targets, frames, asked, clock>>

DispatchTimesOut ==
    /\ \/ call = "formats" /\ ~AllHaveFormat
       \/ call = "copies" /\ ~AllSettled
    /\ clock = Deadline
    /\ call' = "failed"
    /\ UNCHANGED <<desktop, plugged, wanted, targets, frames, asked, clock>>

\* A broken connection is readable: the read fails.
ConnectionLost ==
    /\ call \in {"connecting", "formats", "copies"}
    /\ call' = "failed"
    /\ UNCHANGED <<desktop, plugged, wanted, targets, frames, asked, clock>>

CopyNext ==
    \/ Connected \/ FormatsKnown \/ CopiesDone
    \/ Tick \/ DispatchTimesOut \/ ConnectionLost
    \/ \E o \in targets : BufferOffered(o) \/ FrameReady(o) \/ FrameFailed(o)
    \/ \E o \in plugged : OutputDestroyed(o)

-----------------------------------------------------------------------------
\* What is read from the buffer of target t.
FrameImage(t) ==
    LET o == desktop[t]
    IN [w |-> o.w, h |-> o.h, source |-> o, format |-> o.format, order |-> o.format,
        at |-> [p \in Cells(o.w, o.h) |->
                    IF ~frames[t].filled THEN None
                    ELSE [output |-> o.name, cell |-> p]]]

\* The targets in the order of the outputs.
InOrder ==
    CHOOSE order \in [1..Cardinality(targets) -> targets] :
        \A i, j \in DOMAIN order : i < j => order[i] < order[j]

Images == LET order == InOrder IN [i \in DOMAIN order |-> FrameImage(order[i])]

(***************************************************************************)
(* A capture that succeeds has an image of every output it was asked for,  *)
(* each from a buffer that the compositor has filled: an output that is    *)
(* unplugged, a frame that fails or a deadline never leaves a gap or a     *)
(* buffer that was read too early (capture_blocking).                      *)
(***************************************************************************)
WholeCapture ==
    call = "captured" =>
        /\ targets # {}
        /\ \A o \in targets : frames[o].filled /\ ~frames[o].failed
        /\ \A o \in plugged : WantOutput(wanted, desktop[o]) => o \in targets

=============================================================================
