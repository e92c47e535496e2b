----------------------------- MODULE FocusWatch -----------------------------
(***************************************************************************)
(* Which output has the focus, told to a toolbar as it changes (wm/).      *)
(* subscribe_focus() detects a backend, lets the backend's task pump the   *)
(* compositor's events into a watch channel, and forwards what arrives to  *)
(* the channel the toolbar reads.  A watch channel keeps the last value.   *)
(*                                                                         *)
(* The compositor is what it is: windows that lie on outputs, one of them  *)
(* active, and a stream of events for who has subscribed.                  *)
(***************************************************************************)
EXTENDS SequencesExt, Lists

CONSTANTS
    Outputs,
    Toplevels,          \* windows, in the order the compositor names them
    NoOutput,           \* Option::None
    Backends,           \* what detect() may find
    MaxChanges, MaxFailures     \* bounds: changes of the focus; failed queries

ASSUME WatchAssumption ==
    /\ Toplevels \in Seq(Range(Toplevels))
    /\ Backends \subseteq {"hyprland", "sway", "niri", "foreign"}
    /\ MaxChanges \in Nat /\ MaxFailures \in Nat

VARIABLES
    backend,            \* what detect() finds, or "none"
    active, where,      \* compositor: the active window; open window -> its output
    stream,             \* compositor: events sent and not read
    told,               \* history: the present focus is, or will be, announced
    changes, failures,
    pump,               \* the backend's task
    handles,            \* foreign toplevel: what the events said of each window
    last,               \* foreign toplevel: what was published last
    inner, outer,       \* the two watch channels
    forwarder,          \* the task of wm::subscribe_focus
    closing,            \* the toolbar has dropped its end of `shutdown`
    reading, shown      \* the toolbar's loop, and where it put the toolbar

compositor == <<active, where, changes>>
task == <<pump, handles, last, failures, stream, told>>
watchVars == <<backend, compositor, task, inner, outer, forwarder, closing, reading, shown>>

Focus == IF active = NoOutput THEN NoOutput ELSE where[active]

Subscribed == pump \in {"listen", "query"}

Channel == [value : Outputs \cup {NoOutput}, fresh : BOOLEAN]

Empty == [value |-> NoOutput, fresh |-> FALSE]

Sent(value) == [value |-> value, fresh |-> TRUE]

Seen(channel) == [channel EXCEPT !.fresh = FALSE]

WatchTypeOK ==
    /\ backend \in Backends \cup {"none"}
    /\ active \in Range(Toplevels) \cup {NoOutput}
    /\ DOMAIN where \subseteq Range(Toplevels) /\ Range(where) \subseteq Outputs
    /\ pump \in {"off", "connect", "listen", "query", "done"}
    /\ forwarder \in {"detecting", "waiting", "done"}
    /\ inner \in Channel /\ outer \in Channel
    /\ last \in Outputs \cup {NoOutput} /\ shown \in Outputs \cup {NoOutput}
    /\ {told, closing, reading} \subseteq BOOLEAN
    /\ changes \in 0..MaxChanges /\ failures \in 0..MaxFailures

WatchInit ==
    /\ backend \in Backends \cup {"none"}
    /\ where \in [Range(Toplevels) -> Outputs] /\ active \in Range(Toplevels)
    /\ changes = 0 /\ failures = 0 /\ stream = <<>> /\ told = FALSE
    /\ pump = "off" /\ handles = <<>> /\ last = NoOutput
    /\ inner = Empty /\ outer = Empty /\ forwarder = "detecting"
    /\ closing = FALSE /\ reading = TRUE /\ shown = NoOutput

-----------------------------------------------------------------------------
(* The compositor *)

Activated(t, on) == [kind |-> "state", of |-> t, on |-> on]

Entered(t, o) == [kind |-> "enter", of |-> t, output |-> o]

Left(t, o) == [kind |-> "leave", of |-> t, output |-> o]

Closed(t) == [kind |-> "closed", of |-> t]

Opened(t) == [kind |-> "toplevel", of |-> t]

Done(t) == [kind |-> "done", of |-> t]

\* What a subscriber is sent when the focus moves: its name, or that something
\* happened, or what has become of each window.
Announced(news) ==
    IF ~Subscribed THEN <<>>
    ELSE CASE backend = "hyprland" -> IF Focus' = Focus THEN <<>> ELSE <<Focus'>>
           [] backend \in {"sway", "niri"} -> <<"event">>
           [] backend = "foreign" -> news

Tell(news) ==
    /\ changes < MaxChanges /\ changes' = changes + 1
    /\ stream' = stream \o Announced(news)
    /\ told' = (told \/ Announced(news) # <<>>)
    /\ UNCHANGED <<backend, pump, handles, last, failures, inner, outer, forwarder,
                   closing, reading, shown>>

FocusMoves ==
    \E t \in DOMAIN where \ {active} :
        /\ active' = t /\ UNCHANGED where
        /\ Tell(IF active = NoOutput THEN <<Activated(t, TRUE)>>
                ELSE <<Activated(active, FALSE), Activated(t, TRUE)>>)

WindowCarried ==
    \E o \in Outputs :
        /\ active # NoOutput /\ o # where[active]
        /\ where' = [where EXCEPT ![active] = o] /\ UNCHANGED active
        /\ Tell(<<Entered(active, o), Left(active, where[active])>>)

\* Only a foreign toplevel manager knows outputs by their windows.
ActiveCloses ==
    /\ backend = "foreign" /\ active # NoOutput
    /\ active' = NoOutput /\ where' = Restrict(where, DOMAIN where \ {active})
    /\ Tell(<<Closed(active)>>)

WindowOpens ==
    \E t \in Range(Toplevels) \ DOMAIN where, o \in Outputs :
        /\ backend = "foreign" /\ active = NoOutput
        /\ active' = t /\ where' = Put(where, t, o)
        /\ Tell(<<Opened(t), Entered(t, o), Activated(t, TRUE), Done(t)>>)

-----------------------------------------------------------------------------
(* The backend's task *)

\* Sending fails when no receiver is left: the task ends.
Publish(value) ==
    IF forwarder = "done"
    THEN pump' = "done" /\ UNCHANGED inner
    ELSE pump' = "listen" /\ inner' = Sent(value)

ToplevelBuilder(outputs, activated, done) ==
    [outputs |-> outputs, activated |-> activated, done |-> done, closed |-> FALSE]

\* settle(): the windows as two round trips find them.
Settled == [t \in DOMAIN where |-> ToplevelBuilder(<<where[t]>>, t = active, TRUE)]

\* A window counts from its first `done` until it is closed.
CollectSnapshot(tops) ==
    {i \in DOMAIN Toplevels :
        LET t == Toplevels[i] IN t \in DOMAIN tops /\ tops[t].done /\ ~tops[t].closed}

\* Of several that claim to be active the last counts.
PickActivated(tops) ==
    LET claims == {i \in CollectSnapshot(tops) : tops[Toplevels[i]].activated}
    IN IF claims = {} THEN NoOutput ELSE Toplevels[Max(claims)]

CurrentFocusedOutput(tops) ==
    LET t == PickActivated(tops)
    IN IF t = NoOutput THEN NoOutput
       ELSE IF tops[t].outputs = <<>> THEN NoOutput ELSE Head(tops[t].outputs)

Changed(handle, e) ==
    CASE e.kind = "state" -> [handle EXCEPT !.activated = e.on]
      [] e.kind = "enter" -> [handle EXCEPT !.outputs = Append(@, e.output)]
      [] e.kind = "leave" -> [handle EXCEPT !.outputs = Without(@, e.output)]
      [] e.kind = "done" -> [handle EXCEPT !.done = TRUE]
      [] e.kind = "closed" -> [handle EXCEPT !.closed = TRUE]

Applied(tops, e) ==
    IF e.kind = "toplevel" THEN Put(tops, e.of, ToplevelBuilder(<<>>, FALSE, FALSE))
    ELSE [tops EXCEPT ![e.of] = Changed(@, e)]

\* What the first n events make of the handles, for each n.
AppliedUpto(tops, events) ==
    LET after[n \in 0..Len(events)] ==
            IF n = 0 THEN tops ELSE Applied(after[n - 1], events[n])
    IN after

\* The events of one dispatch, in the order they came.
Dispatched(tops, events) == AppliedUpto(tops, events)[Len(events)]

\* Niri replays its state to a new subscriber; a foreign toplevel manager names
\* its windows, and what follows from them is published at once.
PumpSubscribes ==
    /\ pump = "connect"
    /\ stream' = IF backend = "niri" THEN <<"event">> ELSE <<>>
    /\ told' = (backend \in {"niri", "foreign"})
    /\ IF backend = "foreign"
       THEN /\ handles' = Settled /\ last' = CurrentFocusedOutput(handles')
            /\ Publish(last')
       ELSE pump' = "listen" /\ UNCHANGED <<handles, last, inner>>
    /\ UNCHANGED <<backend, compositor, failures, outer, forwarder, closing, reading, shown>>

PumpCannotConnect ==
    /\ pump = "connect" /\ pump' = "done"
    /\ UNCHANGED <<backend, compositor, handles, last, failures, stream, told, inner, outer,
                   forwarder, closing, reading, shown>>

PumpReadsName ==
    /\ backend = "hyprland" /\ pump = "listen" /\ stream # <<>>
    /\ Publish(Head(stream)) /\ stream' = Tail(stream)
    /\ UNCHANGED <<backend, compositor, handles, last, failures, told, outer, forwarder,
                   closing, reading, shown>>

PumpReadsEvent ==
    /\ backend \in {"sway", "niri"} /\ pump = "listen" /\ stream # <<>>
    /\ pump' = "query" /\ stream' = Tail(stream)
    /\ UNCHANGED <<backend, compositor, handles, last, failures, told, inner, outer,
                   forwarder, closing, reading, shown>>

\* focused_output(), over a connection of its own.
QueryAnswered ==
    /\ pump = "query" /\ Publish(Focus)
    /\ UNCHANGED <<backend, compositor, handles, last, failures, stream, told, outer,
                   forwarder, closing, reading, shown>>

\* Logged, and no more: the next event asks again.
QueryFails ==
    /\ pump = "query" /\ failures < MaxFailures
    /\ pump' = "listen" /\ failures' = failures + 1
    /\ told' = (stream # <<>>)
    /\ UNCHANGED <<backend, compositor, handles, last, stream, inner, outer, forwarder,
                   closing, reading, shown>>

\* Defect: what was published last is remembered once and for all.
PumpDispatches_Forgets ==
    /\ backend = "foreign" /\ pump = "listen" /\ stream # <<>>
    /\ \E n \in 1..Len(stream) :
        /\ handles' = Dispatched(handles, SubSeq(stream, 1, n))
        /\ stream' = SubSeq(stream, n + 1, Len(stream))
    /\ LET next == CurrentFocusedOutput(handles')
       IN IF next # last THEN Publish(next) ELSE UNCHANGED <<pump, inner>>
    /\ UNCHANGED <<backend, compositor, failures, told, last, outer, forwarder, closing,
                   reading, shown>>

\* As many events as the connection had to offer, wherever that cuts them.
PumpDispatches ==
    /\ backend = "foreign" /\ pump = "listen" /\ stream # <<>>
    /\ \E n \in 1..Len(stream) :
        /\ handles' = Dispatched(handles, SubSeq(stream, 1, n))
        /\ stream' = SubSeq(stream, n + 1, Len(stream))
    /\ last' = CurrentFocusedOutput(handles')
    /\ IF last' # last THEN Publish(last') ELSE UNCHANGED <<pump, inner>>
    /\ UNCHANGED <<backend, compositor, failures, told, outer, forwarder, closing, reading,
                   shown>>

\* The compositor closes the connection, or reading it fails.
StreamEnds ==
    /\ pump = "listen" /\ pump' = "done"
    /\ UNCHANGED <<backend, compositor, handles, last, failures, stream, told, inner, outer,
                   forwarder, closing, reading, shown>>

\* select!: the forwarder dropped its end.  The first connection to a foreign
\* toplevel manager is made without an await and cannot be interrupted.
PumpToldToStop ==
    /\ forwarder = "done" /\ pump \in {"connect", "listen", "query"}
    /\ pump = "connect" => backend # "foreign"
    /\ pump' = "done"
    /\ UNCHANGED <<backend, compositor, handles, last, failures, stream, told, inner, outer,
                   forwarder, closing, reading, shown>>

-----------------------------------------------------------------------------
(* wm::subscribe_focus and the toolbar *)

Detect ==
    /\ forwarder = "detecting"
    /\ IF backend = "none"
       THEN forwarder' = "done" /\ UNCHANGED pump
       ELSE forwarder' = "waiting" /\ pump' = "connect"
    /\ UNCHANGED <<backend, compositor, handles, last, failures, stream, told, inner, outer,
                   closing, reading, shown>>

Forward ==
    /\ forwarder = "waiting" /\ inner.fresh
    /\ inner' = Seen(inner)
    /\ IF reading THEN outer' = Sent(inner.value) /\ UNCHANGED forwarder
       ELSE forwarder' = "done" /\ UNCHANGED outer
    /\ UNCHANGED <<backend, compositor, task, closing, reading, shown>>

\* changed() fails once the sender is gone and its last value was seen.
SourceEnds ==
    /\ forwarder = "waiting" /\ pump = "done" /\ ~inner.fresh
    /\ forwarder' = "done"
    /\ UNCHANGED <<backend, compositor, task, inner, outer, closing, reading, shown>>

\* Defect: the forwarder waits for the backend's task and never hears the toolbar.
ForwarderToldToStop_Deaf ==
    /\ forwarder = "waiting" /\ closing /\ pump = "done"
    /\ forwarder' = "done"
    /\ UNCHANGED <<backend, compositor, task, inner, outer, closing, reading, shown>>

ForwarderToldToStop ==
    /\ forwarder = "waiting" /\ closing
    /\ forwarder' = "done"
    /\ UNCHANGED <<backend, compositor, task, inner, outer, closing, reading, shown>>

\* The toolbar does not move for "no output".
ToolbarFollows ==
    /\ reading /\ outer.fresh
    /\ outer' = Seen(outer)
    /\ shown' = IF outer.value = NoOutput THEN shown ELSE outer.value
    /\ UNCHANGED <<backend, compositor, task, inner, forwarder, closing, reading>>

ToolbarLoopEnds ==
    /\ reading /\ forwarder = "done" /\ ~outer.fresh
    /\ reading' = FALSE
    /\ UNCHANGED <<backend, compositor, task, inner, outer, forwarder, closing, shown>>

\* The windows close; with their main loop the reading loop may go at once.
ToolbarCloses ==
    /\ ~closing /\ closing' = TRUE
    /\ reading' \in {reading, FALSE}
    /\ UNCHANGED <<backend, compositor, task, inner, outer, forwarder, shown>>

CompositorNext == FocusMoves \/ WindowCarried \/ ActiveCloses \/ WindowOpens

PumpNext ==
    \/ PumpSubscribes \/ PumpCannotConnect
    \/ PumpReadsName \/ PumpReadsEvent \/ PumpDispatches
    \/ QueryAnswered \/ QueryFails
    \/ PumpToldToStop

ForwarderNext == Detect \/ Forward \/ SourceEnds \/ ForwarderToldToStop

ToolbarNext == ToolbarFollows \/ ToolbarLoopEnds

WatchNext ==
    \/ CompositorNext \/ StreamEnds
    \/ PumpNext \/ ForwarderNext
    \/ ToolbarNext \/ ToolbarCloses

\* The tasks run on the tokio pool, the toolbar's loop on GTK's; a connection
\* and a query are answered or fail.
WatchFairness ==
    /\ WF_watchVars(PumpNext) /\ WF_watchVars(PumpToldToStop)
    /\ WF_watchVars(ForwarderNext) /\ WF_watchVars(ForwarderToldToStop)
    /\ WF_watchVars(ToolbarNext)

-----------------------------------------------------------------------------
\* Once the focus has come to rest and an event has announced it to a backend
\* that still listens, the toolbar ends up on the focused output, whatever the
\* channels between them dropped on the way (wm/, subscribe_focus).
FollowsFocus ==
    <>[](told /\ Subscribed /\ ~closing /\ Focus # NoOutput) => <>[](shown = Focus)

\* A toolbar that closes stops both tasks and its own loop, in whatever state
\* it found them: none outlives the surface it serves (wm/mod.rs).
ReadersStop ==
    closing ~> pump \in {"off", "done"} /\ forwarder = "done" /\ ~reading

=============================================================================
