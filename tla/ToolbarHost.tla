----------------------------- MODULE ToolbarHost ----------------------------
(***************************************************************************)
(* ToolbarHost of ui/toolbar.rs: the one toolbar that the selector and the *)
(* draw overlay move between their per-monitor windows, and with it the    *)
(* exclusive keyboard.  A host is a value; its methods map it to a host.   *)
(***************************************************************************)
CONSTANTS
    Monitors,   \* GDK monitors, each with a connector of its own
    None        \* Option::None

ASSUME HostAssumption == None \notin Monitors

(***************************************************************************)
(* slots        the monitors whose window is registered                    *)
(* current      the slot that parents the toolbar                          *)
(* passthrough  the draw overlay lets input through                        *)
(* exclusive    the live windows that have KeyboardMode::Exclusive         *)
(***************************************************************************)
Hosts == [slots : SUBSET Monitors, current : Monitors \cup {None},
          passthrough : BOOLEAN, exclusive : SUBSET Monitors]

\* sync_keyboard_mode: sets the mode of every registered window.
SyncKeyboardMode(h) ==
    [h EXCEPT !.exclusive = IF h.passthrough THEN {} ELSE {h.current} \cap h.slots]

\* move_to_connector, move_to_index: a monitor without a slot changes nothing.
MoveTo(h, m) ==
    IF m \in h.slots THEN SyncKeyboardMode([h EXCEPT !.current = m]) ELSE h

SetKeyboardPassthrough(h, on) ==
    SyncKeyboardMode([h EXCEPT !.passthrough = on])

\* The windows registered, and the toolbar placed on one of them (place_initial).
Placed(m) ==
    MoveTo([slots |-> Monitors, current |-> None, passthrough |-> FALSE,
            exclusive |-> {}], m)

\* The windows are destroyed and the host forgets them (clear).
Cleared ==
    [slots |-> {}, current |-> None, passthrough |-> FALSE, exclusive |-> {}]

(***************************************************************************)
(* "At most one window is ever Exclusive, and it's always the one visually *)
(* parenting the toolbar": the keyboard is where the toolbar is, nowhere   *)
(* while passthrough is on, and the host knows no window that is gone.     *)
(***************************************************************************)
KeyboardWithToolbar(h, windows) ==
    /\ h.slots \subseteq windows
    /\ h.slots # {} => h.current \in h.slots
    /\ h.exclusive = IF h.passthrough THEN {} ELSE {h.current} \cap windows

=============================================================================
