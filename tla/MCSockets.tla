------------------------------ MODULE MCSockets -----------------------------
(***************************************************************************)
(* Focus: two outputs, two windows and three changes, so that the focus    *)
(* can go away and come back, for each backend.  Windows: a monitor on its *)
(* side beside one of fractional scale, with windows that scroll off their *)
(* output, span both, are pinned, tabbed, unmapped, on a special workspace *)
(* or out of view, and three changes of the layout.  Daemon: three         *)
(* processes, one after the other or at once, and a client that writes one *)
(* line or many.                                                           *)
(***************************************************************************)
EXTENDS Sockets

MCToplevels == <<"t1", "t2">>

Box(x, y, w, h) == [x |-> x, y |-> y, w |-> w, h |-> h]

Mode(area, width, height, scale, transform) ==
    [area |-> area, width |-> width, height |-> height, scale |-> scale, transform |-> transform]

Window(id, ws, rect) ==
    [id |-> id, ws |-> ws, rect |-> rect, floating |-> FALSE, full |-> FALSE,
     pinned |-> FALSE, mapped |-> TRUE, hidden |-> FALSE, inView |-> TRUE]

Turned == Mode(Box(0, 0, 2, 3), 3, 2, <<1, 1>>, 1)

\* 4 by 3 pixels are 3 by 2 points.
Scaled == Mode(Box(2, 0, 3, 2), 4, 3, <<3, 2>>, 0)

MCOutputs == [A |-> Turned, B |-> Scaled]

\* The pointer is on one of them.
Points == {p \in (0..4) \X (0..2) :
              \E o \in DOMAIN MCOutputs : Within(MCOutputs[o].area, p[1], p[2])}

\* Workspaces 1 and 2 are on A, 3 and the special 4 on B.
Desk(name, windows, focused) ==
    [backend |-> name, outputs |-> MCOutputs, windows |-> windows, focused |-> focused,
     points |-> Points,
     layout |-> [shows |-> [A |-> 1, B |-> 3], special |-> [A |-> 0, B |-> 0],
                 home |-> <<"A", "A", "B", "B">>],
     specials |-> IF name = "hyprland" THEN {4} ELSE {}]

Scrolled == Window("scrolled", 1, Box(1, 0, 3, 3))
Second == Window("second", 2, Box(0, 0, 2, 2))
Third == Window("third", 3, Box(0, 0, 2, 2))
Special == [Window("special", 4, Box(1, 0, 1, 1)) EXCEPT !.floating = TRUE]
Spanning == [Window("spanning", 1, Box(1, 1, 3, 1)) EXCEPT !.floating = TRUE]
Over == [Window("over", 1, Box(1, 1, 1, 1)) EXCEPT !.floating = TRUE]
Pinned == [Window("pinned", 3, Box(2, 1, 1, 1)) EXCEPT !.floating = TRUE, !.pinned = TRUE]
Tab == [Window("tab", 3, Box(0, 0, 2, 2)) EXCEPT !.hidden = TRUE]
Unmapped == [Window("unmapped", 2, Box(0, 0, 1, 2)) EXCEPT !.mapped = FALSE]
Away == [Window("away", 3, Box(3, 0, 3, 2)) EXCEPT !.inView = FALSE]

MCDesks ==
    {Desk("hyprland", <<Special, Pinned, Spanning, Tab, Scrolled, Second, Third>>, "scrolled"),
     Desk("hyprland", <<Over, Spanning, Unmapped, Second, Third>>, None),
     Desk("sway", <<Over, Spanning, Tab, Second, Third>>, "spanning"),
     Desk("niri", <<Second, Away, Third>>, "away"),
     Desk("niri", <<Over, Second>>, "over"),
     Desk("foreign", <<Second, Tab>>, "second")}

Shot(what, to, kind, secs) ==
    [command |-> "screenshot", selection |-> what, to |-> to, clipboard_type |-> kind,
     delay |-> secs, cursor |-> FALSE, edit |-> FALSE]

Draw(toggle, through, to, pointer) ==
    [command |-> "draw", toggle_passthrough |-> toggle, passthrough |-> through,
     to |-> to, clipboard_type |-> Unset, cursor |-> pointer]

Across == [kind |-> "Region", rect |-> <<-1, 0, 2, 3>>]

MCScripts ==
    {<<Shot(Across, <<Clipboard(Unset), File("p")>>, "Both", 0)>>,
     <<Malformed, Shot([kind |-> "PerOutput"], <<Clipboard(Unset)>>, Unset, Unset)>>,
     <<Blank, Shot([kind |-> "Output", name |-> "A"], <<>>, "Primary", 2), Draw(TRUE, FALSE, <<>>, FALSE)>>,
     <<Draw(FALSE, TRUE, <<Clipboard(Unset)>>, TRUE)>>}

MCPaths == {"p"}

MCDefaultSinks == <<File(Unset)>>

=============================================================================
