---------------------------- MODULE MCScreenshot ----------------------------
(***************************************************************************)
(* Desktops of at most two outputs, three logical pixels wide: side by     *)
(* side, with fractional scale, with a gap and negative coordinates,       *)
(* mirrored, and a HiDPI output alone.  Requests for every kind of         *)
(* selection and every combination of sinks that one may disturb another   *)
(* in.  The compositor gives up after one tick of the clock; the editor    *)
(* saves at most twice, the second time after a failure.                   *)
(***************************************************************************)
EXTENDS Screenshot

Box(x, y, w, h) == [x |-> x, y |-> y, w |-> w, h |-> h]

Output(name, logical, w, h, format) ==
    [name |-> name, logical |-> logical, w |-> w, h |-> h, format |-> format]

Plain == <<Output("A", Box(0, 0, 2, 1), 2, 1, "Bgra"), Output("B", Box(2, 0, 2, 2), 2, 2, "Bgra")>>

\* Scales 4/3 and 1.
Fractional ==
    <<Output("A", Box(0, 0, 3, 3), 4, 4, "Rgba"), Output("B", Box(3, 0, 2, 2), 2, 2, "Rgba")>>

Gap == <<Output("A", Box(-3, -1, 2, 2), 4, 4, "Bgra"), Output("B", Box(1, 0, 2, 2), 2, 2, "Bgra")>>

Mirrored == <<Output("A", Box(0, 0, 2, 2), 2, 2, "Bgra"), Output("B", Box(0, 0, 2, 2), 4, 4, "Bgra")>>

Single == <<Output("A", Box(1, 1, 2, 2), 4, 4, "Bgra")>>

MCDesktops == {Plain, Fractional, Gap, Mirrored, Single}

All == [kind |-> "Full"]
Each == [kind |-> "PerOutput"]
Named == [kind |-> "Output", name |-> "B"]
Across == [kind |-> "Region", rect |-> Box(1, 0, 2, 2)]
Beyond == [kind |-> "Region", rect |-> Box(-2, -1, 9, 2)]

A == <<"given", "a">>

Request(what, to, annotate, seconds, daemon) ==
    [selection |-> what, sinks |-> to, edit |-> annotate, delay |-> seconds,
     daemon |-> daemon]

MCRequests ==
    {Request(All, <<>>, FALSE, 1, FALSE),
     Request(All, <<File(A), Clipboard("Both")>>, TRUE, 0, FALSE),
     Request(Each, <<File(Unset), Clipboard("Primary")>>, FALSE, 0, TRUE),
     Request(Each, <<File(A), Clipboard(Unset)>>, FALSE, 0, FALSE),
     Request(Each, <<>>, TRUE, 0, FALSE),
     Request(Named, <<Clipboard("Both"), Clipboard("Primary")>>, FALSE, 0, FALSE),
     Request(Across, <<File(A), File(Unset)>>, FALSE, 0, TRUE),
     Request(Across, <<Clipboard(Unset)>>, TRUE, 0, TRUE),
     Request([kind |-> "Window"], <<>>, FALSE, 0, TRUE),
     Request([kind |-> "Focused"], <<>>, FALSE, 1, TRUE),
     Request([kind |-> "Interactive"], <<File(A)>>, FALSE, 0, FALSE)}

MCOutcomes ==
    {[selection |-> Across, edit |-> FALSE, mode |-> "Both"],
     [selection |-> [kind |-> "Window"], edit |-> TRUE, mode |-> "Clipboard"]}

MCWindows == {Beyond.rect}

MCPaths == {A}

MCDefaultSinks == <<File(Unset)>>

=============================================================================
