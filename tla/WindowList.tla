----------------------------- MODULE WindowList -----------------------------
(***************************************************************************)
(* The one-shot queries of the window manager backends (wm/): the list of  *)
(* windows that the selector looks for a click in, and the active window.  *)
(* What a compositor answers is written from a desk - its outputs and its  *)
(* windows, front to back - and from the layout of the moment: which       *)
(* workspace each output shows, which output each workspace is on.         *)
(* The layout may change between two queries of one call: the user moves   *)
(* workspaces, and unplugs outputs and plugs them in again.                *)
(***************************************************************************)
EXTENDS Region, Lists

CONSTANTS
    Desks,          \* desks: backend, outputs, windows, focused, points
    MaxShuffles     \* bound on the changes of the layout

Rects == [x : Int, y : Int, w : Nat, h : Nat]

\* The layouts of a desk, whose workspaces are 1, 2, ...: 0 is none, and an output
\* that shows none is unplugged.  What an output shows is on it, and every
\* workspace is on an output that is plugged in.
Layouts(d) ==
    LET outs == DOMAIN d.outputs
        spaces == DOMAIN d.layout.home
    IN {m \in [shows : [outs -> (spaces \ d.specials) \cup {0}],
               special : [outs -> d.specials \cup {0}], home : [spaces -> outs]] :
            /\ \A o \in outs : /\ m.shows[o] # 0 => m.home[m.shows[o]] = o
                               /\ m.special[o] # 0 => m.home[m.special[o]] = o
            /\ \A ws \in spaces : m.shows[m.home[ws]] # 0}

BackendOK(d) == d.backend \in {"hyprland", "sway", "niri", "foreign"}

OutputsOK(d) ==
    /\ IsFiniteSet(DOMAIN d.outputs) /\ None \notin DOMAIN d.outputs
    /\ \A o \in DOMAIN d.outputs : d.outputs[o].area \in Rects
    /\ d.points \subseteq Int \X Int

LayoutOK(d) ==
    /\ d.layout \in Layouts(d)
    /\ d.specials \subseteq DOMAIN d.layout.home
    /\ d.backend # "hyprland" => d.specials = {}
    /\ Len(d.layout.home) \in Nat /\ DOMAIN d.layout.home = 1..Len(d.layout.home)

\* Windows are told apart by their ids.  Only Hyprland lists one that is not mapped.
WindowsOK(d) ==
    /\ d.windows \in Seq(Range(d.windows))
    /\ \A i \in DOMAIN d.windows :
        LET w == d.windows[i]
        IN /\ w.id # None /\ w.rect \in Rects /\ w.ws \in DOMAIN d.layout.home
           /\ {w.floating, w.full, w.pinned, w.mapped, w.hidden, w.inView} \subseteq BOOLEAN
           /\ d.backend # "hyprland" => w.mapped
           /\ \A j \in DOMAIN d.windows : d.windows[j].id = w.id => j = i
    /\ d.focused \in {None} \cup {w.id : w \in Range(d.windows)}

\* n is a / b to the nearest, and upwards from the middle.
Nearest(n, a, b) == 2 * b * n <= 2 * a + b /\ 2 * a + b < 2 * b * n + 2 * b

\* Hyprland lays an output out as its mode, turned and scaled.
LaidOut(mode) ==
    LET turned == mode.transform % 2 = 1
        across == IF turned THEN mode.height ELSE mode.width
        down == IF turned THEN mode.width ELSE mode.height
    IN /\ {mode.width, mode.height, mode.transform} \subseteq Nat
       /\ mode.scale \in (Nat \ {0}) \X (Nat \ {0})
       /\ Nearest(mode.area.w, across * mode.scale[2], mode.scale[1])
       /\ Nearest(mode.area.h, down * mode.scale[2], mode.scale[1])

\* Sway keeps what does not float within the output, whichever it is on, and
\* under the floating windows of the workspace.
Tiles(d) ==
    \A i \in DOMAIN d.windows :
        LET w == d.windows[i]
        IN /\ ~w.floating \/ w.full =>
                \A o \in DOMAIN d.outputs :
                    /\ w.rect.x >= 0 /\ Right(w.rect) <= d.outputs[o].area.w
                    /\ w.rect.y >= 0 /\ Bottom(w.rect) <= d.outputs[o].area.h
           /\ \A j \in DOMAIN d.windows :
                /\ d.windows[j].ws = w.ws /\ d.windows[j].floating /\ ~w.floating
                => j < i

\* What a compositor says of its desk is so.
ASSUME DeskAssumption ==
    /\ MaxShuffles \in Nat
    /\ None \notin Rects /\ None \notin Int \X Int
    /\ \A d \in Desks :
        /\ BackendOK(d) /\ OutputsOK(d) /\ LayoutOK(d) /\ WindowsOK(d)
        /\ d.backend = "hyprland" => \A o \in DOMAIN d.outputs : LaidOut(d.outputs[o])
        /\ d.backend = "sway" => Tiles(d)

VARIABLES
    desk,
    layout,         \* [shows: output -> workspace, special: the same, home: workspace -> output]
    call,           \* "idle", "clients" or "active": what is being asked
    replies,        \* the layouts of which the answers so far speak
    list,           \* what the call returned
    moments,        \* history: the layouts since the call began
    shuffles

listVars == <<desk, layout, call, replies, list, moments, shuffles>>

Outs == DOMAIN desk.outputs

Plugged(m) == {o \in Outs : m.shows[o] # 0}

Win(id) == CHOOSE w \in Range(desk.windows) : w.id = id

-----------------------------------------------------------------------------
(* What the desk shows *)

\* Where a window lies: its workspace moves it from output to output.
Lies(m, w) ==
    LET o == desk.outputs[m.home[w.ws]].area
    IN [w.rect EXCEPT !.x = @ + o.x, !.y = @ + o.y]

OnShow(m, w) ==
    LET o == m.home[w.ws]
    IN w.mapped /\ ~w.hidden /\ (w.pinned \/ w.ws \in {m.shows[o], m.special[o]})

\* A tiled window is drawn on its own output, a floating one wherever it is.
ShownAt(m, w, p) ==
    /\ OnShow(m, w)
    /\ Within(Lies(m, w), p[1], p[2])
    /\ ~w.floating \/ w.full => Within(desk.outputs[m.home[w.ws]].area, p[1], p[2])

-----------------------------------------------------------------------------
(* WmWindow *)

WmWindow(id, rect, mapped, hidden) ==
    [id |-> id, rect |-> rect, mapped |-> mapped, hidden |-> hidden]

WindowAt(windows, p) ==
    LET hits == {i \in DOMAIN windows :
                    /\ windows[i].mapped /\ ~windows[i].hidden /\ windows[i].rect # None
                    /\ Within(windows[i].rect, p[1], p[2])}
    IN IF hits = {} THEN None ELSE windows[Min(hits)].id

-----------------------------------------------------------------------------
(* Hyprland: j/clients, then j/monitors *)

RawClients(m) ==
    [i \in DOMAIN desk.windows |->
        LET w == desk.windows[i]
        IN [address |-> w.id, rect |-> Lies(m, w), monitor |-> m.home[w.ws],
            workspace |-> w.ws, mapped |-> w.mapped, hidden |-> w.hidden, floating |-> w.floating,
            pinned |-> w.pinned, fullscreen |-> w.full]]

RawMonitors(m) ==
    [o \in Plugged(m) |-> [mode |-> desk.outputs[o], active |-> m.shows[o],
                           special |-> m.special[o]]]

\* (a / b).round()
Rounded(a, b) == (2 * a + b) \div (2 * b)

\* Defect: a monitor on its side keeps the width and height of its mode.
LogicalArea_Upright(mode) ==
    [x |-> mode.area.x, y |-> mode.area.y,
     w |-> Rounded(mode.width * mode.scale[2], mode.scale[1]),
     h |-> Rounded(mode.height * mode.scale[2], mode.scale[1])]

LogicalArea(mode) ==
    LET side == mode.transform % 2 = 1
        width == IF side THEN mode.height ELSE mode.width
        height == IF side THEN mode.width ELSE mode.height
    IN [x |-> mode.area.x, y |-> mode.area.y,
        w |-> Rounded(width * mode.scale[2], mode.scale[1]),
        h |-> Rounded(height * mode.scale[2], mode.scale[1])]

\* Whether a monitor shows a client.
VisibleWorkspace(mon, r) ==
    \/ r.pinned \/ r.workspace = mon.active
    \/ mon.special # 0 /\ r.workspace = mon.special

\* The part of a client that its monitor shows: what does not float is clipped,
\* to nothing if the monitor is not among those that were listed.
Clipped(r, monitors) ==
    IF r.floating /\ ~r.fullscreen THEN r.rect
    ELSE IF r.monitor \in DOMAIN monitors
         THEN Intersect(r.rect, LogicalArea(monitors[r.monitor].mode)) ELSE None

\* Defect: a client is offered when its monitor was unplugged since.
ParseClients_GoneIsVisible(clients, monitors) ==
    LET Parsed(r) ==
            LET visible == \/ r.monitor \notin DOMAIN monitors
                           \/ VisibleWorkspace(monitors[r.monitor], r)
                rect == Clipped(r, monitors)
            IN WmWindow(r.address, rect, r.mapped, r.hidden \/ ~visible \/ rect = None)
    IN [i \in DOMAIN clients |-> Parsed(clients[i])]

\* The monitors may have been listed after one was unplugged.
ParseClients(clients, monitors) ==
    LET Parsed(r) ==
            LET visible == /\ r.monitor \in DOMAIN monitors
                           /\ VisibleWorkspace(monitors[r.monitor], r)
                rect == Clipped(r, monitors)
            IN WmWindow(r.address, rect, r.mapped, r.hidden \/ ~visible \/ rect = None)
    IN [i \in DOMAIN clients |-> Parsed(clients[i])]

-----------------------------------------------------------------------------
(* Sway: GET_TREE *)

Leaf(m, w) ==
    [type |-> "con", pid |-> TRUE, id |-> w.id, rect |-> Lies(m, w),
     visible |-> OnShow(m, w), focused |-> w.id = desk.focused,
     nodes |-> <<>>, floating_nodes |-> <<>>]

Branch(type, nodes, floating) ==
    [type |-> type, pid |-> FALSE, focused |-> FALSE, nodes |-> nodes,
     floating_nodes |-> floating]

\* The windows of a workspace that float or do not, front to back.
OnWorkspace(m, ws, floating) ==
    LET of == InOrder({i \in DOMAIN desk.windows :
                  desk.windows[i].ws = ws /\ desk.windows[i].floating = floating})
    IN [n \in DOMAIN of |-> Leaf(m, desk.windows[of[n]])]

\* Floating windows come with the topmost last; tiled ones in a container.
WorkspaceNode(m, ws) ==
    Branch("workspace", <<Branch("con", OnWorkspace(m, ws, FALSE), <<>>)>>,
           Reverse(OnWorkspace(m, ws, TRUE)))

OutputNode(m, o) ==
    LET on == InOrder({ws \in DOMAIN m.home : m.home[ws] = o})
    IN Branch("output", [n \in DOMAIN on |-> WorkspaceNode(m, on[n])], <<>>)

Tree(m) ==
    LET outs == SetToSeq(Plugged(m))
    IN Branch("root", [n \in DOMAIN outs |-> OutputNode(m, outs[n])], <<>>)

IsWindowNode(node) == node.type = "con" /\ node.pid

\* How far the windows are from the root.
TreeDepth == 4

\* The list takes what floats first, the topmost in front; the search for the
\* focus goes through what is tiled first.
Children(node, order) ==
    IF order = "list" THEN Reverse(node.floating_nodes) \o node.nodes
    ELSE node.nodes \o node.floating_nodes

\* Every node that is no window gives way to its children.
Unfolded(nodes, order) ==
    FlattenSeq([n \in DOMAIN nodes |->
        IF IsWindowNode(nodes[n]) THEN <<nodes[n]>> ELSE Children(nodes[n], order)])

\* The windows of a tree, a level of it at a time.
Walked(tree, order) ==
    LET level[n \in 0..TreeDepth] ==
            IF n = 0 THEN <<tree>> ELSE Unfolded(level[n - 1], order)
    IN level[TreeDepth]

CollectWindows(tree) == Walked(tree, "list")

\* The rectangle of a node is on the desktop already.
WindowFields(node) == node.rect

SwayClients(tree) ==
    LET found == CollectWindows(tree)
    IN [i \in DOMAIN found |->
            WmWindow(found[i].id, WindowFields(found[i]), TRUE, ~found[i].visible)]

\* The first focused leaf, or none.
FindFocused(tree) ==
    LET leaves == Walked(tree, "focus")
        focused == {n \in DOMAIN leaves : leaves[n].focused}
    IN IF focused = {} THEN <<>> ELSE <<leaves[Min(focused)]>>

-----------------------------------------------------------------------------
(* Niri: windows, workspaces, outputs *)

\* A position in the view of the window's workspace, or none if it has scrolled away.
LayoutOf(w) == [pos |-> IF w.inView THEN <<w.rect.x, w.rect.y>> ELSE None,
                size |-> <<w.rect.w, w.rect.h>>]

ResolveRect(tile, output, outputs) ==
    IF tile.pos = None \/ output \notin DOMAIN outputs THEN None
    ELSE [x |-> tile.pos[1] + outputs[output].x, y |-> tile.pos[2] + outputs[output].y,
          w |-> tile.size[1], h |-> tile.size[2]]

\* The workspaces are those of m, the outputs those of n.
NiriRect(w, m, n) ==
    ResolveRect(LayoutOf(w), m.home[w.ws], [o \in Plugged(n) |-> desk.outputs[o].area])

\* A window that cannot be placed is not offered.
NiriClients(m, n) ==
    [i \in DOMAIN desk.windows |->
        LET rect == NiriRect(desk.windows[i], m, n)
        IN WmWindow(desk.windows[i].id, rect, TRUE, rect = None)]

-----------------------------------------------------------------------------
(* Foreign toplevel: windows without geometry *)

ForeignClients ==
    [i \in DOMAIN desk.windows |->
        WmWindow(desk.windows[i].id, None, TRUE, desk.windows[i].hidden)]

-----------------------------------------------------------------------------
(* A call *)

\* How many connections one call makes, one after the other.
Queries(asked) ==
    CASE desk.backend = "niri" -> 3
      [] desk.backend = "hyprland" /\ asked = "clients" -> 2
      [] OTHER -> 1

WindowsFrom(r) ==
    CASE desk.backend = "hyprland" -> ParseClients(RawClients(r[1]), RawMonitors(r[2]))
      [] desk.backend = "sway" -> SwayClients(Tree(r[1]))
      [] desk.backend = "niri" -> NiriClients(r[2], r[3])
      [] desk.backend = "foreign" -> ForeignClients

\* active_window(): a list of at most one.  Hyprland's is not clipped.
Active(rect) == <<WmWindow(desk.focused, rect, TRUE, FALSE)>>

HyprlandActive(m) ==
    IF desk.focused = None THEN <<>> ELSE Active(Lies(m, Win(desk.focused)))

SwayActive(m) ==
    LET found == FindFocused(Tree(m))
    IN IF found = <<>> THEN <<>>
       ELSE <<WmWindow(found[1].id, WindowFields(found[1]), TRUE, FALSE)>>

NiriActive(m, n) ==
    IF desk.focused = None THEN <<>> ELSE Active(NiriRect(Win(desk.focused), m, n))

ForeignActive == IF desk.focused = None THEN <<>> ELSE Active(None)

ActiveFrom(r) ==
    CASE desk.backend = "hyprland" -> HyprlandActive(r[1])
      [] desk.backend = "sway" -> SwayActive(r[1])
      [] desk.backend = "niri" -> NiriActive(r[2], r[3])
      [] desk.backend = "foreign" -> ForeignActive

ListTypeOK ==
    /\ desk \in Desks /\ layout \in Layouts(desk)
    /\ call \in {"idle", "clients", "active"}
    /\ Len(replies) <= Queries(call)
    /\ shuffles \in 0..MaxShuffles

ListInit ==
    /\ desk \in Desks /\ layout = desk.layout
    /\ call = "idle" /\ replies = <<>> /\ list = <<>> /\ moments = {} /\ shuffles = 0

Ask ==
    /\ call = "idle"
    /\ call' \in {"clients", "active"}
    /\ moments' = {layout} /\ replies' = <<>> /\ list' = <<>>
    /\ UNCHANGED <<desk, layout, shuffles>>

Replied ==
    /\ call # "idle" /\ Len(replies) < Queries(call)
    /\ replies' = Append(replies, layout)
    /\ list' = IF Len(replies') < Queries(call) THEN list
               ELSE IF call = "clients" THEN WindowsFrom(replies') ELSE ActiveFrom(replies')
    /\ UNCHANGED <<desk, layout, call, moments, shuffles>>

\* A socket that is gone, a reply that does not parse: the caller does without.
CallFails ==
    /\ call # "idle" /\ Len(replies) < Queries(call)
    /\ call' = "idle" /\ replies' = <<>>
    /\ UNCHANGED <<desk, layout, list, moments, shuffles>>

CallReturns ==
    /\ call # "idle" /\ Len(replies) = Queries(call)
    /\ call' = "idle" /\ replies' = <<>>
    /\ UNCHANGED <<desk, layout, list, moments, shuffles>>

-----------------------------------------------------------------------------
(* The user moves things while the call is under way *)

Shuffle(m) ==
    /\ call # "idle" /\ Len(replies) < Queries(call)
    /\ shuffles < MaxShuffles /\ shuffles' = shuffles + 1
    /\ layout' = m /\ moments' = moments \cup {m}
    /\ UNCHANGED <<desk, call, replies, list>>

Ordinary == DOMAIN layout.home \ desk.specials

WorkspaceSwitched ==
    \E ws \in Ordinary :
        LET o == layout.home[ws]
        IN layout.shows[o] # ws /\ Shuffle([layout EXCEPT !.shows[o] = ws])

\* A special workspace is hidden, or drawn over an output, and on no other.
SpecialToggled ==
    \E ws \in desk.specials, o \in Plugged(layout) :
        LET hidden == [q \in Outs |-> IF layout.special[q] = ws THEN 0 ELSE layout.special[q]]
        IN IF layout.special[o] = ws THEN Shuffle([layout EXCEPT !.special = hidden])
           ELSE Shuffle([shows |-> layout.shows, special |-> [hidden EXCEPT ![o] = ws],
                         home |-> [layout.home EXCEPT ![ws] = o]])

\* Windows go with their workspace.  The output it leaves shows another of its
\* own; the one it comes to may show it, and must if it was not plugged in.
WorkspaceMoved ==
    \E ws \in Ordinary, o \in Outs :
        LET from == layout.home[ws]
            others == {s \in Ordinary \ {ws} : layout.home[s] = from}
        IN \E front \in {ws, layout.shows[o]} \ {0},
              left \in IF layout.shows[from] = ws THEN others ELSE {layout.shows[from]} :
            /\ from # o
            /\ Shuffle([shows |-> [layout.shows EXCEPT ![o] = front, ![from] = left],
                        special |-> layout.special, home |-> [layout.home EXCEPT ![ws] = o]])

\* Its workspaces go to another output.
OutputUnplugged ==
    \E o, to \in Plugged(layout) :
        /\ o # to
        /\ Shuffle([shows |-> [layout.shows EXCEPT ![o] = 0],
                    special |-> [layout.special EXCEPT ![o] = 0],
                    home |-> [ws \in DOMAIN layout.home |->
                                IF layout.home[ws] = o THEN to ELSE layout.home[ws]]])

ListNext ==
    \/ Ask \/ Replied \/ CallFails \/ CallReturns
    \/ WorkspaceSwitched \/ SpecialToggled \/ WorkspaceMoved \/ OutputUnplugged

-----------------------------------------------------------------------------
(* Properties *)

CallComplete == call # "idle" /\ Len(replies) = Queries(call)

\* The answers of one call may speak of different places: a workspace was on two
\* outputs while it was under way.
Mixed == Queries(call) > 1 /\ \E m, n \in moments : m.home # n.home

\* What a list can say of a window under p.  Hyprland and Sway say what is on
\* show; Niri says where a window lies on its workspace; a foreign toplevel
\* manager says nothing of the kind.
Said(m, w, p) ==
    CASE desk.backend \in {"hyprland", "sway"} -> ShownAt(m, w, p)
      [] desk.backend = "niri" -> w.inView /\ Within(Lies(m, w), p[1], p[2])
      [] desk.backend = "foreign" -> FALSE

\* No window of the same workspace lies above a hit.
Frontmost(m, id, p) ==
    \A i, j \in DOMAIN desk.windows :
        /\ desk.windows[j].id = id /\ ShownAt(m, desk.windows[i], p)
        /\ desk.windows[i].ws = desk.windows[j].ws
        => j <= i

\* What a click finds in the list is what is there.
TrueOf(m) ==
    \A p \in desk.points :
        LET hit == WindowAt(list, p)
        IN IF hit = None THEN ~\E w \in Range(desk.windows) : Said(m, w, p)
           ELSE /\ Said(m, Win(hit), p)
                /\ desk.backend \in {"hyprland", "sway"} => Frontmost(m, hit, p)

\* Whatever a click finds was there.
HitsTrue ==
    \A p \in desk.points :
        LET hit == WindowAt(list, p)
        IN hit # None => \E m \in moments : Said(m, Win(hit), p)

\* The active window, as a list of at most one, with its place if it is known.
ActiveAs(rect) ==
    list = IF desk.focused = None THEN <<>> ELSE <<WmWindow(desk.focused, rect, TRUE, FALSE)>>

ActiveIn(m) ==
    ActiveAs(IF \/ desk.backend = "foreign"
                \/ desk.backend = "niri" /\ ~Win(desk.focused).inView
             THEN None ELSE Lies(m, Win(desk.focused)))

\* Whatever the user does with workspaces and outputs while a call is under way:
\* a window that the selector finds under the pointer was there at a moment of
\* the call (wm/mod.rs, window_at), and if no workspace changed outputs the
\* whole list is true of one moment, so that nothing there is missed either and
\* nothing lies above what is found.  The active window is where it was at one
\* moment, or without a place if Niri's answers do not fit together.  "Topmost
\* mapped, visible window" (wm/mod.rs:90) asks for more: Niri's list does not tell
\* which workspace is on show (Said), and where a workspace changed outputs a
\* window that was visible all along may be missed (Mixed).
HitIsShown ==
    /\ CallComplete /\ call = "clients" =>
        HitsTrue /\ (Mixed \/ \E m \in moments : TrueOf(m))
    /\ CallComplete /\ call = "active" =>
        (Mixed /\ ActiveAs(None)) \/ \E m \in moments : ActiveIn(m)

=============================================================================
