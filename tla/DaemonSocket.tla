---------------------------- MODULE DaemonSocket ----------------------------
(***************************************************************************)
(* The daemon's Unix socket (daemon.rs, serve and handle_client) and the   *)
(* clients of it (cli/mod.rs, dispatch_via_daemon).  The socket file leads *)
(* to the process that bound it last, alive or not.  A connection carries  *)
(* lines; a task of the daemon answers them one after the other.  What a   *)
(* request does is in other modules: here it is carried out or fails.      *)
(***************************************************************************)
EXTENDS Sinks, Lists

CONSTANTS
    Daemons,        \* processes, each of which runs once
    Clients,
    Scripts,        \* what a client may write: sequences of lines
    NoFile,
    ConfigDelay, ConfigCursor       \* [capture]

ASSUME SocketAssumption == NoFile \notin Daemons

VARIABLES
    daemon,         \* process -> where serve() is
    file,           \* the process the socket file leads to, or NoFile
    overlapped,     \* history: processes that were not alone while they lived
    client,         \* client -> how far it is
    server,         \* client -> the process it is connected to
    sent,           \* client -> the lines it wrote
    input,          \* client -> those not read yet
    handler,        \* client -> the task that serves it
    output,         \* client -> the responses it was sent
    executed        \* history: client -> the jobs that were carried out for it

process == <<daemon, file, overlapped>>
connection == <<client, server, sent, input, handler, output, executed>>
socketVars == <<process, connection>>

Alive == {"checking", "removing", "binding", "serving", "quitting"}

Listening == {"serving", "quitting"}

Running == {d \in Daemons : daemon[d] \in Alive}

SocketTypeOK ==
    /\ daemon \in [Daemons -> Alive \cup {"off", "refused", "ended"}]
    /\ file \in Daemons \cup {NoFile} /\ overlapped \subseteq Daemons
    /\ client \in [Clients -> {"idle", "waiting", "told", "unreached", "cut"}]
    /\ server \in [Clients -> Daemons \cup {NoFile}]
    /\ handler \in [Clients -> {"none", "backlog", "reading", "dispatching", "replying", "ended"}]
    /\ \A c \in Clients : IsSuffix(input[c], sent[c])

SocketInit ==
    /\ daemon = [d \in Daemons |-> "off"] /\ file = NoFile /\ overlapped = {}
    /\ client = [c \in Clients |-> "idle"] /\ server = [c \in Clients |-> NoFile]
    /\ sent = [c \in Clients |-> <<>>] /\ input = sent /\ output = sent /\ executed = sent
    /\ handler = [c \in Clients |-> "none"]

-----------------------------------------------------------------------------
(* From the command line to the wire, and from the wire to the pipeline *)

Named(kind) == [kind |-> kind]

SelectionToSpec(selection) ==
    CASE selection.kind = "Output" -> [kind |-> "output", name |-> selection.name]
      [] selection.kind = "Region" ->
            [kind |-> "region", x |-> selection.rect[1], y |-> selection.rect[2],
             w |-> selection.rect[3], h |-> selection.rect[4]]
      [] selection.kind = "Full" -> Named("full")
      [] selection.kind = "PerOutput" -> Named("per_output")
      [] selection.kind = "Focused" -> Named("focused")
      [] selection.kind = "Window" -> Named("window")
      [] selection.kind = "Interactive" -> Named("interactive")

SelectionFromSpec(spec) ==
    CASE spec.kind = "output" -> [kind |-> "Output", name |-> spec.name]
      [] spec.kind = "region" ->
            [kind |-> "Region", rect |-> <<spec.x, spec.y, spec.w, spec.h>>]
      [] spec.kind = "full" -> Named("Full")
      [] spec.kind = "per_output" -> Named("PerOutput")
      [] spec.kind = "focused" -> Named("Focused")
      [] spec.kind = "window" -> Named("Window")
      [] spec.kind = "interactive" -> Named("Interactive")

SinksToSpecs(sinks) ==
    [i \in DOMAIN sinks |->
        IF IsFile(sinks[i]) THEN [kind |-> "file", path |-> sinks[i].path]
        ELSE [kind |-> "clipboard", clipboard_kind |-> sinks[i].target]]

SinksFromSpecs(specs) ==
    LET default(s) == IF s.clipboard_kind = Unset THEN DefaultKind ELSE s.clipboard_kind
    IN IF specs = <<>> THEN DefaultSinks
       ELSE [i \in DOMAIN specs |->
                IF specs[i].kind = "file" THEN File(specs[i].path)
                ELSE Clipboard(default(specs[i]))]

\* --clipboard-type for the entries that name no kind.
Typed(sinks, kind) ==
    [i \in DOMAIN sinks |->
        IF IsClipboard(sinks[i]) /\ sinks[i].target = Unset THEN Clipboard(kind)
        ELSE sinks[i]]

EffectiveDelay(asked) ==
    LET secs == IF asked = Unset THEN ConfigDelay ELSE asked
    IN IF secs = 0 THEN Unset ELSE secs

EffectiveCursor(asked) == asked \/ ConfigCursor

\* Of the flags of `draw` only --toggle-passthrough is looked at.
BuildRequest(args) ==
    CASE args.command = "screenshot" ->
            [kind |-> "screenshot", selection |-> SelectionToSpec(args.selection),
             cursor |-> args.cursor, edit |-> args.edit, delay_secs |-> args.delay,
             sinks |-> SinksToSpecs(IF args.clipboard_type = Unset THEN args.to
                                    ELSE Typed(args.to, args.clipboard_type))]
      [] args.command = "draw" ->
            Named(IF args.toggle_passthrough THEN "passthrough_toggle" ELSE "draw_toggle")

\* OverlayMode::Draw, as the overlay is opened.
Overlay(passthrough, sinks, cursor) ==
    [kind |-> "overlay", passthrough |-> passthrough, sinks |-> sinks, cursor |-> cursor]

\* What dispatch() hands to screenshot::execute(), the overlay toggle_overlay()
\* opens where none is open (Daemon has the slot), or the other toggle.
JobOf(request) ==
    CASE request.kind = "screenshot" ->
            [kind |-> "screenshot", selection |-> SelectionFromSpec(request.selection),
             sinks |-> SinksFromSpecs(request.sinks), edit |-> request.edit,
             delay |-> EffectiveDelay(request.delay_secs),
             cursor |-> EffectiveCursor(request.cursor)]
      [] request.kind = "draw_toggle" -> Overlay(FALSE, DefaultSinks, FALSE)
      [] request.kind = "passthrough_toggle" -> request

\* --to and --clipboard-type; the overlay has the same fallback as a screenshot.
DirectSinks(args) ==
    IF args.to = <<>> THEN DefaultSinks
    ELSE Typed(args.to, IF args.clipboard_type = Unset THEN DefaultKind ELSE args.clipboard_type)

\* What the arguments do without --via-daemon (run() of either command).
DirectJob(args) ==
    CASE args.command = "screenshot" ->
            [kind |-> "screenshot", selection |-> args.selection, sinks |-> DirectSinks(args),
             edit |-> args.edit, delay |-> EffectiveDelay(args.delay),
             cursor |-> EffectiveCursor(args.cursor)]
      [] args.command = "draw" ->
            Overlay(args.passthrough, DirectSinks(args), EffectiveCursor(args.cursor))

-----------------------------------------------------------------------------
(* serve() *)

\* exists()
Start(d) ==
    /\ daemon[d] = "off"
    /\ daemon' = [daemon EXCEPT ![d] = IF file = NoFile THEN "binding" ELSE "removing"]
    /\ overlapped' = IF Running = {} THEN overlapped ELSE overlapped \cup Running \cup {d}
    /\ UNCHANGED <<file, connection>>

\* Defect: the file of a daemon that died stays.
RemoveStale_Leaves(d) ==
    /\ daemon[d] = "removing"
    /\ daemon' = [daemon EXCEPT ![d] = "binding"]
    /\ UNCHANGED <<file, overlapped, connection>>

RemoveStale(d) ==
    /\ daemon[d] = "removing"
    /\ daemon' = [daemon EXCEPT ![d] = IF file = NoFile THEN "refused" ELSE "binding"]
    /\ file' = NoFile
    /\ UNCHANGED <<overlapped, connection>>

\* An address that exists cannot be bound.
Bind(d) ==
    /\ daemon[d] = "binding"
    /\ IF file = NoFile
       THEN file' = d /\ daemon' = [daemon EXCEPT ![d] = "serving"]
       ELSE UNCHANGED file /\ daemon' = [daemon EXCEPT ![d] = "refused"]
    /\ UNCHANGED <<overlapped, connection>>

\* The tray's Quit, or Ctrl-C, ends the loop; handlers go on for a moment.
QuitAsked(d) ==
    /\ daemon[d] = "serving"
    /\ daemon' = [daemon EXCEPT ![d] = "quitting"]
    /\ UNCHANGED <<file, overlapped, connection>>

Ends(d) ==
    /\ daemon' = [daemon EXCEPT ![d] = "ended"]
    /\ handler' = [c \in Clients |-> IF server[c] = d THEN "ended" ELSE handler[c]]
    /\ UNCHANGED <<overlapped, client, server, sent, input, output, executed>>

\* Whatever file is there, then the end of the process and of its tasks.
RemoveOwn(d) == daemon[d] = "quitting" /\ file' = NoFile /\ Ends(d)

Crash(d) == daemon[d] \in Alive /\ UNCHANGED file /\ Ends(d)

Accept(c) ==
    /\ handler[c] = "backlog" /\ daemon[server[c]] = "serving"
    /\ handler' = [handler EXCEPT ![c] = "reading"]
    /\ UNCHANGED <<process, client, server, sent, input, output, executed>>

-----------------------------------------------------------------------------
(* handle_client() *)

Blank == [command |-> "blank"]

Malformed == [command |-> "malformed"]

IsArgs(line) == line.command \in {"screenshot", "draw"}

IsSelection(s) ==
    \/ s \in [kind : {"Full", "PerOutput", "Focused", "Window", "Interactive"}]
    \/ s.kind = "Output" /\ s = [kind |-> "Output", name |-> s.name]
    \/ s.kind = "Region" /\ s = [kind |-> "Region",
                                rect |-> <<s.rect[1], s.rect[2], s.rect[3], s.rect[4]>>]

\* What a client may write: blank lines, what is no request, and what snypr
\* itself makes of a command line.
IsLine(line) ==
    \/ line \in {Blank, Malformed}
    \/ /\ line.command = "draw"
       /\ line.toggle_passthrough \in BOOLEAN /\ line.passthrough \in BOOLEAN
       /\ ~(line.toggle_passthrough /\ line.passthrough)
       /\ line.to \in Seq(SinkSpecs)
       /\ line.clipboard_type \in Kinds \cup {Unset}
       /\ line.cursor \in BOOLEAN
    \/ /\ line.command = "screenshot"
       /\ IsSelection(line.selection)
       /\ line.to \in Seq(SinkSpecs)
       /\ line.clipboard_type \in Kinds \cup {Unset}

ASSUME ScriptsAssumption ==
    \A script \in Scripts :
        script \in Seq(Range(script)) /\ \A line \in Range(script) : IsLine(line)

Response(kind, job) == [kind |-> kind, job |-> job]

\* Defect: an unreadable line stays in the buffer and spoils the next.
ReadLine_KeepsMalformed(c) ==
    /\ handler[c] = "reading" /\ input[c] # <<>>
    /\ LET line == Head(input[c])
       IN /\ input' = IF line = Malformed /\ Len(input[c]) > 1
                      THEN [input EXCEPT ![c] = <<line>> \o Tail(Tail(@))]
                      ELSE [input EXCEPT ![c] = Tail(@)]
          /\ handler' = IF IsArgs(line) THEN [handler EXCEPT ![c] = "dispatching"]
                        ELSE handler
          /\ output' = IF line = Malformed
                       THEN [output EXCEPT ![c] = Append(@, Response("Error", line))]
                       ELSE output
    /\ UNCHANGED <<process, client, server, sent, executed>>

\* A blank line is passed over, an unreadable one answered.
ReadLine(c) ==
    /\ handler[c] = "reading" /\ input[c] # <<>>
    /\ LET line == Head(input[c])
       IN /\ input' = [input EXCEPT ![c] = Tail(@)]
          /\ handler' = IF IsArgs(line) THEN [handler EXCEPT ![c] = "dispatching"]
                        ELSE handler
          /\ output' = IF line = Malformed
                       THEN [output EXCEPT ![c] = Append(@, Response("Error", line))]
                       ELSE output
    /\ UNCHANGED <<process, client, server, sent, executed>>

\* The line being dispatched is the last one read.
Current(c) == sent[c][Len(sent[c]) - Len(input[c])]

Execute(c) ==
    /\ handler[c] = "dispatching"
    /\ executed' = [executed EXCEPT ![c] = Append(@, JobOf(BuildRequest(Current(c))))]
    /\ handler' = [handler EXCEPT ![c] = "replying"]
    /\ UNCHANGED <<process, client, server, sent, input, output>>

\* Errors become a response as well: the connection is not torn.
Outcomes(job) ==
    CASE job.kind = "screenshot" -> {"Paths", "Error"}
      [] job.kind = "overlay" -> {"Ok"}
      [] job.kind = "passthrough_toggle" -> {"Ok", "Error"}

Reply(c) ==
    /\ handler[c] = "replying"
    /\ LET job == executed[c][Len(executed[c])]
       IN \E kind \in Outcomes(job) :
            output' = [output EXCEPT ![c] = Append(@, Response(kind, job))]
    /\ handler' = [handler EXCEPT ![c] = "reading"]
    /\ UNCHANGED <<process, client, server, sent, input, executed>>

\* The client closed its writing side after what it wrote.
EndOfInput(c) ==
    /\ handler[c] = "reading" /\ input[c] = <<>>
    /\ handler' = [handler EXCEPT ![c] = "ended"]
    /\ UNCHANGED <<process, client, server, sent, input, output, executed>>

-----------------------------------------------------------------------------
(* dispatch_via_daemon() *)

Connect(c) ==
    /\ client[c] = "idle"
    /\ IF file = NoFile \/ (file \in Daemons /\ daemon[file] \notin Listening)
       THEN /\ client' = [client EXCEPT ![c] = "unreached"]
            /\ UNCHANGED <<server, sent, input, handler>>
       ELSE /\ client' = [client EXCEPT ![c] = "waiting"]
            /\ server' = [server EXCEPT ![c] = file]
            /\ handler' = [handler EXCEPT ![c] = "backlog"]
            /\ \E script \in Scripts :
                /\ sent' = [sent EXCEPT ![c] = script]
                /\ input' = [input EXCEPT ![c] = script]
    /\ UNCHANGED <<process, output, executed>>

\* One line is read: snypr's own clients wrote one.
Told(c) ==
    /\ client[c] = "waiting" /\ output[c] # <<>>
    /\ client' = [client EXCEPT ![c] = "told"]
    /\ UNCHANGED <<process, server, sent, input, handler, output, executed>>

\* End of file in place of a response: an error.
CutOff(c) ==
    /\ client[c] = "waiting" /\ handler[c] = "ended" /\ output[c] = <<>>
    /\ client' = [client EXCEPT ![c] = "cut"]
    /\ UNCHANGED <<process, server, sent, input, handler, output, executed>>

SocketNext ==
    \/ \E d \in Daemons : \/ Start(d) \/ RemoveStale(d) \/ Bind(d)
                          \/ QuitAsked(d) \/ RemoveOwn(d) \/ Crash(d)
    \/ \E c \in Clients : \/ Connect(c) \/ Accept(c) \/ Told(c) \/ CutOff(c)
                          \/ ReadLine(c) \/ Execute(c) \/ Reply(c) \/ EndOfInput(c)

-----------------------------------------------------------------------------
\* A daemon that lives alone comes to serve, whatever file one that died before
\* it left behind, and as long as it serves the file leads to it (daemon.rs:57).
SoleDaemonServes ==
    \A d \in Daemons \ overlapped :
        /\ daemon[d] # "refused"
        /\ daemon[d] = "serving" => file = d

\* `draw` with no flag but --via-daemon.
PlainDraw ==
    [command |-> "draw", toggle_passthrough |-> FALSE, passthrough |-> FALSE,
     to |-> <<>>, clipboard_type |-> Unset, cursor |-> FALSE]

\* What arguments come to through the daemon: a screenshot, what they come to
\* without it; `draw`, whatever its flags, the overlay that `draw` alone opens, with
\* no cursor.  "Route the command through a running daemon instead of running
\* locally" (cli/draw.rs:41) would be DirectJob(args): the flags are not sent.
Routed(args) ==
    CASE args.command = "screenshot" -> DirectJob(args)
      [] args.command = "draw" /\ args.toggle_passthrough -> Named("passthrough_toggle")
      [] args.command = "draw" /\ ~args.toggle_passthrough ->
            Overlay(DirectJob(PlainDraw).passthrough, DirectJob(PlainDraw).sinks, FALSE)

\* The arguments on the lines that call for an answer, as jobs.
Due(c) ==
    LET lines == Without(sent[c], Blank)
    IN [i \in DOMAIN lines |-> IF IsArgs(lines[i]) THEN Routed(lines[i]) ELSE lines[i]]

\* What the responses are about.
Answers(c) == [i \in DOMAIN output[c] |-> output[c][i].job]

\* Responses come in the order of a client's lines, each for what its line asks:
\* of a screenshot, exactly the capture the same arguments make without the
\* daemon; of `draw`, the overlay that `draw` opens without flags and without the
\* pointer, or the toggle.  What was answered was carried out once, and for a
\* client that reached no daemon nothing was (daemon.rs, handle_client and
\* dispatch; cli/mod.rs, build_request).  That the flags of `draw` get through is
\* not said: they do not (Routed).
AnsweredTruly ==
    \A c \in Clients :
        /\ client[c] = "unreached" => executed[c] = <<>> /\ output[c] = <<>>
        /\ IsPrefix(Answers(c), Due(c))
        /\ LET answered == Without(Answers(c), Malformed)
           IN /\ IsPrefix(executed[c], Without(Due(c), Malformed))
              /\ Len(executed[c]) \in {Len(answered), Len(answered) + 1}
        /\ handler[c] = "ended" /\ daemon[server[c]] = "serving" =>
              Len(output[c]) = Len(Due(c))

=============================================================================
