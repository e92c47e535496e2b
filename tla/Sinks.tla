------------------------------- MODULE Sinks --------------------------------
(***************************************************************************)
(* Where a picture goes (cli/mod.rs, config.rs, output/mod.rs): the list   *)
(* of sinks a request was given, the switcher of the toolbars that sees it *)
(* as one of three modes, and the path of a file.  A path is a model       *)
(* string, or the default directory with the token that varies in it.      *)
(***************************************************************************)
EXTENDS Naturals, SequencesExt

CONSTANTS
    Paths,              \* the paths a user may name
    Unset,              \* Option::None: neither a path nor a kind is given
    DefaultKind,        \* [clipboard].default_kind
    DefaultSinks,       \* [output].default_sinks
    OutputInTemplate    \* whether the file name template has {output}

Modes == {"File", "Clipboard", "Both"}

Kinds == {"Regular", "Primary", "Both"}

\* The Wayland selections that a kind of clipboard sink claims.
SelectionsOf(kind) == {k \in {"Regular", "Primary"} : kind \in {k, "Both"}}

File(path) == [kind |-> "File", path |-> path]

Clipboard(target) == [kind |-> "Clipboard", target |-> target]

SinkSpecs == {File(p) : p \in Paths \cup {Unset}}
             \cup {Clipboard(k) : k \in Kinds \cup {Unset}}

IsFile(s) == s.kind = "File"

IsClipboard(s) == s.kind = "Clipboard"

ResolveClipboardDefault(s) ==
    IF IsClipboard(s) /\ s.target = Unset THEN Clipboard(DefaultKind) ELSE s

EffectiveSinks(sinks) ==
    LET given == IF sinks = <<>> THEN DefaultSinks ELSE sinks
    IN [i \in DOMAIN given |-> ResolveClipboardDefault(given[i])]

-----------------------------------------------------------------------------
(* SinkSelection *)

\* find_map: the first that names one.
FirstPath(sinks) ==
    LET named == SelectSeq(sinks, LAMBDA s : IsFile(s) /\ s.path # Unset)
    IN IF named = <<>> THEN Unset ELSE Head(named).path

FirstKind(sinks) ==
    LET pinned == SelectSeq(sinks, LAMBDA s : IsClipboard(s) /\ s.target # Unset)
    IN IF pinned = <<>> THEN Unset ELSE Head(pinned).target

FromSinks(sinks) ==
    LET file == \E i \in DOMAIN sinks : IsFile(sinks[i])
        clipboard == \E i \in DOMAIN sinks : IsClipboard(sinks[i])
    IN [mode |-> CASE file /\ clipboard -> "Both"
                   [] ~file /\ clipboard -> "Clipboard"
                   [] OTHER -> "File",
        path |-> FirstPath(sinks), target |-> FirstKind(sinks)]

NextMode(mode) ==
    CASE mode = "File" -> "Clipboard"
      [] mode = "Clipboard" -> "Both"
      [] mode = "Both" -> "File"

\* Defect: the switcher starts afresh and forgets the path.
SetMode_Forgets(selection, mode) == [selection EXCEPT !.mode = mode, !.path = Unset]

SetMode(selection, mode) == [selection EXCEPT !.mode = mode]

ToSinks(selection) ==
    CASE selection.mode = "File" -> <<File(selection.path)>>
      [] selection.mode = "Clipboard" -> <<Clipboard(selection.target)>>
      [] selection.mode = "Both" ->
            <<File(selection.path), Clipboard(selection.target)>>

ApplyOutputOverride(sinks, mode) == ToSinks(SetMode(FromSinks(sinks), mode))

-----------------------------------------------------------------------------
(* from_specs_with *)

\* Defect: the name does not vary with the output.
FileName_Same(output, per_output) ==
    <<"default", IF OutputInTemplate THEN output ELSE Unset>>

\* expand_filename and expand_filename_per_output
FileName(output, per_output) ==
    <<"default", IF OutputInTemplate \/ per_output THEN output ELSE Unset>>

PathOf(s, output, per_output) ==
    IF s.path # Unset THEN s.path ELSE FileName(output, per_output)

TargetOf(s) == IF s.target = Unset THEN DefaultKind ELSE s.target

=============================================================================
