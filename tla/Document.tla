------------------------------ MODULE Document ------------------------------
(***************************************************************************)
(* What the canvases promise about the documents the user draws on: every  *)
(* annotation is in a document at most once, an annotation whose text is   *)
(* edited again leaves it and comes back, unchanged or edited, and nothing *)
(* the user has discarded ever returns.  A step may change the documents   *)
(* of several monitors, as a change of tool does.                          *)
(***************************************************************************)
EXTENDS Naturals, SequencesExt

CONSTANTS
    Monitors,       \* a document on each
    Annotations,    \* the annotations the user may ever draw
    None

VARIABLES
    layers,     \* the annotations of each document, bottom first
    lifted,     \* the annotation that is out of the document for an edit
    used        \* every one that is in the document, was, or never will be

vars == <<layers, lifted, used>>

Init ==
    /\ layers = [m \in Monitors |-> <<>>]
    /\ lifted = [m \in Monitors |-> None]
    /\ used = [m \in Monitors |-> {}]

\* s ends what is under way: new annotations, and the lifted one if it ends.
Added(m, s) ==
    /\ IsInjective(s)
    /\ Range(s) \subseteq (Annotations \ used[m]) \cup ({lifted[m]} \ {None})
    /\ used[m] \cup Range(s) \subseteq used'[m]

Grow(m) ==
    \E s \in SeqOf(Annotations, 2) :
        /\ Added(m, s)
        /\ layers'[m] = layers[m] \o s
        /\ lifted'[m] = IF lifted[m] \in Range(s) THEN None ELSE lifted[m]

\* An edit begins, after whatever was under way has been put into the document.
Lift(m) ==
    \E s \in SeqOf(Annotations, 1) :
        /\ Added(m, s)
        /\ lifted[m] = None \/ lifted[m] \in Range(s)
        /\ \E i \in 1..Len(layers[m] \o s) :
            /\ layers'[m] = RemoveAt(layers[m] \o s, i)
            /\ lifted'[m] = (layers[m] \o s)[i]

Discard(m) ==
    /\ \/ \E i \in DOMAIN layers[m] : layers'[m] = RemoveAt(layers[m], i)
       \/ layers'[m] = <<>>
    /\ lifted'[m] = lifted[m]
    /\ used[m] \subseteq used'[m]

Next == \A m \in Monitors : Grow(m) \/ Lift(m) \/ Discard(m)

Spec == Init /\ [][Next]_vars

=============================================================================
