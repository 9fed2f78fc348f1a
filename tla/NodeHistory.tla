---------------------------- MODULE NodeHistory ----------------------------
(***************************************************************************)
(* What the content of a node promises its writers: one document at a      *)
(* time, each obtained from the one before by exactly one call, as if      *)
(* calls never overlapped, and a summary that goes stale with every new    *)
(* version.  NodeContent, where calls do overlap, implements it.           *)
(***************************************************************************)
EXTENDS Naturals

CONSTANTS
    Doc,            \* documents
    Calls(_),       \* the calls a writer may make on version n
    After(_, _),    \* what a call makes of a document
    CreateCall      \* the call that wrote version 1

VARIABLES
    number,         \* of the current version
    doc,            \* the current document
    call,           \* the call that wrote it
    flag            \* the summary is marked current

vars == <<number, doc, call, flag>>

Init ==
    /\ number = 1
    /\ doc \in Doc
    /\ call = CreateCall
    /\ flag = FALSE

\* One call, applied whole to the newest document.
Write ==
    /\ number' = number + 1
    /\ call' \in Calls(number)
    /\ doc' = After(doc, call')
    /\ doc' # doc
    /\ flag' = FALSE

\* A summary of whatever document: the history does not move.
Summarize ==
    /\ flag' \in BOOLEAN
    /\ UNCHANGED <<number, doc, call>>

Next == Write \/ Summarize

Spec == Init /\ [][Next]_vars
=============================================================================
