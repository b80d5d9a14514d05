--------------------------- MODULE MCSharkdSession ---------------------------
(***************************************************************************)
(* Small instances of the JSON dumper for TLC: called by anyone in any     *)
(* order, or by the handlers of a sharkd session.                          *)
(***************************************************************************)
EXTENDS SharkdSession

CONSTANT rtp         \* the name of a tap

VARIABLE served     \* whether the session makes the calls

MCInit == SessionInit /\ served \in BOOLEAN

MCNext ==
    /\ UNCHANGED served
    /\ \/ ~served /\ Next /\ UNCHANGED sessionVars
       \/ served /\ SessionNext

MCSpec == MCInit /\ [][MCNext]_<<served, vars, sessionVars>>

\* The session's properties, where it makes the calls.
SessionReplies == served => RepliesSound
SessionListeners == served => ListenersReturned

=============================================================================
