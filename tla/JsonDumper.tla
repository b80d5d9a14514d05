----------------------------- MODULE JsonDumper -----------------------------
(***************************************************************************)
(* The JSON writer of wsutil/json_dumper.c, through which every reply of   *)
(* sharkd goes. It keeps two facts for each level of nesting in a byte,    *)
(* and decides from them where a comma goes and which calls are in error.  *)
(*                                                                         *)
(* Any call may be made at any time. An error is final: later calls write  *)
(* nothing. (A dumper without JSON_DUMPER_FLAGS_NO_DEBUG, like sharkd's,   *)
(* also ends the process at the error, in g_error.) text is what has been  *)
(* written to output_file, as the acceptor of JsonText sees it.            *)
(***************************************************************************)
EXTENDS JsonText, Integers

CONSTANT JSON_DUMPER_MAX_DEPTH

ASSUME DumperAssumption == JSON_DUMPER_MAX_DEPTH \in Nat \ {0}

VARIABLES current_depth,
          state,      \* type, and whether the object's next member has its name
          error,      \* JSON_DUMPER_FLAGS_ERROR
          text,
          slipped     \* history: a container was begun where JSON has no place for it

vars == <<current_depth, state, error, text, slipped>>

Type == Container \cup {"none", "value"}
Zero == [type |-> "none", named |-> FALSE]
Level == 0 .. JSON_DUMPER_MAX_DEPTH - 1

PrevState == IF current_depth > 0 THEN state[current_depth - 1] ELSE Zero

Init ==
    /\ current_depth = 0
    /\ state = [d \in Level |-> Zero]
    /\ error = FALSE
    /\ text = Start
    /\ slipped = FALSE

-----------------------------------------------------------------------------
\* json_dumper_check_state: what it allows for each change.
BeginAllowed == current_depth + 1 < JSON_DUMPER_MAX_DEPTH
EndAllowed(type) == PrevState.type = type /\ ~PrevState.named

NameAllowed == PrevState.type = "object" /\ ~PrevState.named

\* Mutant: an object takes a value without a name.
ValueAllowed_Unnamed ==
    \/ PrevState.type \in {"object", "array"}
    \/ PrevState.type \notin Container /\ state[current_depth].type = "none"

ValueAllowed ==
    \/ PrevState.type = "object" /\ PrevState.named
    \/ PrevState.type = "array"
    \/ PrevState.type \notin Container /\ state[current_depth].type = "none"

WriteAllowed == PrevState.type = "base64"

FinishAllowed == current_depth = 0

\* json_dumper_check_state fails: the error sticks, and nothing is written.
Rejected(allowed) ==
    /\ error \/ ~allowed
    /\ error' = TRUE
    /\ UNCHANGED <<current_depth, state, text, slipped>>

-----------------------------------------------------------------------------
\* prepare_token: the name of a member is used up, and a comma is written
\* unless what follows is a member's value or the first in its container.
Prepared == IF current_depth = 0 THEN state
            ELSE [state EXCEPT ![current_depth - 1].named = FALSE]

NeedsComma ==
    /\ current_depth > 0
    /\ \/ PrevState.type = "array"
       \/ PrevState.type = "object" /\ ~PrevState.named
    /\ state[current_depth] # Zero

PreparedText == IF NeedsComma THEN FeedComma(text) ELSE text

\* What a BEGIN does not check: an object's member has a name, a base64 string
\* has no containers, a line has one value.
Misplaced ==
    \/ (PrevState.type = "object" /\ ~PrevState.named)
    \/ PrevState.type = "base64"
    \/ (current_depth = 0 /\ state[0].type # "none")

\* Mutant: the state of the new level is what an earlier container left there.
Begin_KeepsState(type) ==
    \/ /\ ~error /\ BeginAllowed
       /\ text' = FeedOpen(PreparedText, type)
       /\ state' = [Prepared EXCEPT ![current_depth].type = type]
       /\ current_depth' = current_depth + 1
       /\ slipped' = (slipped \/ Misplaced)
       /\ UNCHANGED error
    \/ Rejected(BeginAllowed)

\* json_dumper_begin_object, json_dumper_begin_array, json_dumper_begin_base64
Begin(type) ==
    \/ /\ ~error /\ BeginAllowed
       /\ text' = FeedOpen(PreparedText, type)
       /\ state' = [Prepared EXCEPT ![current_depth] = [type |-> type, named |-> FALSE],
                                    ![current_depth + 1] = Zero]
       /\ current_depth' = current_depth + 1
       /\ slipped' = (slipped \/ Misplaced)
       /\ UNCHANGED error
    \/ Rejected(BeginAllowed)

\* json_dumper_end_object, json_dumper_end_array, json_dumper_end_base64
End(type) ==
    \/ /\ ~error /\ EndAllowed(type)
       /\ text' = FeedClose(text, type)
       /\ current_depth' = current_depth - 1
       /\ UNCHANGED <<state, error, slipped>>
    \/ Rejected(EndAllowed(type))

\* json_dumper_set_member_name
SetMemberName ==
    \/ /\ ~error /\ NameAllowed
       /\ text' = FeedName(PreparedText)
       /\ state' = [Prepared EXCEPT ![current_depth - 1].named = TRUE]
       /\ UNCHANGED <<current_depth, error, slipped>>
    \/ Rejected(NameAllowed)

\* json_dumper_value_string, _double, _anyf, _va_list
Value ==
    \/ /\ ~error /\ ValueAllowed
       /\ text' = FeedValue(PreparedText)
       /\ state' = [Prepared EXCEPT ![current_depth] = [type |-> "value", named |-> FALSE]]
       /\ UNCHANGED <<current_depth, error, slipped>>
    \/ Rejected(ValueAllowed)

\* json_dumper_write_base64
WriteBase64 ==
    \/ /\ ~error /\ WriteAllowed
       /\ text' = FeedCharacters(text)
       /\ state' = [state EXCEPT ![current_depth] = [type |-> "base64", named |-> FALSE]]
       /\ UNCHANGED <<current_depth, error, slipped>>
    \/ Rejected(WriteAllowed)

\* json_dumper_finish, which returns TRUE unless it is rejected.
Finish ==
    \/ /\ ~error /\ FinishAllowed
       /\ text' = FeedNewline(text)
       /\ state' = [state EXCEPT ![0] = Zero]
       /\ UNCHANGED <<current_depth, error, slipped>>
    \/ Rejected(FinishAllowed)

Next ==
    \/ \E type \in Container : Begin(type)
    \/ \E type \in Container : End(type)
    \/ SetMemberName
    \/ Value
    \/ WriteBase64
    \/ Finish

Spec == Init /\ [][Next]_vars

-----------------------------------------------------------------------------
\* The open levels are containers, and only the innermost can wait for the
\* value of a member.
LevelsOK ==
    \A d \in Level :
        /\ d < current_depth => state[d].type \in Container
        /\ state[d].named => d = current_depth - 1 /\ state[d].type = "object"

TypeOK ==
    /\ current_depth \in Level
    /\ state \in [Level -> [type : Type, named : BOOLEAN]]
    /\ error \in BOOLEAN
    /\ text \in Seq(Context)
    /\ slipped \in BOOLEAN
    /\ LevelsOK

\* Where a level of the text is, as the dumper's state has it.
Begun(d) == d < current_depth \/ state[d] # Zero

ContextAt(d) ==
    IF d = 0 THEN IF Begun(0) THEN "done" ELSE "start"
    ELSE IF state[d - 1].type = "object"
         THEN IF state[d - 1].named THEN "objv" ELSE IF Begun(d) THEN "objn" ELSE "obj0"
    ELSE IF state[d - 1].type = "array"
         THEN IF Begun(d) THEN "arrn" ELSE "arr0"
    ELSE "b64"

Contexts == [i \in 1 .. current_depth + 1 |-> ContextAt(i - 1)]

\* Everything that is written is a part of a JSON text, commas included, and
\* every line that json_dumper_finish ends is empty or a whole JSON value,
\* exactly unless a container was begun where JSON has no place for it. The two
\* facts the dumper keeps for each level always suffice to tell where the text
\* is, however deep and whatever was written and closed before, and no level
\* beyond the last of the array is ever written.
OutputAccepted ==
    /\ TypeOK
    /\ text = Bad <=> slipped
    /\ ~slipped => text = Contexts

\* "Any error will be sticky and prevent further dumps from succeeding"
\* (json_dumper.c:108-111): once a call was in error nothing is written, and no
\* call succeeds.
StaysRejected == error => error' /\ UNCHANGED <<text, current_depth, state>>

ErrorsStick == [][StaysRejected]_vars

=============================================================================
