------------------------------- MODULE Except -------------------------------
(***************************************************************************)
(* Exceptions: epan/except.c, and the TRY, CATCH, FINALLY, RETHROW and     *)
(* CLEANUP macros of epan/exceptions.h that make a state machine of        *)
(* setjmp, longjmp and except_state.                                       *)
(*                                                                         *)
(* regions is the program: the TRY and CLEANUP regions it is in, innermost *)
(* last; the macros' local variables live in a region. stack is what       *)
(* except.c knows of it, the list from stack_top down, as indices into     *)
(* regions. User code may throw, or enter another region, wherever it      *)
(* runs; it never leaves a region by a goto or a return.                   *)
(*                                                                         *)
(* do_throw does not store the exception in the catcher: the assignment is *)
(* a comment. What a CATCH and ENDTRY then read is the uninitialised       *)
(* except_obj in the TRY's stack frame, any value at all. It does not      *)
(* change once it is read, as nothing writes it.                           *)
(***************************************************************************)
EXTENDS Integers, Sequences, FiniteSetsExt, SequencesExt

CONSTANTS Code,        \* the codes that are thrown
          OtherCode,   \* stands for every other nonzero value of a code
          CatchLists,  \* what a TRY's CATCH clauses name, taken together
          Garbage,     \* what uninitialised memory holds, read as an except_id_t
          MaxDepth     \* bound: regions within one another

ASSUME ExceptAssumption ==
    /\ Code \subseteq Nat \ {0} /\ OtherCode \in Nat \ (Code \cup {0})
    /\ CatchLists \subseteq SUBSET (Code \cup {0, OtherCode})
    /\ Garbage \subseteq [group : 0 .. 2, code : Code \cup {0, OtherCode}]
    /\ MaxDepth \in Nat \ {0}

VARIABLES regions, stack,
          owed,      \* history: at each depth, cleanups pushed less cleanups done
          aborted

exceptVars == <<regions, stack, owed, aborted>>

Wireshark == 1                       \* XCEPT_GROUP_WIRESHARK
None == 0
CATCH_ALL == Code \cup {0, OtherCode}

\* Group 2 stands for every group but 0 and Wireshark.
ExceptId == [group : 0 .. 2, code : Code \cup {0, OtherCode}]
Unset == [group |-> 0, code |-> 0]

Depth == Len(regions)
Inner == regions[Depth]

\* User code runs: outside any region, or in a block of the innermost one.
InUserCode == ~aborted /\ (IF regions = << >> THEN TRUE ELSE Inner.at # "endtry")

-----------------------------------------------------------------------------
(***************************************************************************)
(* The macros, as functions of a TRY's region r.                           *)
(*   at       the block it is in, or "endtry"                              *)
(*   state    except_state; exc is TRUE for exc # 0; obj is except_obj     *)
(*   thrown, handled, caughts, finallys   history: the code of the         *)
(*            exception it got last, whether a CATCH block was entered for *)
(*            it, and how often its CATCH and FINALLY blocks were entered  *)
(***************************************************************************)
NewTry(catches, finally) ==
    [kind |-> "try", at |-> "try", catches |-> catches, finally |-> finally,
     state |-> {}, exc |-> FALSE, obj |-> Unset,
     thrown |-> None, handled |-> FALSE, caughts |-> 0, finallys |-> 0]

Cleanup == [kind |-> "cleanup", at |-> "cleanup"]

\* Past the CATCH clauses: FINALLY, unless it has been entered before.
AfterCatch(r) ==
    IF r.finally /\ "FINALLY" \notin r.state
    THEN [r EXCEPT !.at = "finally", !.state = @ \cup {"FINALLY"}, !.finallys = @ + 1]
    ELSE [r EXCEPT !.at = "endtry"]

\* Mutant: EXCEPT_CAUGHT stays set.
Landed_StaysCaught(r, code) ==
    LET again == r.state \cup (IF "CAUGHT" \in r.state THEN {"RETHROWN"} ELSE {})
        s == [r EXCEPT !.state = again, !.exc = TRUE, !.thrown = code, !.handled = FALSE]
    IN  IF again = {} /\ s.obj.code \in s.catches
        THEN [s EXCEPT !.at = "catch", !.state = {"CAUGHT"}, !.handled = TRUE,
                       !.caughts = @ + 1]
        ELSE AfterCatch(s)

\* Mutant: a CATCH does not look at except_state.
Landed_CatchesAgain(r, code) ==
    LET s == [r EXCEPT !.exc = TRUE, !.thrown = code, !.handled = FALSE]
    IN  IF s.obj.code \in s.catches
        THEN [s EXCEPT !.at = "catch", !.state = @ \cup {"CAUGHT"}, !.handled = TRUE,
                       !.caughts = @ + 1]
        ELSE AfterCatch(s)

\* Where setjmp returns 1: an exception thrown from a CATCH block, or by
\* RETHROW, is never caught again by the same TRY, nor is one from FINALLY.
Landed(r, code) ==
    LET again == IF "CAUGHT" \in r.state
                 THEN (r.state \ {"CAUGHT"}) \cup {"RETHROWN"} ELSE r.state
        s == [r EXCEPT !.state = again, !.exc = TRUE, !.thrown = code, !.handled = FALSE]
    IN  IF again = {} /\ s.obj.code \in s.catches
        THEN [s EXCEPT !.at = "catch", !.state = {"CAUGHT"}, !.handled = TRUE,
                       !.caughts = @ + 1]
        ELSE AfterCatch(s)

\* What the catcher's except_obj may hold.
ObjOf(r) == IF r.exc THEN {r.obj} ELSE Garbage

-----------------------------------------------------------------------------
\* match, of the catch_spec of every TRY: {XCEPT_GROUP_WIRESHARK, XCEPT_CODE_ANY}.
Matches(id) == id.group = Wireshark

\* Mutant: the walk from stack_top ends one node early.
CallCleanups_OneShort(rs, st, k) ==
    LET called == {st[i] : i \in {i \in k + 1 .. Len(st) : rs[st[i]].kind = "cleanup"}}
    IN  owed' = [d \in 1 .. MaxDepth |-> IF d \in called THEN owed[d] - 1 ELSE owed[d]]

\* The cleanup nodes of a stack from position k up are called.
CallCleanups(rs, st, k) ==
    LET called == {st[i] : i \in {i \in k .. Len(st) : rs[st[i]].kind = "cleanup"}}
    IN  owed' = [d \in 1 .. MaxDepth |-> IF d \in called THEN owed[d] - 1 ELSE owed[d]]

\* set_top(catcher)
Unwound(st, k) == SubSeq(st, 1, k)

Abort == aborted' = TRUE /\ UNCHANGED <<regions, stack, owed>>

\* do_throw: with the regions rs and the stack st, the exception id; thrown is
\* the code user code threw.
DoThrow(rs, st, id, thrown) ==
    IF id.group = 0 \/ id.code = 0 THEN Abort
    ELSE LET hits == {k \in DOMAIN st : rs[st[k]].kind = "try" /\ Matches(id)}
         IN  IF hits = {}
             THEN /\ CallCleanups(rs, st, 1)
                  /\ stack' = << >> /\ aborted' = TRUE /\ UNCHANGED regions
             ELSE LET k == Max(hits)
                  IN  /\ CallCleanups(rs, st, k + 1)
                      /\ stack' = Unwound(st, k)
                      /\ \E obj \in ObjOf(rs[st[k]]) :
                            regions' = Append(SubSeq(rs, 1, st[k] - 1),
                                              Landed([rs[st[k]] EXCEPT !.obj = obj], thrown))
                      /\ UNCHANGED aborted

-----------------------------------------------------------------------------
ExceptInit ==
    /\ regions = << >> /\ stack = << >>
    /\ owed = [d \in 1 .. MaxDepth |-> 0]
    /\ aborted = FALSE

\* TRY: except_setup_try.
EnterTry(catches, finally) ==
    /\ InUserCode /\ Depth < MaxDepth
    /\ regions' = Append(regions, NewTry(catches, finally))
    /\ stack' = Append(stack, Depth + 1)
    /\ UNCHANGED <<owed, aborted>>

\* CLEANUP_PUSH: except_setup_clean.
CleanupPush ==
    /\ InUserCode /\ Depth < MaxDepth
    /\ regions' = Append(regions, Cleanup)
    /\ stack' = Append(stack, Depth + 1)
    /\ owed' = [owed EXCEPT ![Depth + 1] = @ + 1]
    /\ UNCHANGED aborted

\* CLEANUP_CALL_AND_POP, and CLEANUP_POP, after which the program sees to it
\* itself.
CleanupPop ==
    /\ InUserCode /\ regions # << >> /\ Inner.kind = "cleanup"
    /\ owed' = [owed EXCEPT ![Depth] = @ - 1]
    /\ regions' = Front(regions) /\ stack' = Front(stack)
    /\ UNCHANGED aborted

\* THROW, THROW_MESSAGE and THROW_FORMATTED. The message that the last one
\* allocates is left out; nothing frees it any more.
THROW(code) ==
    /\ InUserCode
    /\ DoThrow(regions, stack, [group |-> Wireshark, code |-> code], code)

\* RETHROW: a longjmp to the CATCH block's own TRY.
Rethrow ==
    /\ InUserCode /\ regions # << >> /\ Inner.at = "catch"
    /\ IF Inner.state = {"CAUGHT"}
       THEN /\ regions' = Append(Front(regions), Landed(Inner, Inner.thrown))
            /\ UNCHANGED <<stack, owed, aborted>>
       ELSE Abort

\* Mutant: a caught exception goes past FINALLY's block.
BlockEnd_SkipsFinally ==
    /\ InUserCode /\ regions # << >> /\ Inner.kind = "try"
    /\ regions' = Append(Front(regions),
                         IF Inner.at = "catch" THEN [Inner EXCEPT !.at = "endtry"]
                         ELSE AfterCatch(Inner))
    /\ UNCHANGED <<stack, owed, aborted>>

\* The end of a TRY, CATCH or FINALLY block is reached.
BlockEnd ==
    /\ InUserCode /\ regions # << >> /\ Inner.kind = "try"
    /\ regions' = Append(Front(regions), AfterCatch(Inner))
    /\ UNCHANGED <<stack, owed, aborted>>

\* ENDTRY: except_rethrow, or except_try_pop.
EndTry ==
    /\ ~aborted /\ regions # << >> /\ Inner.at = "endtry"
    /\ IF "CAUGHT" \notin Inner.state /\ Inner.exc
       THEN IF stack = << >> \/ Last(stack) # Depth THEN Abort
            ELSE DoThrow(Front(regions), Front(stack), Inner.obj, Inner.thrown)
       ELSE /\ regions' = Front(regions) /\ stack' = Front(stack)
            /\ UNCHANGED <<owed, aborted>>

ExceptNext ==
    \/ \E catches \in CatchLists, finally \in BOOLEAN : EnterTry(catches, finally)
    \/ CleanupPush
    \/ CleanupPop
    \/ \E code \in Code : THROW(code)
    \/ Rethrow
    \/ BlockEnd
    \/ EndTry

ExceptSpec == ExceptInit /\ [][ExceptNext]_exceptVars

-----------------------------------------------------------------------------
IsTry(r) ==
    /\ r.at \in {"try", "catch", "finally", "endtry"}
    /\ r.catches \in CatchLists /\ r.finally \in BOOLEAN
    /\ r.state \in SUBSET {"CAUGHT", "RETHROWN", "FINALLY"}
    /\ r.at = "catch" => r.state = {"CAUGHT"}
    /\ r.exc \in BOOLEAN /\ r.obj \in ExceptId
    /\ r.thrown \in Code \cup {None} /\ r.handled \in BOOLEAN
    /\ r.caughts \in Nat /\ r.finallys \in Nat

TypeOK ==
    /\ Depth <= MaxDepth
    /\ \A d \in 1 .. Depth : regions[d] = Cleanup \/ IsTry(regions[d])
    /\ stack \in Seq(1 .. MaxDepth)
    /\ owed \in [1 .. MaxDepth -> Int]
    /\ aborted \in BOOLEAN

\* The stack of except.c leads to the regions the program is in, and to no
\* stack frame that is gone, wherever an exception was thrown and caught.
StackExact == ~aborted => stack = [d \in 1 .. Depth |-> d]

\* "Cleanup handlers" are neither lost nor called twice (exceptions.h:433-436):
\* what is owed are the cleanups of the regions the program is in.
CleanupsExact ==
    ~aborted => \A d \in 1 .. MaxDepth :
                    owed[d] = IF d <= Depth /\ regions[d].kind = "cleanup" THEN 1 ELSE 0

\* Stack and cleanups, after whatever mixture of throws, nested handlers and
\* normal ends.
StackAndCleanupsExact == TypeOK /\ StackExact /\ CleanupsExact

\* No TRY enters its CATCH blocks or its FINALLY block twice, whatever they
\* throw or rethrow (exceptions.h:266-272).
BlocksOnce ==
    \A d \in 1 .. Depth :
        regions[d].kind = "try" => regions[d].caughts <= 1 /\ regions[d].finallys <= 1

\* The TRY regions a step leaves.
Left == {d \in 1 .. Depth : regions[d].kind = "try" /\ d \notin DOMAIN regions'}

\* A TRY with a FINALLY is only left after its FINALLY block was entered,
\* whether an exception passes or not.
LeavesNoFinally == ~aborted' => \A d \in Left : regions[d].finally => regions[d].finallys = 1

FinallyBeforeLeaving == [][LeavesNoFinally]_exceptVars

\* An exception that no CATCH block of a TRY was entered for goes on to an
\* enclosing TRY when the TRY is left, whatever its FINALLY or its CATCH blocks
\* did before: none is swallowed.
PassesOn ==
    ~aborted' => \A d \in Left :
        regions[d].thrown # None /\ ~regions[d].handled =>
            regions' # << >> /\ Last(regions').kind = "try"
                             /\ Last(regions').thrown = regions[d].thrown

NothingSwallowed == [][PassesOn]_exceptVars

-----------------------------------------------------------------------------
\* "if (!caught && x == 1) <CATCH(1) code>" (exceptions.h:209-212): a CATCH
\* block runs for an exception the clause names.
CatchesWhatWasThrown ==
    \A d \in 1 .. Depth :
        regions[d].kind = "try" /\ regions[d].at = "catch" => regions[d].thrown \in regions[d].catches

=============================================================================
