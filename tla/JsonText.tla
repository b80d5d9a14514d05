------------------------------ MODULE JsonText ------------------------------
(***************************************************************************)
(* What a JSON text is, as the code that reads a reply line by line sees   *)
(* it: an acceptor that is fed one token after the other. Its state is the *)
(* sequence of the open contexts, innermost last, or Bad.                  *)
(*   start, done          before and after the value of a line             *)
(*   obj0, objn, objc     in an object: empty, after a member, after a     *)
(*                        comma; objv: after a member's name               *)
(*   arr0, arrn, arrc     the same of an array                             *)
(*   b64                  in a string that is written in pieces            *)
(***************************************************************************)
EXTENDS Sequences, Naturals

Container == {"object", "array", "base64"}

Context == {"start", "done", "obj0", "objn", "objc", "objv",
            "arr0", "arrn", "arrc", "b64", "bad"}

Bad == <<"bad">>
Start == <<"start">>

Opened == [object |-> "obj0", array |-> "arr0", base64 |-> "b64"]

\* Where a container of a type may be closed.
Closable == [object |-> {"obj0", "objn"}, array |-> {"arr0", "arrn"}, base64 |-> {"b64"}]

\* A context in which a value may stand, and the one that follows the value.
AfterValue == [start |-> "done", objv |-> "objn", arr0 |-> "arrn", arrc |-> "arrn"]
AfterComma == [objn |-> "objc", arrn |-> "arrc"]
AfterName == [obj0 |-> "objv", objc |-> "objv"]

Top(text) == text[Len(text)]
Step(text, table) ==
    IF Top(text) \in DOMAIN table
    THEN [text EXCEPT ![Len(text)] = table[Top(text)]]
    ELSE Bad

FeedComma(text) == Step(text, AfterComma)
FeedName(text) == Step(text, AfterName)
FeedValue(text) == Step(text, AfterValue)

FeedOpen(text, type) ==
    IF Top(text) \in DOMAIN AfterValue
    THEN Append(Step(text, AfterValue), Opened[type]) ELSE Bad

FeedClose(text, type) ==
    IF Top(text) \in Closable[type] THEN SubSeq(text, 1, Len(text) - 1) ELSE Bad

FeedCharacters(text) == IF Top(text) = "b64" THEN text ELSE Bad

\* A line is empty or one value.
FeedNewline(text) == IF text \in {Start, <<"done">>} THEN Start ELSE Bad

=============================================================================
