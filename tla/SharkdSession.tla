--------------------------- MODULE SharkdSession ---------------------------
(***************************************************************************)
(* The sharkd session of sharkd_session.c: a request per line, handled by  *)
(* one function each, which answers through the one dumper (JsonDumper)    *)
(* and may listen to taps meanwhile (Tap). A handler is a sequence of      *)
(* steps in todo, and each of the dumper's calls is a step of its own, so  *)
(* that replies are checked call by call.                                  *)
(*                                                                         *)
(* In this copy no request loads a file: load is a comment, cfile.count    *)
(* stays 0, and sharkd_retap does nothing. So loops over frames make no    *)
(* turn, tap callbacks are never called, and no capture data is answered.  *)
(***************************************************************************)
EXTENDS JsonDumper, FiniteSets

CONSTANTS Name,       \* names of taps
          MaxTaps     \* bound: taps or graphs of a request (16 and 10 in the code)

\* A reply has containers within each other to four levels, and the code has
\* room for 1 100 (json_dumper.h:52).
ASSUME SessionAssumption == MaxTaps \in Nat /\ JSON_DUMPER_MAX_DEPTH > 4

VARIABLES request,    \* the request that is or was handled last
          todo,       \* what is left of it to do
          taps,       \* taps_data, or graphs: what the handler returns at its end
          live,       \* tap data on the heap
          lines       \* history: what was answered, line by line

VARIABLES tap_dissector_list, tap_listener_queue, tapping_is_active,
          tap_packet_array, run, issued, tapped

\* Data on the heap are positive, those on the handler's stack are not.
Taps == INSTANCE Tap WITH
    Tapdata <- -MaxTaps .. MaxTaps, WantsErrors <- {}, NoPacketRoutine <- {},
    NoDrawRoutine <- {}, Filter <- {}, NoFilter <- 0, QueueLen <- 1,
    MaxListeners <- MaxTaps, MaxTapped <- 0

tapVars == <<tap_dissector_list, tap_listener_queue, tapping_is_active, tap_packet_array,
             run, issued, tapped>>

sessionVars == <<request, todo, taps, live, lines, tapVars>>

Waiting == todo = << >>

-----------------------------------------------------------------------------
(***************************************************************************)
(* What handlers write.                                                    *)
(***************************************************************************)
Object(members) == <<"{">> \o members \o <<"}">>
Array(elements) == <<"[">> \o elements \o <<"]">>
Named(value) == <<"name">> \o value

\* sharkd_json_value_string, _stringf and _anyf with a key and a value.
Member == Named(<<"value">>)

Reply(members) == Object(members) \o <<"finish">>

\* The body of a loop, which is made any number of times, or an option.
Pair == Object(Member \o Member)
Loop == [pairs  |-> {<< >>, Pair \o <<"pairs">>},
         values |-> {<< >>, <<"value", "values">>},
         fields |-> {<< >>, Object(Member) \o <<"fields">>,
                     Object(Member \o Member \o Member) \o <<"fields">>},
         completions |-> {<< >>, Named(Array(<<"fields">>))}]

Pairs == Named(Array(<<"pairs">>))

ProcessInfo ==
    Reply(Pairs                                 \* columns
       \o Named(Array(<< >>))                   \* stats
       \o Named(Array(<<"values">>))            \* ftypes
       \o Member                                \* version
       \o Pairs \o Pairs \o Pairs               \* nstat, convs, seqa
       \o Named(Array(Pair \o Pair))            \* taps
       \o Pairs \o Pairs \o Pairs \o Pairs)     \* eo, srt, rtd, follow

\* Mutant: json_dumper_finish is left to the caller.
ProcessStatus_Unfinished == Object(Member \o Member)

ProcessStatus == Reply(Member \o Member)

ProcessAnalyse == Reply(Member \o Named(Array(<< >>)))

ProcessComplete == Reply(Member \o <<"completions">>)

\* A column, number or list of references that is not well-formed ends these
\* before anything is written.
ProcessFrames == {<< >>, Array(<< >>) \o <<"finish">>}

ProcessIntervals == {<< >>, Reply(Named(Array(<< >>)) \o Member \o Member \o Member)}

\* No frame is found in an empty file, so that these return at once.
ProcessFrame == {<< >>}
ProcessSetcomment == {<< >>}

\* Their bodies are comments.
ProcessLoad == {<< >>}
ProcessCheck == {<< >>}
ProcessSetconf == {<< >>}
ProcessDumpconf == {<< >>}

ProcessTap == {<<"gather">>}

ProcessFollow ==
    {<< >>, <<"listen heap">>
            \o Reply(Member \o Member \o Member \o Member \o Member \o Member \o Member)
            \o <<"release">>}

ProcessIograph ==
    {<< >>, <<"graph">> \o Reply(Named(Array(<<"graphs">>)))}

\* Exported objects have no entries, and rtp has no packets.
ProcessDownload == {<< >>, <<"listen stack", "release">>}

Handler ==
    [load |-> ProcessLoad, status |-> {ProcessStatus}, analyse |-> {ProcessAnalyse},
     info |-> {ProcessInfo}, check |-> ProcessCheck, complete |-> {ProcessComplete},
     frames |-> ProcessFrames, tap |-> ProcessTap, follow |-> ProcessFollow,
     iograph |-> ProcessIograph, intervals |-> ProcessIntervals, frame |-> ProcessFrame,
     setcomment |-> ProcessSetcomment, setconf |-> ProcessSetconf,
     dumpconf |-> ProcessDumpconf, download |-> ProcessDownload, unknown |-> {<< >>}]

-----------------------------------------------------------------------------
(***************************************************************************)
(* The loop: a line is read and dispatched.                                *)
(***************************************************************************)
Now(step) == ~Waiting /\ Head(todo) = step

\* sharkd_session_process, which ends every command with an empty line.
Dispatch(req) ==
    /\ Waiting /\ request # "closed"
    /\ request' = req /\ lines' = << >>
    /\ \E script \in Handler[req] : todo' = script \o <<"finish">>
    /\ UNCHANGED <<taps, live, vars, tapVars>>

\* A line that fails the sanity checks, or lacks "req", is not answered.
Refuse ==
    /\ Waiting /\ request # "closed"
    /\ request' = "refused" /\ lines' = << >>
    /\ UNCHANGED <<todo, taps, live, vars, tapVars>>

\* The end of the input, a line that is no JSON, or bye.
Close ==
    /\ Waiting /\ request' = "closed"
    /\ UNCHANGED <<todo, taps, live, lines, vars, tapVars>>

-----------------------------------------------------------------------------
(***************************************************************************)
(* The steps of a handler.                                                 *)
(***************************************************************************)
WriteReply ==
    /\ \/ Now("{") /\ Begin("object")
       \/ Now("}") /\ End("object")
       \/ Now("[") /\ Begin("array")
       \/ Now("]") /\ End("array")
       \/ Now("name") /\ SetMemberName
       \/ Now("value") /\ Value
    /\ todo' = Tail(todo)
    /\ UNCHANGED <<request, taps, live, lines, tapVars>>

FinishLine ==
    /\ Now("finish") /\ Finish
    /\ lines' = Append(lines, IF text = Start THEN "empty" ELSE "value")
    /\ todo' = Tail(todo)
    /\ UNCHANGED <<request, taps, live, tapVars>>

TakeTurn ==
    /\ ~Waiting /\ Head(todo) \in DOMAIN Loop
    /\ \E turn \in Loop[Head(todo)] : todo' = turn \o Tail(todo)
    /\ UNCHANGED <<request, taps, live, lines, vars, tapVars>>

\* What the handler keeps of a tap or graph: failed is its error, and null
\* stands for a "stat:" tap, whose registration is a comment.
Kept(data) == [data |-> data, failed |-> FALSE, null |-> FALSE]

Room == Len(taps) < MaxTaps
NewHeap == Len(taps) + 1
NewGraph == -Len(taps)
Stack == 0

\* register_tap_listener succeeds.
Listen(name, data) ==
    /\ Taps!RegisterTapListener(name, data)
    /\ taps' = Append(taps, Kept(data))
    /\ live' = live \cup (IF data > 0 THEN {data} ELSE {})

\* register_tap_listener fails: the data are freed.
NotFound(name) == Taps!FindTapId(name) = 0 /\ UNCHANGED <<taps, live, tapVars>>

\* One of tap0 to tap15. One that is not recognised or not found changes
\* nothing; "rtp-streams" listens with the handler's rtp_tapinfo.
GatherTap ==
    /\ Now("gather") /\ Room
    /\ \/ \E name \in Name, data \in {NewHeap, Stack} : Listen(name, data)
       \/ taps' = Append(taps, [Kept(Stack) EXCEPT !.null = TRUE])
          /\ UNCHANGED <<live, tapVars>>
    /\ UNCHANGED <<request, todo, lines, vars>>

GatherEnds ==
    /\ Now("gather")
    /\ todo' = (IF taps = << >> THEN << >>
                ELSE Reply(Named(Array(<< >>)) \o Member) \o <<"release">>) \o Tail(todo)
    /\ UNCHANGED <<request, taps, live, lines, vars, tapVars>>

\* follow and download: the handler returns if the tap is not found.
ListenOnce ==
    /\ \E name \in Name :
          \/ /\ \/ Now("listen heap") /\ Listen(name, NewHeap)
                \/ Now("listen stack") /\ Listen(name, Stack)
             /\ todo' = Tail(todo)
          \/ /\ Now("listen heap") \/ Now("listen stack")
             /\ NotFound(name)
             /\ todo' = <<"finish">>
    /\ UNCHANGED <<request, lines, vars>>

\* One of graph0 to graph9; one with an error is kept to be reported.
GatherGraph ==
    /\ Now("graph") /\ Room
    /\ \/ \E name \in Name : Listen(name, NewGraph)
       \/ taps' = Append(taps, [Kept(NewGraph) EXCEPT !.failed = TRUE])
          /\ UNCHANGED <<live, tapVars>>
    /\ UNCHANGED <<request, todo, lines, vars>>

GraphsEnd ==
    /\ Now("graph")
    /\ todo' = Tail(todo)
    /\ UNCHANGED <<request, taps, live, lines, vars, tapVars>>

\* The next graph is answered, then its listener removed.
AnswerGraph ==
    /\ Now("graphs")
    /\ todo' = IF taps = << >> THEN Tail(todo)
               ELSE Object(IF Head(taps).failed THEN Member ELSE Named(Array(<< >>)))
                    \o <<"drop">> \o todo
    /\ UNCHANGED <<request, taps, live, lines, vars, tapVars>>

ReleaseNext ==
    /\ Now("release")
    /\ todo' = IF taps = << >> THEN Tail(todo) ELSE <<"drop">> \o todo
    /\ UNCHANGED <<request, taps, live, lines, vars, tapVars>>

\* remove_tap_listener, which only warns if there is none.
RemoveListener(data) ==
    IF Taps!FirstWith(data) # 0 THEN Taps!RemoveTapListener(data) ELSE UNCHANGED tapVars

\* Mutant: the listeners of data on the stack are left.
Drop_HeapOnly ==
    /\ Now("drop")
    /\ IF Head(taps).data > 0 THEN RemoveListener(Head(taps).data) ELSE UNCHANGED tapVars
    /\ live' = live \ {Head(taps).data}
    /\ taps' = Tail(taps)
    /\ todo' = Tail(todo)
    /\ UNCHANGED <<request, lines, vars>>

\* The listener is removed, then its data are freed.
Drop ==
    /\ Now("drop")
    /\ IF Head(taps).null THEN UNCHANGED tapVars ELSE RemoveListener(Head(taps).data)
    /\ live' = live \ {Head(taps).data}
    /\ taps' = Tail(taps)
    /\ todo' = Tail(todo)
    /\ UNCHANGED <<request, lines, vars>>

-----------------------------------------------------------------------------
SessionInit ==
    /\ Init /\ Taps!TapInit
    /\ request = "none" /\ todo = << >> /\ lines = << >>
    /\ taps = << >> /\ live = {}

\* Dissectors register taps in epan_init, before the first line is read.
RegisterTap ==
    /\ request = "none"
    /\ \E name \in Name : Taps!FindTapId(name) = 0 /\ Taps!RegisterTap(name)
    /\ UNCHANGED <<request, todo, taps, live, lines, vars>>

SessionNext ==
    \/ RegisterTap
    \/ \E req \in DOMAIN Handler : Dispatch(req)
    \/ Refuse \/ Close
    \/ WriteReply \/ FinishLine \/ TakeTurn
    \/ GatherTap \/ GatherEnds \/ ListenOnce \/ GatherGraph \/ GraphsEnd
    \/ AnswerGraph \/ ReleaseNext \/ Drop

-----------------------------------------------------------------------------
\* "reply for every command are 0+ lines of JSON reply [...], finished by empty
\* new line" (sharkd_session.c:4234): whatever the handlers wrote, in however
\* many loops and before whichever early return, the dumper has accepted every
\* call, each line is one JSON value, the only empty line ends the reply, and
\* the next request finds the dumper as the first one did. A client that counts
\* empty lines is never a reply behind. A refused line is not answered.
RepliesSound ==
    /\ ~error /\ ~slipped
    /\ Waiting => /\ current_depth = 0 /\ text = Start /\ state[0] = Zero
                  /\ request \in DOMAIN Handler =>
                         lines \in {<<"empty">>, <<"value", "empty">>}
                  /\ request = "refused" => lines = << >>

\* What the handler still returns, listeners and memory alike.
Returned == {k \in DOMAIN taps : ~taps[k].null}
DataOf(positions) == {taps[k].data : k \in positions}

\* A listener outlives neither its data nor the handler that registered it,
\* also where a tap is asked for twice, one of several fails, or graphs with
\* errors stand between good ones: each listener's data are still to be
\* returned by the handler, as often as they were registered; memory is freed
\* once and none of it is left; and when the next line is read no listener is.
ListenersReturned ==
    LET listening(d) == Cardinality({k \in DOMAIN tap_listener_queue :
                                        tap_listener_queue[k].data = d})
        returning(d) == Cardinality({k \in Returned : taps[k].data = d /\ ~taps[k].failed})
    IN  /\ \A d \in -MaxTaps .. MaxTaps : listening(d) = returning(d)
        /\ live = {d \in DataOf(Returned) : d > 0}
        /\ \A j, k \in Returned : taps[j].data = taps[k].data /\ taps[j].data > 0 => j = k
        /\ Waiting => tap_listener_queue = << >> /\ live = {}

=============================================================================
