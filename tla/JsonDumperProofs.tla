-------------------------- MODULE JsonDumperProofs --------------------------
(***************************************************************************)
(* Proofs about JsonDumper and about the session that writes through it,   *)
(* for every JSON_DUMPER_MAX_DEPTH, set of tap names and MaxTaps.          *)
(*                                                                         *)
(* The dumper: the inductive invariant says that the text is where the     *)
(* state of the dumper has it, or has been spoilt by a container begun     *)
(* where there is no place for it.                                         *)
(*                                                                         *)
(* The session: the inductive invariant says that what a handler has still *)
(* to do leads from where its reply is to the end of one, and that the     *)
(* listeners on the queue are those its taps have still to return.         *)
(***************************************************************************)
EXTENDS MCSharkdSession, FiniteSetTheorems, WellFoundedInduction, TLAPS

StateOK ==
    /\ current_depth \in Level
    /\ state \in [Level -> [type : Type, named : BOOLEAN]]
    /\ error \in BOOLEAN
    /\ slipped \in BOOLEAN
    /\ LevelsOK

Inv == StateOK /\ text = IF slipped THEN Bad ELSE Contexts

\* The contexts are a sequence, and none is the one of a text that is not JSON.
LEMMA ContextsSeq ==
    ASSUME StateOK
    PROVE  /\ Contexts \in Seq(Context)
           /\ Len(Contexts) = current_depth + 1
           /\ Contexts # Bad
  <1>1. current_depth \in Nat
    BY DumperAssumption DEF StateOK, Level
  <1>2. \A i \in 1 .. current_depth + 1 : ContextAt(i - 1) \in Context \ {"bad"}
    BY DEF ContextAt, Context
  <1>3. Contexts \in [1 .. current_depth + 1 -> Context]
    BY <1>2 DEF Contexts
  <1>4. Contexts \in Seq(Context) /\ Len(Contexts) = current_depth + 1
    BY <1>1, <1>3
  <1>5. Contexts[1] # "bad"
    BY <1>1, <1>2 DEF Contexts
  <1> QED
    BY <1>4, <1>5 DEF Bad

LEMMA InitInv == Init => Inv
  <1> SUFFICES ASSUME Init PROVE Inv
    OBVIOUS
  <1>1. StateOK
    <2>1. Zero \in [type : Type, named : BOOLEAN]
      BY DEF Zero, Type
    <2>2. 0 \in Level
      BY DumperAssumption DEF Level
    <2>3. LevelsOK
      BY DumperAssumption DEF Init, LevelsOK, Level, Zero
    <2> QED
      BY <2>1, <2>2, <2>3 DEF Init, StateOK
  <1>2. Contexts = Start
    <2>1. ContextAt(0) = "start"
      BY DumperAssumption DEF Init, ContextAt, Begun, Level
    <2>2. Contexts = [i \in 1 .. 1 |-> "start"]
      BY <2>1 DEF Init, Contexts
    <2> QED
      BY <2>2 DEF Start
  <1> QED
    BY <1>1, <1>2 DEF Inv, Init

-----------------------------------------------------------------------------
(***************************************************************************)
(* The text, up to its innermost context c.                                *)
(***************************************************************************)
Line(c) == [i \in 1 .. current_depth + 1 |->
               IF i = current_depth + 1 THEN c ELSE ContextAt(i - 1)]

LEMMA LineSeq ==
    ASSUME StateOK, NEW c \in Context
    PROVE  /\ Line(c) \in Seq(Context)
           /\ Len(Line(c)) = current_depth + 1
           /\ Top(Line(c)) = c
           /\ \A d \in Context : [Line(c) EXCEPT ![Len(Line(c))] = d] = Line(d)
           /\ SubSeq(Line(c), 1, current_depth) =
                 [i \in 1 .. current_depth |-> ContextAt(i - 1)]
  <1>1. current_depth \in Nat
    BY DumperAssumption DEF StateOK, Level
  <1>2. \A i \in 1 .. current_depth + 1 : ContextAt(i - 1) \in Context
    BY DEF ContextAt, Context
  <1>3. Line(c) \in [1 .. current_depth + 1 -> Context]
    BY <1>2 DEF Line
  <1>4. Line(c) \in Seq(Context) /\ Len(Line(c)) = current_depth + 1
    BY <1>1, <1>3
  <1>5. Top(Line(c)) = c
    BY <1>1, <1>4 DEF Line, Top
  <1>6. \A d \in Context : [Line(c) EXCEPT ![Len(Line(c))] = d] = Line(d)
    BY <1>1, <1>4 DEF Line
  <1>7. SubSeq(Line(c), 1, current_depth) = [i \in 1 .. current_depth |-> ContextAt(i - 1)]
    BY <1>1, <1>4 DEF Line
  <1> QED
    BY <1>4, <1>5, <1>6, <1>7

LEMMA LineStep ==
    ASSUME StateOK, NEW c \in Context, NEW table \in {AfterValue, AfterComma, AfterName},
           c \in DOMAIN table
    PROVE  table[c] \in Context /\ Step(Line(c), table) = Line(table[c])
  <1>1. table[c] \in Context
    BY DEF AfterValue, AfterComma, AfterName, Context
  <1> QED
    BY <1>1, LineSeq DEF Step

LEMMA ContextsLine == StateOK => Contexts = Line(ContextAt(current_depth))
  BY DumperAssumption DEF StateOK, Level, Contexts, Line

LEMMA BadStays ==
    /\ FeedComma(Bad) = Bad /\ FeedName(Bad) = Bad /\ FeedValue(Bad) = Bad
    /\ \A type \in Container : FeedOpen(Bad, type) = Bad /\ FeedClose(Bad, type) = Bad
    /\ FeedCharacters(Bad) = Bad /\ FeedNewline(Bad) = Bad
  <1>1. Top(Bad) = "bad" /\ Bad # Start /\ Bad # <<"done">>
    BY DEF Top, Bad, Start
  <1> QED
    BY <1>1 DEF FeedComma, FeedName, FeedValue, FeedOpen, FeedClose, FeedCharacters,
                FeedNewline, Step, AfterComma, AfterName, AfterValue, Closable, Container

\* Where the text is once a comma has been written where one is needed.
PreparedContext ==
    IF NeedsComma THEN AfterComma[ContextAt(current_depth)] ELSE ContextAt(current_depth)

LEMMA PreparedLine ==
    ASSUME StateOK
    PROVE  /\ text = Bad => PreparedText = Bad
           /\ text = Contexts => PreparedText = Line(PreparedContext)
           /\ PreparedContext \in Context
  <1>1. ContextAt(current_depth) \in Context
    BY DEF ContextAt, Context
  <1>2. NeedsComma => ContextAt(current_depth) \in {"objn", "arrn"}
    BY DumperAssumption DEF StateOK, Level, NeedsComma, PrevState, ContextAt, Begun
  <1>3. NeedsComma => ContextAt(current_depth) \in DOMAIN AfterComma
    BY <1>2 DEF AfterComma
  <1>4. PreparedContext \in Context
    BY <1>1, <1>3, LineStep DEF PreparedContext
  <1>5. text = Contexts => PreparedText = Line(PreparedContext)
    BY <1>1, <1>3, ContextsLine, LineStep DEF PreparedText, PreparedContext, FeedComma
  <1> QED
    BY <1>4, <1>5, BadStays DEF PreparedText

-----------------------------------------------------------------------------
LEMMA RejectedInv ==
    ASSUME Inv, UNCHANGED <<current_depth, state, text, slipped>>, error' \in BOOLEAN
    PROVE  Inv'
  <1>1. Contexts' = Contexts
    BY DEF Contexts, ContextAt, Begun
  <1> QED
    BY <1>1 DEF Inv, StateOK, LevelsOK

LEMMA ZeroIsState == Zero \in [type : Type, named : BOOLEAN]
  BY DEF Zero, Type

LEMMA PreparedOK ==
    ASSUME StateOK
    PROVE  /\ Prepared \in [Level -> [type : Type, named : BOOLEAN]]
           /\ \A d \in Level : d # current_depth - 1 => Prepared[d] = state[d]
           /\ current_depth > 0 =>
                 /\ Prepared[current_depth - 1].type = state[current_depth - 1].type
                 /\ Prepared[current_depth - 1].named = FALSE
  <1>1. current_depth > 0 => current_depth - 1 \in Level
    BY DumperAssumption DEF StateOK, Level
  <1>2. CASE current_depth = 0
    BY <1>1, <1>2, DumperAssumption DEF Prepared, StateOK, Level
  <1>3. CASE current_depth > 0
    <2>1. state[current_depth - 1] \in [type : Type, named : BOOLEAN]
      BY <1>1, <1>3 DEF StateOK
    <2>2. [state[current_depth - 1] EXCEPT !.named = FALSE] \in [type : Type, named : BOOLEAN]
      BY <2>1
    <2>3. Prepared = [state EXCEPT ![current_depth - 1] =
                        [state[current_depth - 1] EXCEPT !.named = FALSE]]
      BY <1>3 DEF Prepared
    <2> QED
      BY <1>1, <1>3, <2>1, <2>2, <2>3 DEF StateOK
  <1>4. current_depth = 0 \/ current_depth > 0
    BY DumperAssumption DEF StateOK, Level
  <1> QED
    BY <1>2, <1>3, <1>4

\* The context in which a BEGIN is misplaced takes no value.
LEMMA MisplacedContext ==
    ASSUME StateOK
    PROVE  Misplaced <=> PreparedContext \notin DOMAIN AfterValue
  <1>1. CASE current_depth = 0
    <2>1. ~NeedsComma /\ PrevState = Zero
      BY <1>1 DEF NeedsComma, PrevState
    <2>2. PreparedContext = IF state[0] # Zero THEN "done" ELSE "start"
      BY <1>1, <2>1 DEF PreparedContext, ContextAt, Begun
    <2>3. Misplaced <=> state[0].type # "none"
      BY <1>1, <2>1 DEF Misplaced, Zero
    <2>4. 0 \in Level /\ ~state[0].named
      BY <1>1, DumperAssumption DEF StateOK, Level, LevelsOK
    <2>5. state[0] = Zero <=> state[0].type = "none"
      BY <2>4 DEF StateOK, Zero
    <2> QED
      BY <2>2, <2>3, <2>5 DEF AfterValue
  <1>2. CASE current_depth > 0
    <2>1. /\ current_depth \in Nat
          /\ current_depth - 1 \in Level /\ PrevState = state[current_depth - 1]
      BY <1>2, DumperAssumption DEF StateOK, Level, PrevState
    <2>2. PrevState.type \in Container
      BY <1>2, <2>1 DEF StateOK, Level, LevelsOK
    <2>3. CASE PrevState.type = "object"
      BY <1>2, <2>1, <2>3
      DEF NeedsComma, PreparedContext, ContextAt, Begun, Misplaced, AfterValue, AfterComma
    <2>4. CASE PrevState.type = "array"
      BY <1>2, <2>1, <2>4
      DEF NeedsComma, PreparedContext, ContextAt, Begun, Misplaced, AfterValue, AfterComma
    <2>5. CASE PrevState.type = "base64"
      BY <1>2, <2>1, <2>5
      DEF NeedsComma, PreparedContext, ContextAt, Begun, Misplaced, AfterValue, AfterComma
    <2> QED
      BY <2>2, <2>3, <2>4, <2>5 DEF Container
  <1> QED
    BY <1>1, <1>2, DumperAssumption DEF StateOK, Level

\* The contexts below the innermost one do not depend on what a change of the
\* innermost levels changes.
LEMMA LowerContexts ==
    ASSUME StateOK, current_depth' \in {current_depth, current_depth + 1},
           \A d \in Level : d < current_depth =>
               /\ state'[d].type = state[d].type
               /\ d < current_depth - 1 => state'[d] = state[d]
    PROVE  \A d \in 0 .. current_depth - 1 : ContextAt(d)' = ContextAt(d)
  <1> SUFFICES ASSUME NEW d \in 0 .. current_depth - 1 PROVE ContextAt(d)' = ContextAt(d)
    OBVIOUS
  <1>1. current_depth \in Nat /\ d \in Level
    BY DumperAssumption DEF StateOK, Level
  <1>2. Begun(d)' /\ Begun(d)
    BY <1>1 DEF Begun
  <1>3. d # 0 => d - 1 \in Level /\ d - 1 < current_depth - 1
    BY <1>1, DumperAssumption DEF Level
  <1>4. d # 0 => state'[d - 1] = state[d - 1]
    BY <1>1, <1>3 DEF Level
  <1> QED
    BY <1>2, <1>4 DEF ContextAt

\* A value moves the innermost context to the one its new state tells.
LEMMA ValueContext ==
    ASSUME StateOK, ~Misplaced, NEW depth, depth = current_depth, Begun(depth)',
           depth > 0 => /\ state'[depth - 1].type = state[depth - 1].type
                        /\ ~state'[depth - 1].named
    PROVE  ContextAt(depth)' = AfterValue[PreparedContext]
  <1>1. depth \in Nat
    BY DumperAssumption DEF StateOK, Level
  <1>2. PreparedContext \in DOMAIN AfterValue
    BY MisplacedContext
  <1>3. CASE depth = 0
    <2>1. ContextAt(depth)' = "done"
      BY <1>3 DEF ContextAt
    <2>2. PreparedContext \in {"start", "done"}
      BY <1>3 DEF PreparedContext, NeedsComma, ContextAt
    <2> QED
      BY <1>2, <2>1, <2>2 DEF AfterValue
  <1>4. CASE depth > 0
    <2>1. depth - 1 \in Level /\ depth - 1 < current_depth /\ PrevState = state[depth - 1]
      BY <1>1, <1>4, DumperAssumption DEF StateOK, Level, PrevState
    <2>2. PrevState.type \in Container
      BY <2>1 DEF StateOK, LevelsOK
    <2>3. ContextAt(depth)' = IF PrevState.type = "object" THEN "objn"
                              ELSE IF PrevState.type = "array" THEN "arrn" ELSE "b64"
      BY <1>1, <1>4, <2>1 DEF ContextAt
    <2>4. CASE PrevState.type = "object"
      BY <1>1, <1>2, <1>4, <2>1, <2>3, <2>4
      DEF PreparedContext, NeedsComma, ContextAt, AfterValue, AfterComma, Misplaced, Begun
    <2>5. CASE PrevState.type = "array"
      BY <1>1, <1>2, <1>4, <2>1, <2>3, <2>5
      DEF PreparedContext, NeedsComma, ContextAt, AfterValue, AfterComma, Misplaced, Begun
    <2> QED
      BY <2>2, <2>4, <2>5 DEF Container, Misplaced
  <1> QED
    BY <1>1, <1>3, <1>4

\* The text, when the contexts below its innermost one stay.
LEMMA LineContexts ==
    ASSUME StateOK, NEW c \in Context, NEW depth, depth = current_depth,
           current_depth' = current_depth,
           \A d \in 0 .. depth - 1 : ContextAt(d)' = ContextAt(d),
           ContextAt(depth)' = c
    PROVE  Line(c) = Contexts'
  <1>1. depth \in Nat
    BY DumperAssumption DEF StateOK, Level
  <1>2. Contexts' = [i \in 1 .. depth + 1 |-> ContextAt(i - 1)']
    BY DEF Contexts
  <1>3. Line(c) = [i \in 1 .. depth + 1 |-> Line(c)[i]]
    BY DEF Line
  <1>4. \A i \in 1 .. depth + 1 : Line(c)[i] = ContextAt(i - 1)'
    <2> SUFFICES ASSUME NEW i \in 1 .. depth + 1 PROVE Line(c)[i] = ContextAt(i - 1)'
      OBVIOUS
    <2>1. CASE i = depth + 1
      <3>1. i - 1 = depth
        BY <1>1, <2>1
      <3> QED
        BY <2>1, <3>1 DEF Line
    <2>2. CASE i # depth + 1
      <3>1. i - 1 \in 0 .. depth - 1
        BY <1>1, <2>2
      <3>2. ContextAt(i - 1)' = ContextAt(i - 1)
        BY <3>1
      <3> QED
        BY <2>2, <3>2 DEF Line
    <2> QED
      BY <2>1, <2>2
  <1> QED
    BY <1>2, <1>3, <1>4

LEMMA BeginInv ==
    ASSUME Inv, NEW type \in Container, Begin(type)
    PROVE  Inv'
  <1>1. CASE Rejected(BeginAllowed)
    BY <1>1, RejectedInv DEF Rejected
  <1>2. CASE ~Rejected(BeginAllowed)
    <2> DEFINE new == [type |-> type, named |-> FALSE]
    <2>1. /\ ~error /\ BeginAllowed
          /\ text' = FeedOpen(PreparedText, type)
          /\ state' = [Prepared EXCEPT ![current_depth] = new, ![current_depth + 1] = Zero]
          /\ current_depth' = current_depth + 1
          /\ slipped' = (slipped \/ Misplaced)
          /\ error' = error
      BY <1>2 DEF Begin
    <2>2. StateOK
      BY DEF Inv
    <2>3. /\ current_depth \in Nat /\ current_depth \in Level /\ current_depth + 1 \in Level
          /\ current_depth + 1 # current_depth
      BY <2>1, <2>2, DumperAssumption DEF StateOK, Level, BeginAllowed
    <2>4. new \in [type : Type, named : BOOLEAN] /\ new # Zero /\ new.type = type /\ new.named = FALSE
      BY DEF Type, Container, Zero
    <2>5. /\ state' \in [Level -> [type : Type, named : BOOLEAN]]
          /\ state'[current_depth] = new /\ state'[current_depth + 1] = Zero
          /\ \A d \in Level : d \notin {current_depth, current_depth + 1} =>
                                 state'[d] = Prepared[d]
      BY <2>1, <2>2, <2>3, <2>4, PreparedOK, ZeroIsState
    <2>6. \A d \in Level : d < current_depth =>
              /\ state'[d].type = state[d].type
              /\ d < current_depth - 1 => state'[d] = state[d]
              /\ ~state'[d].named
      <3> SUFFICES ASSUME NEW d \in Level, d < current_depth
                   PROVE  /\ state'[d].type = state[d].type
                          /\ d < current_depth - 1 => state'[d] = state[d]
                          /\ ~state'[d].named
        OBVIOUS
      <3>1. state'[d] = Prepared[d] /\ d \in Nat
        BY <2>3, <2>5 DEF Level
      <3>2. CASE d = current_depth - 1
        <4>1. current_depth > 0 /\ ~(d < current_depth - 1)
          BY <2>3, <3>1, <3>2
        <4>2. Prepared[d].type = state[d].type /\ Prepared[d].named = FALSE
          BY <2>2, <3>2, <4>1, PreparedOK
        <4> QED
          BY <3>1, <4>1, <4>2
      <3>3. CASE d # current_depth - 1
        BY <2>2, <2>3, <3>1, <3>3, PreparedOK DEF StateOK, LevelsOK
      <3> QED
        BY <3>2, <3>3
    <2>7. LevelsOK'
      <3> SUFFICES ASSUME NEW d \in Level
                   PROVE  /\ d < current_depth' => state'[d].type \in Container
                          /\ state'[d].named => d = current_depth' - 1 /\ state'[d].type = "object"
        BY DEF LevelsOK
      <3>1. CASE d < current_depth
        BY <2>1, <2>2, <2>3, <2>6, <3>1 DEF StateOK, LevelsOK, Level
      <3>2. CASE d = current_depth
        BY <2>1, <2>3, <2>4, <2>5, <3>2
      <3>3. CASE d = current_depth + 1
        BY <2>1, <2>3, <2>5, <3>3 DEF Zero
      <3>4. CASE d > current_depth + 1
        <4>1. /\ d \notin {current_depth, current_depth + 1} /\ d # current_depth - 1
              /\ d \in Nat /\ ~(d < current_depth + 1)
          BY <2>3, <3>4 DEF Level
        <4>2. state'[d] = state[d]
          BY <2>2, <2>5, <4>1, PreparedOK
        <4>3. ~state[d].named
          BY <2>2, <4>1 DEF StateOK, LevelsOK
        <4> QED
          BY <2>1, <4>1, <4>2, <4>3
      <3> QED
        BY <2>3, <3>1, <3>2, <3>3, <3>4 DEF Level
    <2>8. StateOK'
      BY <2>1, <2>2, <2>3, <2>5, <2>7 DEF StateOK, Misplaced
    <2>9. CASE slipped
      BY <2>1, <2>2, <2>8, <2>9, PreparedLine, BadStays DEF Inv
    <2>10. CASE ~slipped /\ Misplaced
      <3>1. PreparedText = Line(PreparedContext) /\ Top(Line(PreparedContext)) = PreparedContext
        BY <2>2, <2>10, PreparedLine, LineSeq DEF Inv
      <3>2. text' = Bad
        BY <2>1, <2>2, <2>10, <3>1, MisplacedContext DEF FeedOpen
      <3> QED
        BY <2>1, <2>8, <2>10, <3>2 DEF Inv
    <2>11. CASE ~slipped /\ ~Misplaced
      <3> DEFINE c == AfterValue[PreparedContext]
      <3>1. PreparedText = Line(PreparedContext) /\ Top(Line(PreparedContext)) = PreparedContext
        BY <2>2, <2>11, PreparedLine, LineSeq DEF Inv
      <3>2. PreparedContext \in DOMAIN AfterValue
        BY <2>2, <2>11, MisplacedContext
      <3>3. text' = Append(Line(c), Opened[type]) /\ c \in Context
        BY <2>1, <2>2, <3>1, <3>2, LineStep, PreparedLine DEF FeedOpen
      <3>4. PICK depth : depth = current_depth
        OBVIOUS
      <3>5. ContextAt(depth + 1)' = Opened[type]
        <4>1. depth + 1 # 0 /\ (depth + 1) - 1 = depth /\ ~(depth + 1 < current_depth')
          BY <2>1, <2>3, <3>4
        <4>2. state'[depth].type = type /\ ~state'[depth].named /\ state'[depth + 1] = Zero
          BY <2>3, <2>4, <2>5, <3>4
        <4>3. Begun(depth + 1)' = FALSE
          BY <4>1, <4>2 DEF Begun
        <4> QED
          BY <4>1, <4>2, <4>3 DEF ContextAt, Opened, Container
      <3>6. ContextAt(depth)' = c
        <4>1. Begun(depth)'
          BY <2>1, <2>3, <3>4 DEF Begun
        <4>2. depth > 0 => /\ state'[depth - 1].type = state[depth - 1].type
                           /\ ~state'[depth - 1].named
          <5> SUFFICES ASSUME depth > 0
                       PROVE  depth - 1 \in Level /\ depth - 1 < current_depth
            BY <2>6, <3>4
          <5> QED
            BY <2>3, <3>4, DumperAssumption DEF Level
        <4> QED
          BY <2>2, <2>11, <3>4, <4>1, <4>2, ValueContext
      <3>7. \A d \in 0 .. depth - 1 : ContextAt(d)' = ContextAt(d)
        BY <2>1, <2>2, <2>6, <3>4, LowerContexts
      <3>8. Append(Line(c), Opened[type]) = Contexts'
        <4>1. Len(Line(c)) = depth + 1 /\ Line(c) \in Seq(Context) /\ depth \in Nat
          BY <2>2, <2>3, <3>3, <3>4, LineSeq
        <4>2. \A i \in 1 .. depth + 2 : Append(Line(c), Opened[type])[i] = ContextAt(i - 1)'
          <5> SUFFICES ASSUME NEW i \in 1 .. depth + 2
                       PROVE  Append(Line(c), Opened[type])[i] = ContextAt(i - 1)'
            OBVIOUS
          <5>1. CASE i = depth + 2
            BY <3>5, <4>1, <5>1
          <5>2. CASE i = depth + 1
            BY <3>4, <3>6, <4>1, <5>2 DEF Line
          <5>3. CASE i \in 1 .. depth
            <6>1. i - 1 \in 0 .. depth - 1
              BY <4>1, <5>3
            <6>2. ContextAt(i - 1)' = ContextAt(i - 1)
              BY <3>7, <6>1
            <6> QED
              BY <3>4, <4>1, <5>3, <6>2 DEF Line
          <5> QED
            BY <4>1, <5>1, <5>2, <5>3
        <4>3. Contexts' = [i \in 1 .. depth + 2 |-> ContextAt(i - 1)']
          BY <2>1, <3>4, <4>1 DEF Contexts
        <4>4. Append(Line(c), Opened[type]) = [i \in 1 .. depth + 2 |-> Append(Line(c), Opened[type])[i]]
          BY <4>1
        <4> QED
          BY <4>2, <4>3, <4>4
      <3> QED
        BY <2>1, <2>8, <2>11, <3>3, <3>8 DEF Inv
    <2> QED
      BY <2>9, <2>10, <2>11
  <1> QED
    BY <1>1, <1>2

LEMMA EndInv ==
    ASSUME Inv, NEW type \in Container, End(type)
    PROVE  Inv'
  <1>1. CASE Rejected(EndAllowed(type))
    BY <1>1, RejectedInv DEF Rejected
  <1>2. CASE ~Rejected(EndAllowed(type))
    <2>1. /\ ~error /\ EndAllowed(type)
          /\ text' = FeedClose(text, type)
          /\ current_depth' = current_depth - 1
          /\ UNCHANGED <<state, error, slipped>>
      BY <1>2 DEF End
    <2>2. StateOK /\ current_depth \in Nat
      BY DumperAssumption DEF Inv, StateOK, Level
    <2>3. current_depth > 0 /\ state[current_depth - 1].type = type /\ ~state[current_depth - 1].named
      BY <2>1, <2>2 DEF EndAllowed, PrevState, Zero, Container
    <2>4. current_depth' \in Level /\ current_depth' \in Nat
      BY <2>1, <2>2, <2>3, DumperAssumption DEF StateOK, Level
    <2>5. LevelsOK'
      <3> SUFFICES ASSUME NEW d \in Level
                   PROVE  /\ d < current_depth' => state[d].type \in Container
                          /\ state[d].named => FALSE
        BY <2>1 DEF LevelsOK
      <3>1. d \in Nat
        BY DEF Level
      <3>2. ~state[d].named
        BY <2>2, <2>3 DEF StateOK, LevelsOK
      <3>3. d < current_depth' => d < current_depth
        BY <2>1, <2>2, <3>1
      <3> QED
        BY <2>2, <3>2, <3>3 DEF StateOK, LevelsOK
    <2>6. StateOK'
      BY <2>1, <2>2, <2>4, <2>5 DEF StateOK
    <2>7. CASE slipped
      BY <2>1, <2>6, <2>7, BadStays DEF Inv
    <2>8. CASE ~slipped
      <3>1. PICK depth : depth = current_depth
        OBVIOUS
      <3>2. text = Contexts /\ text = Line(ContextAt(depth)) /\ ContextAt(depth) \in Context
        <4>1. ContextAt(current_depth) \in Context
          BY DEF ContextAt, Context
        <4> QED
          BY <2>2, <2>8, <3>1, <4>1, ContextsLine DEF Inv
      <3>3. Top(text) = ContextAt(depth)
        BY <2>2, <3>2, LineSeq
      <3>4. ContextAt(depth) \in Closable[type]
        BY <2>2, <2>3, <3>1 DEF ContextAt, Closable, Container
      <3>5. text' = SubSeq(text, 1, depth)
        BY <2>1, <2>2, <3>1, <3>2, <3>3, <3>4, LineSeq DEF FeedClose
      <3>6. text' = [i \in 1 .. depth |-> ContextAt(i - 1)]
        BY <2>2, <3>1, <3>2, <3>5, LineSeq
      <3>7. Contexts' = [i \in 1 .. depth |-> ContextAt(i - 1)']
        BY <2>1, <2>2, <3>1 DEF Contexts
      <3>8. \A d \in 0 .. depth - 1 : ContextAt(d)' = ContextAt(d)
        <4> SUFFICES ASSUME NEW d \in 0 .. depth - 1 PROVE ContextAt(d)' = ContextAt(d)
          OBVIOUS
        <4>1. d < current_depth /\ d \in Level /\ d \in Nat
          BY <2>2, <3>1, DumperAssumption DEF StateOK, Level
        <4>2. state[d] # Zero
          BY <2>2, <4>1 DEF StateOK, LevelsOK, Container, Zero
        <4>3. Begun(d)' /\ Begun(d)
          BY <2>1, <4>1, <4>2 DEF Begun
        <4> QED
          BY <2>1, <4>3 DEF ContextAt
      <3>9. \A i \in 1 .. depth : ContextAt(i - 1)' = ContextAt(i - 1)
        <4> SUFFICES ASSUME NEW i \in 1 .. depth PROVE ContextAt(i - 1)' = ContextAt(i - 1)
          OBVIOUS
        <4>1. i - 1 \in 0 .. depth - 1
          BY <2>2, <3>1
        <4> QED
          BY <3>8, <4>1
      <3> QED
        BY <2>1, <2>6, <2>8, <3>6, <3>7, <3>9 DEF Inv
    <2> QED
      BY <2>7, <2>8
  <1> QED
    BY <1>1, <1>2

LEMMA SetMemberNameInv ==
    ASSUME Inv, SetMemberName
    PROVE  Inv'
  <1>1. CASE Rejected(NameAllowed)
    BY <1>1, RejectedInv DEF Rejected
  <1>2. CASE ~Rejected(NameAllowed)
    <2>1. /\ ~error /\ NameAllowed
          /\ text' = FeedName(PreparedText)
          /\ state' = [Prepared EXCEPT ![current_depth - 1].named = TRUE]
          /\ UNCHANGED <<current_depth, error, slipped>>
      BY <1>2 DEF SetMemberName
    <2>2. PICK depth : depth = current_depth
      OBVIOUS
    <2>3. StateOK /\ depth \in Nat
      BY <2>2, DumperAssumption DEF Inv, StateOK, Level
    <2>4. /\ depth > 0 /\ depth - 1 \in Level
          /\ state[depth - 1].type = "object" /\ ~state[depth - 1].named
      BY <2>1, <2>2, <2>3, DumperAssumption DEF StateOK, NameAllowed, PrevState, Zero, Level
    <2>5. /\ Prepared \in [Level -> [type : Type, named : BOOLEAN]]
          /\ \A d \in Level : d # depth - 1 => Prepared[d] = state[d]
          /\ Prepared[depth - 1].type = "object"
      BY <2>2, <2>3, <2>4, PreparedOK
    <2>6. [Prepared[depth - 1] EXCEPT !.named = TRUE] \in [type : Type, named : BOOLEAN]
      BY <2>4, <2>5
    <2>7. state' = [Prepared EXCEPT ![depth - 1] = [Prepared[depth - 1] EXCEPT !.named = TRUE]]
      BY <2>1, <2>2
    <2>8. /\ state' \in [Level -> [type : Type, named : BOOLEAN]]
          /\ state'[depth - 1].type = "object" /\ state'[depth - 1].named
          /\ \A d \in Level : d # depth - 1 => state'[d] = state[d]
      BY <2>4, <2>5, <2>6, <2>7
    <2>9. LevelsOK'
      <3> SUFFICES ASSUME NEW d \in Level
                   PROVE  /\ d < depth => state'[d].type \in Container
                          /\ state'[d].named => d = depth - 1 /\ state'[d].type = "object"
        BY <2>1, <2>2 DEF LevelsOK
      <3>1. CASE d = depth - 1
        BY <2>8, <3>1 DEF Container
      <3>2. CASE d # depth - 1
        BY <2>2, <2>3, <2>8, <3>2 DEF StateOK, LevelsOK
      <3> QED
        BY <3>1, <3>2
    <2>10. StateOK'
      BY <2>1, <2>3, <2>8, <2>9 DEF StateOK
    <2>11. CASE slipped
      BY <2>1, <2>3, <2>10, <2>11, PreparedLine, BadStays DEF Inv
    <2>12. CASE ~slipped
      <3>1. PreparedText = Line(PreparedContext) /\ PreparedContext \in Context
        BY <2>3, <2>12, PreparedLine DEF Inv
      <3>2. PreparedContext \in DOMAIN AfterName /\ AfterName[PreparedContext] = "objv"
        BY <2>2, <2>3, <2>4
        DEF PreparedContext, NeedsComma, PrevState, ContextAt, Begun, AfterName, AfterComma
      <3>3. text' = Line("objv")
        BY <2>1, <2>3, <3>1, <3>2, LineStep DEF FeedName
      <3>4. ContextAt(depth)' = "objv"
        BY <2>3, <2>4, <2>8 DEF ContextAt
      <3>5. \A d \in Level : d < current_depth =>
                /\ state'[d].type = state[d].type
                /\ d < current_depth - 1 => state'[d] = state[d]
        <4> SUFFICES ASSUME NEW d \in Level
                     PROVE  /\ state'[d].type = state[d].type
                            /\ d < depth - 1 => state'[d] = state[d]
          BY <2>2
        <4>1. d \in Nat
          BY DEF Level
        <4>2. CASE d = depth - 1
          BY <2>3, <2>4, <2>8, <4>1, <4>2
        <4>3. CASE d # depth - 1
          BY <2>8, <4>3
        <4> QED
          BY <4>2, <4>3
      <3>6. \A d \in 0 .. depth - 1 : ContextAt(d)' = ContextAt(d)
        BY <2>1, <2>2, <2>3, <3>5, LowerContexts
      <3>7. Line("objv") = Contexts'
        BY <2>1, <2>2, <2>3, <3>4, <3>6, LineContexts DEF Context
      <3> QED
        BY <2>1, <2>10, <2>12, <3>3, <3>7 DEF Inv
    <2> QED
      BY <2>11, <2>12
  <1> QED
    BY <1>1, <1>2

LEMMA ValueInv ==
    ASSUME Inv, Value
    PROVE  Inv'
  <1>1. CASE Rejected(ValueAllowed)
    BY <1>1, RejectedInv DEF Rejected
  <1>2. CASE ~Rejected(ValueAllowed)
    <2> DEFINE new == [type |-> "value", named |-> FALSE]
    <2>1. /\ ~error /\ ValueAllowed
          /\ text' = FeedValue(PreparedText)
          /\ state' = [Prepared EXCEPT ![current_depth] = new]
          /\ UNCHANGED <<current_depth, error, slipped>>
      BY <1>2 DEF Value
    <2>2. PICK depth : depth = current_depth
      OBVIOUS
    <2>3. StateOK /\ depth \in Nat /\ depth \in Level
      BY <2>2, DumperAssumption DEF Inv, StateOK, Level
    <2>4. new \in [type : Type, named : BOOLEAN] /\ new # Zero /\ new.named = FALSE
      BY DEF Type, Zero
    <2>5. /\ state' \in [Level -> [type : Type, named : BOOLEAN]]
          /\ state'[depth] = new
          /\ \A d \in Level : d # depth => state'[d] = Prepared[d]
      BY <2>1, <2>2, <2>3, <2>4, PreparedOK
    <2>6. \A d \in Level : d # depth =>
              /\ state'[d].type = state[d].type
              /\ d # depth - 1 => state'[d] = state[d]
              /\ ~state'[d].named
      <3> SUFFICES ASSUME NEW d \in Level, d # depth
                   PROVE  /\ state'[d].type = state[d].type
                          /\ d # depth - 1 => state'[d] = state[d]
                          /\ ~state'[d].named
        OBVIOUS
      <3>1. state'[d] = Prepared[d] /\ d \in Nat
        BY <2>5 DEF Level
      <3>2. CASE d = depth - 1
        <4>1. current_depth > 0
          BY <2>2, <2>3, <3>1, <3>2
        <4>2. Prepared[d].type = state[d].type /\ Prepared[d].named = FALSE
          BY <2>2, <2>3, <3>2, <4>1, PreparedOK
        <4> QED
          BY <3>1, <3>2, <4>2
      <3>3. CASE d # depth - 1
        BY <2>2, <2>3, <3>1, <3>3, PreparedOK DEF StateOK, LevelsOK
      <3> QED
        BY <3>2, <3>3
    <2>7. LevelsOK'
      <3> SUFFICES ASSUME NEW d \in Level
                   PROVE  /\ d < depth => state'[d].type \in Container
                          /\ ~state'[d].named
        BY <2>1, <2>2 DEF LevelsOK
      <3>1. CASE d = depth
        BY <2>3, <2>4, <2>5, <3>1
      <3>2. CASE d # depth
        BY <2>2, <2>3, <2>6, <3>2 DEF StateOK, LevelsOK
      <3> QED
        BY <3>1, <3>2
    <2>8. StateOK'
      BY <2>1, <2>3, <2>5, <2>7 DEF StateOK
    <2>9. CASE slipped
      BY <2>1, <2>3, <2>8, <2>9, PreparedLine, BadStays DEF Inv
    <2>10. CASE ~slipped
      <3>1. ~Misplaced
        <4>1. CASE depth = 0
          BY <2>1, <2>2, <4>1 DEF ValueAllowed, Misplaced, PrevState, Zero
        <4>2. CASE depth # 0
          <5>1. depth - 1 \in Level /\ depth - 1 < depth /\ PrevState = state[depth - 1]
            BY <2>2, <2>3, <4>2, DumperAssumption DEF Level, PrevState
          <5>2. PrevState.type \in Container
            BY <2>2, <2>3, <5>1 DEF StateOK, LevelsOK
          <5> QED
            BY <2>1, <2>2, <4>2, <5>2 DEF ValueAllowed, Misplaced
        <4> QED
          BY <4>1, <4>2
      <3> DEFINE c == AfterValue[PreparedContext]
      <3>2. PreparedContext \in DOMAIN AfterValue
        BY <2>3, <3>1, MisplacedContext
      <3>3. PreparedText = Line(PreparedContext) /\ PreparedContext \in Context
        BY <2>3, <2>10, PreparedLine DEF Inv
      <3>4. text' = Line(c) /\ c \in Context
        BY <2>1, <2>3, <3>2, <3>3, LineStep DEF FeedValue
      <3>5. Begun(depth)'
        BY <2>4, <2>5 DEF Begun
      <3>6. depth > 0 => /\ state'[depth - 1].type = state[depth - 1].type
                         /\ ~state'[depth - 1].named
        <4> SUFFICES ASSUME depth > 0 PROVE depth - 1 \in Level /\ depth - 1 # depth
          BY <2>6
        <4> QED
          BY <2>3, DumperAssumption DEF Level
      <3>7. ContextAt(depth)' = c
        BY <2>2, <2>3, <3>1, <3>5, <3>6, ValueContext
      <3>8. \A d \in Level : d < current_depth =>
                /\ state'[d].type = state[d].type
                /\ d < current_depth - 1 => state'[d] = state[d]
        <4> SUFFICES ASSUME NEW d \in Level, d < depth
                     PROVE  /\ state'[d].type = state[d].type
                            /\ d < depth - 1 => state'[d] = state[d]
          BY <2>2
        <4>1. d \in Nat /\ d # depth /\ (d < depth - 1 => d # depth - 1)
          BY <2>3 DEF Level
        <4> QED
          BY <2>6, <4>1
      <3>9. \A d \in 0 .. depth - 1 : ContextAt(d)' = ContextAt(d)
        BY <2>1, <2>2, <2>3, <3>8, LowerContexts
      <3>10. Line(c) = Contexts'
        BY <2>1, <2>2, <2>3, <3>4, <3>7, <3>9, LineContexts
      <3> QED
        BY <2>1, <2>8, <2>10, <3>4, <3>10 DEF Inv
    <2> QED
      BY <2>9, <2>10
  <1> QED
    BY <1>1, <1>2

LEMMA WriteBase64Inv ==
    ASSUME Inv, WriteBase64
    PROVE  Inv'
  <1>1. CASE Rejected(WriteAllowed)
    BY <1>1, RejectedInv DEF Rejected
  <1>2. CASE ~Rejected(WriteAllowed)
    <2> DEFINE new == [type |-> "base64", named |-> FALSE]
    <2>1. /\ ~error /\ WriteAllowed
          /\ text' = FeedCharacters(text)
          /\ state' = [state EXCEPT ![current_depth] = new]
          /\ UNCHANGED <<current_depth, error, slipped>>
      BY <1>2 DEF WriteBase64
    <2>2. PICK depth : depth = current_depth
      OBVIOUS
    <2>3. StateOK /\ depth \in Nat /\ depth \in Level
      BY <2>2, DumperAssumption DEF Inv, StateOK, Level
    <2>4. depth > 0 /\ depth - 1 \in Level /\ state[depth - 1].type = "base64"
      BY <2>1, <2>2, <2>3, DumperAssumption DEF StateOK, WriteAllowed, PrevState, Zero, Level
    <2>5. new \in [type : Type, named : BOOLEAN] /\ new.named = FALSE
      BY DEF Type, Container
    <2>6. /\ state' \in [Level -> [type : Type, named : BOOLEAN]]
          /\ state'[depth] = new
          /\ \A d \in Level : d # depth => state'[d] = state[d]
      BY <2>1, <2>2, <2>3, <2>5 DEF StateOK
    <2>7. LevelsOK'
      <3> SUFFICES ASSUME NEW d \in Level
                   PROVE  /\ d < depth => state'[d].type \in Container
                          /\ state'[d].named => d = depth - 1 /\ state'[d].type = "object"
        BY <2>1, <2>2 DEF LevelsOK
      <3>1. CASE d = depth
        BY <2>3, <2>5, <2>6, <3>1
      <3>2. CASE d # depth
        BY <2>2, <2>3, <2>6, <3>2 DEF StateOK, LevelsOK
      <3> QED
        BY <3>1, <3>2
    <2>8. StateOK'
      BY <2>1, <2>3, <2>6, <2>7 DEF StateOK
    <2>9. CASE slipped
      BY <2>1, <2>8, <2>9, BadStays DEF Inv
    <2>10. CASE ~slipped
      <3>1. ContextAt(depth) = "b64" /\ ContextAt(depth)' = "b64"
        <4>1. depth - 1 # depth
          BY <2>3
        <4>2. state'[depth - 1].type = "base64"
          BY <2>4, <2>6, <4>1
        <4> QED
          BY <2>4, <4>2 DEF ContextAt
      <3>2. text = Line("b64")
        BY <2>2, <2>3, <2>10, <3>1, ContextsLine DEF Inv
      <3>3. text' = Line("b64")
        BY <2>1, <2>3, <3>2, LineSeq DEF FeedCharacters, Context
      <3>4. \A d \in Level : d < current_depth => state'[d] = state[d]
        <4> SUFFICES ASSUME NEW d \in Level, d < depth PROVE d # depth
          BY <2>2, <2>6
        <4> QED
          BY <2>3 DEF Level
      <3>5. \A d \in 0 .. depth - 1 : ContextAt(d)' = ContextAt(d)
        BY <2>1, <2>2, <2>3, <3>4, LowerContexts
      <3>6. Line("b64") = Contexts'
        BY <2>1, <2>2, <2>3, <3>1, <3>5, LineContexts DEF Context
      <3> QED
        BY <2>1, <2>8, <2>10, <3>3, <3>6 DEF Inv
    <2> QED
      BY <2>9, <2>10
  <1> QED
    BY <1>1, <1>2

LEMMA FinishInv ==
    ASSUME Inv, Finish
    PROVE  Inv'
  <1>1. CASE Rejected(FinishAllowed)
    BY <1>1, RejectedInv DEF Rejected
  <1>2. CASE ~Rejected(FinishAllowed)
    <2>1. /\ ~error /\ current_depth = 0 /\ current_depth' = 0
          /\ text' = FeedNewline(text)
          /\ state' = [state EXCEPT ![0] = Zero]
          /\ UNCHANGED <<error, slipped>>
      BY <1>2 DEF Finish, FinishAllowed
    <2>2. StateOK /\ 0 \in Level
      BY DumperAssumption DEF Inv, Level
    <2>3. /\ state' \in [Level -> [type : Type, named : BOOLEAN]]
          /\ state'[0] = Zero
          /\ \A d \in Level : d # 0 => state'[d] = state[d]
      BY <2>1, <2>2, ZeroIsState DEF StateOK
    <2>4. LevelsOK'
      <3> SUFFICES ASSUME NEW d \in Level
                   PROVE  ~(d < 0) /\ ~state'[d].named
        BY <2>1 DEF LevelsOK
      <3>1. ~(d < 0) /\ d # -1
        BY DEF Level
      <3>2. CASE d = 0
        BY <2>3, <3>1, <3>2 DEF Zero
      <3>3. CASE d # 0
        BY <2>1, <2>2, <2>3, <3>1, <3>3 DEF StateOK, LevelsOK
      <3> QED
        BY <3>1, <3>2, <3>3
    <2>5. StateOK'
      BY <2>1, <2>2, <2>3, <2>4 DEF StateOK
    <2>6. CASE slipped
      BY <2>1, <2>5, <2>6, BadStays DEF Inv
    <2>7. CASE ~slipped
      <3>1. Contexts = <<ContextAt(0)>> /\ ContextAt(0) \in {"start", "done"}
        BY <2>1 DEF Contexts, ContextAt
      <3>2. text \in {Start, <<"done">>}
        BY <2>7, <3>1 DEF Inv, Start
      <3>3. text' = Start
        BY <2>1, <3>2 DEF FeedNewline
      <3>4. ContextAt(0)' = "start"
        BY <2>1, <2>3 DEF ContextAt, Begun
      <3>5. Contexts' = <<ContextAt(0)'>>
        BY <2>1 DEF Contexts
      <3> QED
        BY <2>1, <2>5, <2>7, <3>3, <3>4, <3>5 DEF Inv, Start
    <2> QED
      BY <2>6, <2>7
  <1> QED
    BY <1>1, <1>2

LEMMA StepInv == Inv /\ [Next]_vars => Inv'
  <1> SUFFICES ASSUME Inv, [Next]_vars PROVE Inv'
    OBVIOUS
  <1>1. CASE \E type \in Container : Begin(type)
    BY <1>1, BeginInv
  <1>2. CASE \E type \in Container : End(type)
    BY <1>2, EndInv
  <1>3. CASE SetMemberName
    BY <1>3, SetMemberNameInv
  <1>4. CASE Value
    BY <1>4, ValueInv
  <1>5. CASE WriteBase64
    BY <1>5, WriteBase64Inv
  <1>6. CASE Finish
    BY <1>6, FinishInv
  <1>7. CASE UNCHANGED vars
    <2>1. UNCHANGED <<current_depth, state, text, slipped>> /\ error' = error
      BY <1>7 DEF vars
    <2>2. error' \in BOOLEAN
      BY <2>1 DEF Inv, StateOK
    <2> QED
      BY <2>1, <2>2, RejectedInv
  <1> QED
    BY <1>1, <1>2, <1>3, <1>4, <1>5, <1>6, <1>7 DEF Next

-----------------------------------------------------------------------------
\* However deep the calls nest and in whatever order they come, what
\* json_dumper.c writes is JSON exactly until a container is begun where there is
\* no place for one, and the byte it keeps for each level is enough to tell where
\* in the text it is.
THEOREM Safety == Spec => []OutputAccepted
  <1>1. Inv => OutputAccepted
    <2> SUFFICES ASSUME Inv PROVE OutputAccepted
      OBVIOUS
    <2>1. StateOK /\ Contexts \in Seq(Context) /\ Contexts # Bad
      BY ContextsSeq DEF Inv
    <2>2. Bad \in Seq(Context)
      BY DEF Bad, Context
    <2>3. text \in Seq(Context)
      BY <2>1, <2>2 DEF Inv
    <2>4. TypeOK
      BY <2>1, <2>3 DEF StateOK, TypeOK
    <2>5. (text = Bad <=> slipped) /\ (~slipped => text = Contexts)
      BY <2>1 DEF Inv, StateOK
    <2> QED
      BY <2>4, <2>5 DEF OutputAccepted
  <1> QED
    BY <1>1, InitInv, StepInv, PTL DEF Spec

\* json_dumper_check_state looks at the error flag before anything else, so that
\* after one call in error no call succeeds and nothing more is written.
THEOREM ErrorsAreFinal == Spec => ErrorsStick
  <1>1. [Next]_vars => [StaysRejected]_vars
    <2> SUFFICES ASSUME Next, error PROVE StaysRejected
      BY DEF StaysRejected
    <2> QED
      BY DEF Next, Begin, End, SetMemberName, Value, WriteBase64, Finish, Rejected, StaysRejected
  <1> QED
    BY <1>1, PTL DEF Spec, ErrorsStick

-----------------------------------------------------------------------------
(***************************************************************************)
(* What a handler has still to do takes the session from where it is to    *)
(* the end of a reply.                                                     *)
(***************************************************************************)
\* A context without what only commas depend on.
Kind == [start |-> "start", done |-> "done", obj0 |-> "object", objn |-> "object",
         objc |-> "object", objv |-> "member", arr0 |-> "array", arrn |-> "array",
         arrc |-> "array", b64 |-> "base64", bad |-> "bad"]

Kinds == {"start", "done", "object", "member", "array", "base64", "bad"}

Drawn(t) == [i \in 1 .. Len(t) |-> Kind[t[i]]]

\* The places of a reply.
Outline ==
    [start    |-> <<"start">>,
     done     |-> <<"done">>,
     object   |-> <<"done", "object">>,
     member   |-> <<"done", "member">>,
     array    |-> <<"done", "array">>,
     elements |-> <<"done", "object", "array">>,
     element  |-> <<"done", "object", "array", "object">>,
     field    |-> <<"done", "object", "array", "member">>,
     inner    |-> <<"done", "object", "array", "object", "array">>]

Place == DOMAIN Outline

\* How a call of the dumper leads from one to the other.
Opens(p, q) == <<p, q>> \in {<<"start", "object">>, <<"elements", "element">>}
Closes(p, q) == <<p, q>> \in {<<"object", "done">>, <<"element", "elements">>}
OpensArray(p, q) ==
    <<p, q>> \in {<<"start", "array">>, <<"member", "elements">>, <<"field", "inner">>}
ClosesArray(p, q) ==
    <<p, q>> \in {<<"array", "done">>, <<"elements", "object">>, <<"inner", "element">>}
Names(p, q) == <<p, q>> \in {<<"object", "member">>, <<"element", "field">>}
Fills(p, q) ==
    <<p, q>> \in {<<"member", "object">>, <<"elements", "elements">>, <<"field", "element">>}

Writes(step, p, q) ==
    \/ step = "{" /\ Opens(p, q)
    \/ step = "}" /\ Closes(p, q)
    \/ step = "[" /\ OpensArray(p, q)
    \/ step = "]" /\ ClosesArray(p, q)
    \/ step = "name" /\ Names(p, q)
    \/ step = "value" /\ Fills(p, q)

\* answered: 0 before a line, 1 after at most one that is a value, 2 at the end.
\* held: what is known of taps.
Held == {"none", "gathering", "graphing", "any", "some"}

Stages == [place : Place, answered : 0 .. 2,
           held : Held]

At(place, answered, held) == [place |-> place, answered |-> answered, held |-> held]
Over == At("start", 2, "none")

Answered == [n \in 0 .. 2 |-> CASE n = 0 -> {<< >>}
                                [] n = 1 -> {<< >>, <<"value">>}
                                [] n = 2 -> {<<"empty">>, <<"value", "empty">>}]

Moves(step, s, t) ==
    \/ Writes(step, s.place, t.place) /\ t.answered = s.answered /\ t.held = s.held
    \/ /\ step = "finish" /\ t.place = "start" /\ t.held = s.held
       /\ \/ s.place = "done" /\ s.answered = 0 /\ t.answered = 1
          \/ s.place = "start" /\ s.answered # 2 /\ t.answered = 2
    \/ step \in {"pairs", "values", "fields"} /\ s.place = "elements" /\ t = s
    \/ step = "completions" /\ s.place = "object" /\ t = s
    \/ step = "gather" /\ s = At("start", 0, "gathering") /\ t = At("start", 1, "none")
    \/ /\ step \in {"listen heap", "listen stack"}
       /\ s = At("start", 0, "none") /\ t = At("start", 0, "any")
    \/ step = "graph" /\ s = At("start", 0, "graphing") /\ t = At("start", 0, "any")
    \/ step = "graphs" /\ s.place = "elements" /\ s.held = "any" /\ t = [s EXCEPT !.held = "none"]
    \/ step = "release" /\ s.held = "any" /\ t = [s EXCEPT !.held = "none"]
    \/ step = "drop" /\ s.held = "some" /\ t = [s EXCEPT !.held = "any"]

Steps == {"{", "}", "[", "]", "name", "value", "finish", "pairs", "values", "fields",
          "completions", "gather", "listen heap", "listen stack", "graph", "graphs",
          "release", "drop"}

Fits(script, s, t) ==
    \E at \in [1 .. Len(script) + 1 -> Stages] :
        /\ at[1] = s /\ at[Len(script) + 1] = t
        /\ \A i \in 1 .. Len(script) : Moves(script[i], at[i], at[i + 1])

LEMMA FitsNothing ==
    ASSUME NEW s \in Stages, NEW t
    PROVE  Fits(<< >>, s, t) <=> s = t
  <1>1. Len(<< >>) = 0
    OBVIOUS
  <1>2. ASSUME Fits(<< >>, s, t) PROVE s = t
    BY <1>1, <1>2 DEF Fits
  <1>3. ASSUME s = t PROVE Fits(<< >>, s, t)
    <2> DEFINE at == [i \in 1 .. 1 |-> s]
    <2>1. at \in [1 .. 0 + 1 -> Stages] /\ at[1] = s
      OBVIOUS
    <2>2. at[0 + 1] = t /\ \A i \in 1 .. 0 : FALSE
      BY <1>3, <2>1
    <2> HIDE DEF at
    <2> QED
      BY <1>1, <2>1, <2>2 DEF Fits
  <1> QED
    BY <1>2, <1>3

LEMMA FitsOne ==
    ASSUME NEW step \in Steps, NEW s \in Stages, NEW t \in Stages, Moves(step, s, t)
    PROVE  Fits(<<step>>, s, t)
  <1> DEFINE at == [i \in 1 .. 2 |-> IF i = 1 THEN s ELSE t]
  <1>1. Len(<<step>>) = 1 /\ <<step>>[1] = step
    OBVIOUS
  <1>2. at \in [1 .. 2 -> Stages] /\ at[1] = s /\ at[2] = t
    OBVIOUS
  <1> HIDE DEF at
  <1> QED
    BY <1>1, <1>2 DEF Fits

LEMMA FitsBoth ==
    ASSUME NEW a \in Seq(Steps), NEW b \in Seq(Steps), NEW s, NEW m, NEW t,
           Fits(a, s, m), Fits(b, m, t)
    PROVE  Fits(a \o b, s, t)
  <1>1. PICK x \in [1 .. Len(a) + 1 -> Stages] :
            /\ x[1] = s /\ x[Len(a) + 1] = m
            /\ \A i \in 1 .. Len(a) : Moves(a[i], x[i], x[i + 1])
    BY DEF Fits
  <1>2. PICK y \in [1 .. Len(b) + 1 -> Stages] :
            /\ y[1] = m /\ y[Len(b) + 1] = t
            /\ \A i \in 1 .. Len(b) : Moves(b[i], y[i], y[i + 1])
    BY DEF Fits
  <1> DEFINE at == [i \in 1 .. Len(a) + Len(b) + 1 |->
                        IF i <= Len(a) THEN x[i] ELSE y[i - Len(a)]]
  <1>3. Len(a) \in Nat /\ Len(b) \in Nat /\ Len(a \o b) = Len(a) + Len(b)
    OBVIOUS
  <1>4. at \in [1 .. Len(a \o b) + 1 -> Stages]
    BY <1>1, <1>2, <1>3
  <1>5. at[1] = s /\ at[Len(a \o b) + 1] = t
    BY <1>1, <1>2, <1>3
  <1>6. ASSUME NEW i \in 1 .. Len(a \o b) PROVE Moves((a \o b)[i], at[i], at[i + 1])
    <2>1. CASE i < Len(a)
      <3>1. (a \o b)[i] = a[i] /\ at[i] = x[i] /\ at[i + 1] = x[i + 1] /\ i \in 1 .. Len(a)
        BY <1>3, <2>1
      <3> QED
        BY <1>1, <3>1
    <2>2. CASE i = Len(a)
      <3>1. (a \o b)[i] = a[i] /\ at[i] = x[i] /\ at[i + 1] = y[1] /\ i \in 1 .. Len(a)
        BY <1>3, <2>2
      <3> QED
        BY <1>1, <1>2, <2>2, <3>1
    <2>3. CASE i > Len(a)
      <3>1. /\ (a \o b)[i] = b[i - Len(a)] /\ i - Len(a) \in 1 .. Len(b)
            /\ at[i] = y[i - Len(a)] /\ at[i + 1] = y[(i - Len(a)) + 1]
        BY <1>3, <2>3
      <3> QED
        BY <1>2, <3>1
    <2> QED
      BY <1>3, <2>1, <2>2, <2>3
  <1> HIDE DEF at
  <1> QED
    BY <1>4, <1>5, <1>6 DEF Fits

\* The first step leads to where the others go on.
LEMMA FitsRest ==
    ASSUME NEW a \in Seq(Steps), a # << >>, NEW s, NEW t, Fits(a, s, t)
    PROVE  \E m \in Stages : Moves(Head(a), s, m) /\ Fits(Tail(a), m, t)
  <1>1. PICK x \in [1 .. Len(a) + 1 -> Stages] :
            /\ x[1] = s /\ x[Len(a) + 1] = t
            /\ \A i \in 1 .. Len(a) : Moves(a[i], x[i], x[i + 1])
    BY DEF Fits
  <1>2. /\ Len(a) \in Nat \ {0} /\ Head(a) = a[1] /\ Len(Tail(a)) = Len(a) - 1
        /\ \A i \in 1 .. Len(a) - 1 : Tail(a)[i] = a[i + 1]
    OBVIOUS
  <1> DEFINE at == [i \in 1 .. Len(a) |-> x[i + 1]]
  <1>3. at \in [1 .. Len(Tail(a)) + 1 -> Stages] /\ at[1] = x[2] /\ at[Len(Tail(a)) + 1] = t
    BY <1>1, <1>2
  <1>4. ASSUME NEW i \in 1 .. Len(Tail(a)) PROVE Moves(Tail(a)[i], at[i], at[i + 1])
    <2>1. Tail(a)[i] = a[i + 1] /\ at[i] = x[i + 1] /\ at[i + 1] = x[(i + 1) + 1] /\ i + 1 \in 1 .. Len(a)
      BY <1>2
    <2> QED
      BY <1>1, <2>1
  <1>5. Fits(Tail(a), x[2], t)
    <2> HIDE DEF at
    <2> QED
      BY <1>3, <1>4 DEF Fits
  <1>6. Moves(Head(a), s, x[2]) /\ x[2] \in Stages
    <2>1. 1 \in 1 .. Len(a) /\ 2 \in 1 .. Len(a) + 1 /\ 1 + 1 = 2
      BY <1>2
    <2> QED
      BY <1>1, <1>2, <2>1
  <1> QED
    BY <1>5, <1>6

-----------------------------------------------------------------------------
(***************************************************************************)
(* What the handlers write.                                                *)
(***************************************************************************)
Script(m, s, t) == m \in Seq(Steps) /\ Fits(m, s, t)

LEMMA ScriptBoth ==
    ASSUME NEW a, NEW b, NEW s, NEW m, NEW t, Script(a, s, m), Script(b, m, t)
    PROVE  Script(a \o b, s, t)
  BY FitsBoth DEF Script

LEMMA ScriptOne ==
    ASSUME NEW step \in Steps, NEW s \in Stages, NEW t \in Stages, Moves(step, s, t)
    PROVE  Script(<<step>>, s, t)
  BY FitsOne DEF Script

LEMMA ScriptNothing ==
    ASSUME NEW s \in Stages
    PROVE  Script(<< >>, s, s)
  BY FitsNothing DEF Script

LEMMA AtStages ==
    ASSUME NEW p \in Place, NEW n \in 0 .. 2, NEW h \in Held
    PROVE  /\ At(p, n, h) \in Stages
           /\ At(p, n, h).place = p /\ At(p, n, h).answered = n /\ At(p, n, h).held = h
  BY DEF At, Stages, Held

LEMMA ScriptWrite ==
    ASSUME NEW step, NEW p \in Place, NEW q \in Place, NEW n \in 0 .. 2, NEW h \in Held,
           Writes(step, p, q)
    PROVE  Script(<<step>>, At(p, n, h), At(q, n, h))
  <1>1. step \in Steps
    BY DEF Writes, Steps
  <1>2. /\ At(p, n, h).place = p /\ At(q, n, h).place = q
        /\ At(p, n, h).answered = At(q, n, h).answered /\ At(p, n, h).held = At(q, n, h).held
    BY AtStages
  <1>3. Moves(step, At(p, n, h), At(q, n, h))
    BY <1>2 DEF Moves
  <1> QED
    BY <1>1, <1>3, AtStages, ScriptOne

\* From p to q, inside of which it goes from a to b.
LEMMA ScriptObject ==
    ASSUME NEW m, NEW p \in Place, NEW a \in Place, NEW q \in Place,
           NEW n \in 0 .. 2, NEW g \in Held, NEW h \in Held,
           Opens(p, a), Closes(a, q), Script(m, At(a, n, g), At(a, n, h))
    PROVE  Script(Object(m), At(p, n, g), At(q, n, h))
  <1>1. Script(<<"{">>, At(p, n, g), At(a, n, g)) /\ Script(<<"}">>, At(a, n, h), At(q, n, h))
    BY ScriptWrite DEF Writes
  <1> QED
    BY <1>1, ScriptBoth DEF Object

LEMMA ScriptArray ==
    ASSUME NEW m, NEW p \in Place, NEW a \in Place, NEW q \in Place,
           NEW n \in 0 .. 2, NEW g \in Held, NEW h \in Held,
           OpensArray(p, a), ClosesArray(a, q), Script(m, At(a, n, g), At(a, n, h))
    PROVE  Script(Array(m), At(p, n, g), At(q, n, h))
  <1>1. Script(<<"[">>, At(p, n, g), At(a, n, g)) /\ Script(<<"]">>, At(a, n, h), At(q, n, h))
    BY ScriptWrite DEF Writes
  <1> QED
    BY <1>1, ScriptBoth DEF Array

LEMMA ScriptNamed ==
    ASSUME NEW m, NEW p \in Place, NEW a \in Place, NEW q \in Place,
           NEW n \in 0 .. 2, NEW g \in Held, NEW h \in Held,
           Names(p, a), Script(m, At(a, n, g), At(q, n, h))
    PROVE  Script(Named(m), At(p, n, g), At(q, n, h))
  <1>1. Script(<<"name">>, At(p, n, g), At(a, n, g))
    BY ScriptWrite DEF Writes
  <1> QED
    BY <1>1, ScriptBoth DEF Named

\* At the place p it begins and ends.
Stays(m, p, n, h) == Script(m, At(p, n, h), At(p, n, h))

\* The members of an object, and the elements of an array of the reply.
LEMMA ScriptMembers ==
    ASSUME NEW n \in 0 .. 2, NEW h \in Held
    PROVE  /\ Stays(Member, "object", n, h) /\ Stays(Member, "element", n, h)
           /\ Stays(Pair, "elements", n, h)
           /\ Stays(Pairs, "object", n, h)
           /\ Stays(Named(Array(<< >>)), "object", n, h)
           /\ Stays(Named(Array(<< >>)), "element", n, h)
           /\ \A m : Stays(m, "elements", n, h) => Stays(Named(Array(m)), "object", n, h)
  <1>1. {"object", "element", "member", "elements", "field", "inner"} \subseteq Place
    BY DEF Place, Outline
  <1>2. /\ Names("object", "member") /\ Names("element", "field")
        /\ Fills("member", "object") /\ Fills("field", "element")
        /\ Opens("elements", "element") /\ Closes("element", "elements")
        /\ OpensArray("member", "elements") /\ ClosesArray("elements", "object")
        /\ OpensArray("field", "inner") /\ ClosesArray("inner", "element")
    BY DEF Names, Fills, Opens, Closes, OpensArray, ClosesArray
  <1>3. Stays(Member, "object", n, h)
    <2>1. Script(<<"value">>, At("member", n, h), At("object", n, h))
      BY <1>1, <1>2, ScriptWrite DEF Writes
    <2> QED
      BY <1>1, <1>2, <2>1, ScriptNamed DEF Member, Stays
  <1>4. Stays(Member, "element", n, h)
    <2>1. Script(<<"value">>, At("field", n, h), At("element", n, h))
      BY <1>1, <1>2, ScriptWrite DEF Writes
    <2> QED
      BY <1>1, <1>2, <2>1, ScriptNamed DEF Member, Stays
  <1>5. Stays(Pair, "elements", n, h)
    <2>1. Script(Member \o Member, At("element", n, h), At("element", n, h))
      BY <1>4, ScriptBoth DEF Stays
    <2> QED
      BY <1>1, <1>2, <2>1, ScriptObject DEF Pair, Stays
  <1>6. ASSUME NEW m, Stays(m, "elements", n, h) PROVE Stays(Named(Array(m)), "object", n, h)
    <2>1. Script(Array(m), At("member", n, h), At("object", n, h))
      BY <1>1, <1>2, <1>6, ScriptArray DEF Stays
    <2> QED
      BY <1>1, <1>2, <2>1, ScriptNamed DEF Stays
  <1>7. Stays(Pairs, "object", n, h)
    <2>1. Moves("pairs", At("elements", n, h), At("elements", n, h)) /\ "pairs" \in Steps
      BY <1>1, AtStages DEF Moves, Steps
    <2>2. Stays(<<"pairs">>, "elements", n, h)
      BY <1>1, <2>1, AtStages, ScriptOne DEF Stays
    <2> QED
      BY <1>6, <2>2 DEF Pairs
  <1>8. Stays(Named(Array(<< >>)), "object", n, h)
    BY <1>1, <1>6, AtStages, ScriptNothing DEF Stays
  <1>9. Stays(Named(Array(<< >>)), "element", n, h)
    <2>1. Script(<< >>, At("inner", n, h), At("inner", n, h))
      BY <1>1, AtStages, ScriptNothing
    <2>2. Script(Array(<< >>), At("field", n, h), At("element", n, h))
      BY <1>1, <1>2, <2>1, ScriptArray
    <2> QED
      BY <1>1, <1>2, <2>2, ScriptNamed DEF Stays
  <1> QED
    BY <1>3, <1>4, <1>5, <1>6, <1>7, <1>8, <1>9

LEMMA StaysBoth ==
    ASSUME NEW p, NEW n, NEW h, NEW a, NEW b, Stays(a, p, n, h), Stays(b, p, n, h)
    PROVE  Stays(a \o b, p, n, h)
  BY ScriptBoth DEF Stays

\* A loop's turn leaves the reply where the loop is.
LEMMA TurnsFit ==
    ASSUME NEW step \in DOMAIN Loop, NEW turn \in Loop[step], NEW s \in Stages, NEW t,
           Moves(step, s, t)
    PROVE  Script(turn, s, t)
  <1> DEFINE n == s.answered
             h == s.held
  <1>1. /\ n \in 0 .. 2 /\ h \in Held /\ s = At(s.place, n, h) /\ s.place \in Place
        /\ {"object", "element", "member", "elements"} \subseteq Place
    BY DEF Stages, Held, At, Place, Outline
  <1> HIDE DEF n, h
  <1>2. /\ Names("object", "member") /\ Fills("elements", "elements")
        /\ Opens("elements", "element") /\ Closes("element", "elements")
    BY DEF Names, Fills, Opens, Closes
  <1>3. /\ step \in {"pairs", "values", "fields", "completions"}
        /\ t = s /\ s.place = IF step = "completions" THEN "object" ELSE "elements"
    BY DEF Loop, Moves, Writes
  <1>4. Script(<< >>, s, s)
    BY ScriptNothing
  <1>5. step \in {"pairs", "values", "fields"} => Stays(<<step>>, "elements", n, h)
    <2>1. Moves(step, s, s) /\ step \in Steps
      BY <1>3 DEF Steps
    <2> QED
      BY <1>1, <1>3, <2>1, ScriptOne DEF Stays
  <1>6. ASSUME step = "pairs", turn # << >> PROVE Script(turn, s, t)
    <2>1. turn = Pair \o <<"pairs">>
      BY <1>6 DEF Loop
    <2> QED
      BY <1>1, <1>3, <1>5, <1>6, <2>1, ScriptMembers, StaysBoth DEF Stays
  <1>7. ASSUME step = "values", turn # << >> PROVE Script(turn, s, t)
    <2>1. turn = <<"value">> \o <<"values">>
      BY <1>7 DEF Loop
    <2>2. Stays(<<"value">>, "elements", n, h)
      BY <1>1, <1>2, ScriptWrite DEF Stays, Writes
    <2> QED
      BY <1>1, <1>3, <1>5, <1>7, <2>1, <2>2, StaysBoth DEF Stays
  <1>8. ASSUME step = "fields", turn # << >> PROVE Script(turn, s, t)
    <2>1. \/ turn = Object(Member) \o <<"fields">>
          \/ turn = Object(Member \o Member \o Member) \o <<"fields">>
      BY <1>8 DEF Loop
    <2>2. Stays(Member, "element", n, h) /\ Stays(Member \o Member \o Member, "element", n, h)
      BY <1>1, ScriptMembers, StaysBoth
    <2>3. Stays(Object(Member), "elements", n, h)
      BY <1>1, <1>2, <2>2, ScriptObject DEF Stays
    <2>4. Stays(Object(Member \o Member \o Member), "elements", n, h)
      BY <1>1, <1>2, <2>2, ScriptObject DEF Stays
    <2> QED
      BY <1>1, <1>3, <1>5, <1>8, <2>1, <2>3, <2>4, StaysBoth DEF Stays
  <1>9. ASSUME step = "completions", turn # << >> PROVE Script(turn, s, t)
    <2>1. turn = Named(Array(<<"fields">>))
      BY <1>9 DEF Loop
    <2>2. Moves("fields", At("elements", n, h), At("elements", n, h)) /\ "fields" \in Steps
      <3>1. At("elements", n, h).place = "elements"
        BY <1>1, AtStages
      <3> QED
        BY <3>1 DEF Moves, Steps
    <2>3. Stays(<<"fields">>, "elements", n, h)
      BY <1>1, <2>2, AtStages, ScriptOne DEF Stays
    <2> QED
      BY <1>1, <1>3, <1>9, <2>1, <2>3, ScriptMembers DEF Stays
  <1> QED
    BY <1>3, <1>4, <1>6, <1>7, <1>8, <1>9

\* A whole reply.
LEMMA ScriptReply ==
    ASSUME NEW m, NEW g \in Held, NEW h \in Held,
           Script(m, At("object", 0, g), At("object", 0, h))
    PROVE  Script(Reply(m), At("start", 0, g), At("start", 1, h))
  <1>1. {"object", "start", "done"} \subseteq Place
    BY DEF Place, Outline
  <1>2. Opens("start", "object") /\ Closes("object", "done")
    BY DEF Opens, Closes
  <1>3. Script(Object(m), At("start", 0, g), At("done", 0, h))
    BY <1>1, <1>2, ScriptObject
  <1>4. Script(<<"finish">>, At("done", 0, h), At("start", 1, h))
    <2>1. Moves("finish", At("done", 0, h), At("start", 1, h)) /\ "finish" \in Steps
      BY <1>1, AtStages DEF Moves, Steps
    <2> QED
      BY <1>1, <2>1, AtStages, ScriptOne
  <1> QED
    BY <1>3, <1>4, ScriptBoth DEF Reply

LEMMA ScriptEmptyLine ==
    ASSUME NEW n \in 0 .. 1
    PROVE  Script(<<"finish">>, At("start", n, "none"), Over)
  <1>1. "start" \in Place /\ "none" \in Held /\ n \in 0 .. 2 /\ 2 \in 0 .. 2
    BY DEF Place, Outline, Held
  <1>2. Moves("finish", At("start", n, "none"), Over) /\ "finish" \in Steps
    BY <1>1, AtStages DEF Moves, Steps, Over
  <1> QED
    BY <1>1, <1>2, AtStages, ScriptOne DEF Over

\* What a line begins with: nothing is held, by any name.
Before == {"none", "gathering", "graphing"}

\* Every handler's script ends the reply.
LEMMA HandlersFit ==
    ASSUME NEW req \in DOMAIN Handler, NEW script \in Handler[req]
    PROVE  \E h \in Before : Script(script \o <<"finish">>, At("start", 0, h), Over)
  <1> DEFINE Sound(m) == \E h \in Before, n \in 0 .. 1 :
                            Script(m, At("start", 0, h), At("start", n, "none"))
  <1>1. /\ {"start", "done", "object", "array", "elements"} \subseteq Place
        /\ {"none", "gathering", "graphing", "any"} \subseteq Held
        /\ Before \subseteq Held /\ "none" \in Before /\ 0 \in 0 .. 1 /\ 1 \in 0 .. 1
        /\ 0 \in 0 .. 2 /\ 1 \in 0 .. 2
    BY DEF Place, Outline, Held, Before
  <1>2. ASSUME Sound(script)
        PROVE  \E h \in Before : Script(script \o <<"finish">>, At("start", 0, h), Over)
    BY <1>2, ScriptEmptyLine, ScriptBoth
  <1>3. Sound(<< >>)
    BY <1>1, AtStages, ScriptNothing
  <1>4. ASSUME NEW m, Stays(m, "object", 0, "none") PROVE Sound(Reply(m))
    BY <1>1, <1>4, ScriptReply DEF Stays
  <1>5. /\ Stays(Member, "object", 0, "none") /\ Stays(Pairs, "object", 0, "none")
        /\ Stays(Member, "object", 0, "any")
        /\ Stays(Named(Array(<< >>)), "object", 0, "none")
        /\ Stays(Pair, "elements", 0, "none")
        /\ \A m : Stays(m, "elements", 0, "none") => Stays(Named(Array(m)), "object", 0, "none")
    BY <1>1, ScriptMembers
  <1>6. Sound(ProcessStatus)
    BY <1>4, <1>5, StaysBoth DEF ProcessStatus
  <1>7. Sound(ProcessAnalyse)
    BY <1>4, <1>5, StaysBoth DEF ProcessAnalyse
  <1>8. Sound(ProcessComplete)
    <2>1. /\ Moves("completions", At("object", 0, "none"), At("object", 0, "none"))
          /\ "completions" \in Steps
      <3>1. At("object", 0, "none").place = "object"
        BY <1>1, AtStages
      <3> QED
        BY <3>1 DEF Moves, Steps
    <2>2. Stays(<<"completions">>, "object", 0, "none")
      BY <1>1, <2>1, AtStages, ScriptOne DEF Stays
    <2> QED
      BY <1>4, <1>5, <2>2, StaysBoth DEF ProcessComplete
  <1>9. Sound(ProcessInfo)
    <2> DEFINE arrays == Pairs \o Named(Array(<< >>)) \o Named(Array(<<"values">>)) \o Member
               tables == arrays \o Pairs \o Pairs \o Pairs \o Named(Array(Pair \o Pair))
    <2>1. Moves("values", At("elements", 0, "none"), At("elements", 0, "none")) /\ "values" \in Steps
      <3>1. At("elements", 0, "none").place = "elements"
        BY <1>1, AtStages
      <3> QED
        BY <3>1 DEF Moves, Steps
    <2>2. Stays(Named(Array(<<"values">>)), "object", 0, "none")
      <3>1. Stays(<<"values">>, "elements", 0, "none")
        BY <1>1, <2>1, AtStages, ScriptOne DEF Stays
      <3> QED
        BY <1>5, <3>1
    <2>3. Stays(Named(Array(Pair \o Pair)), "object", 0, "none")
      BY <1>5, StaysBoth
    <2>4. Stays(arrays, "object", 0, "none")
      BY <1>5, <2>2, StaysBoth
    <2>5. Stays(tables, "object", 0, "none")
      <3> HIDE DEF arrays
      <3> QED
        BY <1>5, <2>3, <2>4, StaysBoth
    <2>6. Stays(tables \o Pairs \o Pairs \o Pairs \o Pairs, "object", 0, "none")
      <3> HIDE DEF tables
      <3> QED
        BY <1>5, <2>5, StaysBoth
    <2> QED
      BY <1>4, <2>6 DEF ProcessInfo
  <1>10. Sound(Array(<< >>) \o <<"finish">>)
    <2>1. OpensArray("start", "array") /\ ClosesArray("array", "done")
      BY DEF OpensArray, ClosesArray
    <2>2. Script(Array(<< >>), At("start", 0, "none"), At("done", 0, "none"))
      BY <1>1, <2>1, AtStages, ScriptNothing, ScriptArray
    <2>3. Script(<<"finish">>, At("done", 0, "none"), At("start", 1, "none"))
      <3>1. Moves("finish", At("done", 0, "none"), At("start", 1, "none")) /\ "finish" \in Steps
        BY <1>1, AtStages DEF Moves, Steps
      <3> QED
        BY <1>1, <3>1, AtStages, ScriptOne
    <2> QED
      BY <1>1, <2>2, <2>3, ScriptBoth
  <1>11. Sound(Reply(Named(Array(<< >>)) \o Member \o Member \o Member))
    BY <1>4, <1>5, StaysBoth
  <1>12. Sound(<<"gather">>)
    <2>1. Moves("gather", At("start", 0, "gathering"), At("start", 1, "none")) /\ "gather" \in Steps
      BY DEF Moves, Steps
    <2> QED
      BY <1>1, <2>1, AtStages, ScriptOne DEF Before
  <1>13. \A step \in {"listen heap", "listen stack"} :
            Script(<<step>>, At("start", 0, "none"), At("start", 0, "any"))
    <2> TAKE step \in {"listen heap", "listen stack"}
    <2>1. Moves(step, At("start", 0, "none"), At("start", 0, "any")) /\ step \in Steps
      BY DEF Moves, Steps
    <2> QED
      BY <1>1, <2>1, AtStages, ScriptOne
  <1>14. \A n \in 0 .. 1 : Script(<<"release">>, At("start", n, "any"), At("start", n, "none"))
    <2> TAKE n \in 0 .. 1
    <2>1. Moves("release", At("start", n, "any"), At("start", n, "none")) /\ "release" \in Steps
      BY DEF Moves, Steps, At
    <2> QED
      BY <1>1, <2>1, AtStages, ScriptOne
  <1>15. Sound(<<"listen heap">>
               \o Reply(Member \o Member \o Member \o Member \o Member \o Member \o Member)
               \o <<"release">>)
    <2> DEFINE members == Member \o Member \o Member \o Member \o Member \o Member \o Member
    <2>1. Stays(members, "object", 0, "any")
      BY <1>5, StaysBoth
    <2> HIDE DEF members
    <2>2. Script(Reply(members), At("start", 0, "any"), At("start", 1, "any"))
      BY <1>1, <2>1, ScriptReply DEF Stays
    <2>3. Script(<<"listen heap">> \o Reply(members), At("start", 0, "none"), At("start", 1, "any"))
      BY <1>13, <2>2, ScriptBoth
    <2>4. Sound(<<"listen heap">> \o Reply(members) \o <<"release">>)
      BY <1>1, <1>14, <2>3, ScriptBoth
    <2> QED
      BY <2>4 DEF members
  <1>16. Sound(<<"listen stack", "release">>)
    <2>1. <<"listen stack", "release">> = <<"listen stack">> \o <<"release">>
      <3> DEFINE a == <<"listen stack", "release">>
                 b == <<"listen stack">> \o <<"release">>
      <3>1. a \in Seq(Steps) /\ b \in Seq(Steps)
        BY DEF Steps
      <3>2. Len(a) = 2 /\ Len(b) = 2 /\ a[1] = b[1] /\ a[2] = b[2]
        OBVIOUS
      <3>3. \A i \in 1 .. 2 : a[i] = b[i]
        <4> HIDE DEF a, b
        <4> QED
          BY <3>2
      <3> HIDE DEF a, b
      <3>4. a = b
        BY <3>1, <3>2, <3>3
      <3> QED
        BY <3>4 DEF a, b
    <2> QED
      BY <1>1, <1>13, <1>14, <2>1, ScriptBoth
  <1>17. Sound(<<"graph">> \o Reply(Named(Array(<<"graphs">>))))
    <2>1. Script(<<"graph">>, At("start", 0, "graphing"), At("start", 0, "any"))
      <3>1. Moves("graph", At("start", 0, "graphing"), At("start", 0, "any")) /\ "graph" \in Steps
        BY DEF Moves, Steps
      <3> QED
        BY <1>1, <3>1, AtStages, ScriptOne
    <2>2. Script(<<"graphs">>, At("elements", 0, "any"), At("elements", 0, "none"))
      <3>1. /\ Moves("graphs", At("elements", 0, "any"), At("elements", 0, "none"))
            /\ "graphs" \in Steps
        BY DEF Moves, Steps, At
      <3> QED
        BY <1>1, <3>1, AtStages, ScriptOne
    <2>3. Script(Named(Array(<<"graphs">>)), At("object", 0, "any"), At("object", 0, "none"))
      <3>1. /\ OpensArray("member", "elements") /\ ClosesArray("elements", "object")
            /\ Names("object", "member") /\ "member" \in Place
        BY DEF OpensArray, ClosesArray, Names, Place, Outline
      <3>2. Script(Array(<<"graphs">>), At("member", 0, "any"), At("object", 0, "none"))
        BY <1>1, <2>2, <3>1, ScriptArray
      <3> QED
        BY <1>1, <3>1, <3>2, ScriptNamed
    <2>4. Script(Reply(Named(Array(<<"graphs">>))), At("start", 0, "any"), At("start", 1, "none"))
      BY <1>1, <2>3, ScriptReply
    <2> QED
      BY <1>1, <2>1, <2>4, ScriptBoth DEF Before
  <1> HIDE DEF Sound
  <1>18. CASE req \in {"load", "check", "frame", "setcomment", "setconf", "dumpconf", "unknown"}
    <2>1. script = << >>
      BY <1>18 DEF Handler, ProcessLoad, ProcessCheck, ProcessFrame, ProcessSetcomment,
                   ProcessSetconf, ProcessDumpconf
    <2> QED
      BY <1>2, <1>3, <2>1
  <1>19. CASE req \in {"status", "analyse", "info", "complete"}
    <2>1. script \in {ProcessStatus, ProcessAnalyse, ProcessInfo, ProcessComplete}
      BY <1>19 DEF Handler
    <2> QED
      BY <1>2, <1>6, <1>7, <1>8, <1>9, <2>1
  <1>20. CASE req \in {"frames", "intervals", "tap"}
    <2>1. script \in ProcessFrames \cup ProcessIntervals \cup ProcessTap
      BY <1>20 DEF Handler
    <2> QED
      BY <1>2, <1>3, <1>10, <1>11, <1>12, <2>1 DEF ProcessFrames, ProcessIntervals, ProcessTap
  <1>21. CASE req \in {"follow", "iograph", "download"}
    <2>1. script \in ProcessFollow \cup ProcessIograph \cup ProcessDownload
      BY <1>21 DEF Handler
    <2> QED
      BY <1>2, <1>3, <1>15, <1>16, <1>17, <2>1 DEF ProcessFollow, ProcessIograph, ProcessDownload
  <1> QED
    BY <1>18, <1>19, <1>20, <1>21 DEF Handler

-----------------------------------------------------------------------------
(***************************************************************************)
(* The calls of the dumper.                                                *)
(***************************************************************************)
Good == Inv /\ ~error /\ ~slipped

LEMMA DrawnSeq ==
    ASSUME NEW t \in Seq(Context)
    PROVE  Len(Drawn(t)) = Len(t) /\ \A i \in 1 .. Len(t) : Drawn(t)[i] = Kind[t[i]]
  BY DEF Drawn

LEMMA DrawnStep ==
    ASSUME NEW t \in Seq(Context), t # << >>, NEW table \in {AfterValue, AfterComma, AfterName},
           Top(t) \in DOMAIN table
    PROVE  /\ Step(t, table) \in Seq(Context)
           /\ Drawn(Step(t, table)) = [Drawn(t) EXCEPT ![Len(t)] = Kind[table[Top(t)]]]
  <1>1. table[Top(t)] \in Context
    BY DEF AfterValue, AfterComma, AfterName, Context
  <1>2. Step(t, table) = [t EXCEPT ![Len(t)] = table[Top(t)]]
    BY DEF Step
  <1>3. Len(t) \in Nat \ {0}
    OBVIOUS
  <1>4. Step(t, table) \in Seq(Context) /\ Len(Step(t, table)) = Len(t)
    BY <1>1, <1>2, <1>3
  <1>5. \A i \in 1 .. Len(t) : Step(t, table)[i] = IF i = Len(t) THEN table[Top(t)] ELSE t[i]
    BY <1>2, <1>3
  <1> DEFINE u == [Drawn(t) EXCEPT ![Len(t)] = Kind[table[Top(t)]]]
  <1>6. \A i \in 1 .. Len(t) : u[i] = Kind[Step(t, table)[i]]
    BY <1>3, <1>5 DEF Drawn
  <1>7. u = [i \in 1 .. Len(t) |-> u[i]]
    BY DEF Drawn
  <1>8. Drawn(Step(t, table)) = [i \in 1 .. Len(t) |-> u[i]]
    BY <1>4, <1>6 DEF Drawn
  <1> QED
    BY <1>4, <1>7, <1>8

LEMMA Outlines ==
    /\ Place = {"start", "done", "object", "member", "array", "elements", "element", "field", "inner"}
    /\ Outline["start"] = <<"start">> /\ Outline["done"] = <<"done">>
    /\ Outline["object"] = <<"done", "object">>
    /\ Outline["member"] = <<"done", "member">>
    /\ Outline["array"] = <<"done", "array">>
    /\ Outline["elements"] = <<"done", "object", "array">>
    /\ Outline["element"] = <<"done", "object", "array", "object">>
    /\ Outline["field"] = <<"done", "object", "array", "member">>
    /\ Outline["inner"] = <<"done", "object", "array", "object", "array">>
  BY DEF Place, Outline

LEMMA Depths ==
    /\ Len(Outline["start"]) = 1 /\ Len(Outline["done"]) = 1 /\ Len(Outline["object"]) = 2
    /\ Len(Outline["member"]) = 2 /\ Len(Outline["array"]) = 2
    /\ Len(Outline["elements"]) = 3 /\ Len(Outline["element"]) = 4
    /\ Len(Outline["field"]) = 4 /\ Len(Outline["inner"]) = 5
    /\ \A p \in Place : Len(Outline[p]) \in 1 .. 5
  <1>1. /\ Len(Outline["start"]) = 1 /\ Len(Outline["done"]) = 1 /\ Len(Outline["object"]) = 2
        /\ Len(Outline["member"]) = 2 /\ Len(Outline["array"]) = 2
        /\ Len(Outline["elements"]) = 3 /\ Len(Outline["element"]) = 4
        /\ Len(Outline["field"]) = 4 /\ Len(Outline["inner"]) = 5
    BY DEF Outline
  <1>2. Place = {"start", "done", "object", "member", "array", "elements", "element", "field", "inner"}
    BY Outlines
  <1> QED
    BY <1>1, <1>2

LEMMA SameSeq ==
    ASSUME NEW S, NEW s \in Seq(S), NEW t \in Seq(S), Len(s) = Len(t),
           \A i \in 1 .. Len(s) : s[i] = t[i]
    PROVE  s = t
  OBVIOUS

\* Where the text is, by the state of the dumper.
LEMMA WhereItIs ==
    ASSUME Good, NEW p \in Place, Drawn(text) = Outline[p]
    PROVE  /\ text \in Seq(Context) /\ text # << >> /\ text = Contexts
           /\ Len(text) = current_depth + 1
           /\ Len(Outline[p]) = current_depth + 1
           /\ Top(text) = ContextAt(current_depth)
           /\ Kind[ContextAt(current_depth)] = Outline[p][current_depth + 1]
           /\ current_depth \in 0 .. 4
  <1>1. StateOK /\ text = Contexts
    BY DEF Good, Inv
  <1>2. text \in Seq(Context) /\ Len(text) = current_depth + 1 /\ current_depth \in Nat
    BY <1>1, ContextsSeq, DumperAssumption DEF StateOK, Level
  <1>3. Top(text) = ContextAt(current_depth)
    BY <1>1, <1>2 DEF Top, Contexts
  <1>4. Len(Outline[p]) = current_depth + 1
    BY <1>2, DrawnSeq
  <1>5. Kind[ContextAt(current_depth)] = Outline[p][current_depth + 1]
    BY <1>2, <1>3, DrawnSeq DEF Top
  <1>6. Len(Outline[p]) \in 1 .. 5
    BY Depths
  <1> QED
    BY <1>1, <1>2, <1>3, <1>4, <1>5, <1>6

\* A comma does not change the place.
LEMMA PreparedDrawn ==
    ASSUME Good, NEW p \in Place, Drawn(text) = Outline[p]
    PROVE  /\ PreparedText \in Seq(Context) /\ Len(PreparedText) = current_depth + 1
           /\ Drawn(PreparedText) = Outline[p]
           /\ PreparedText = IF NeedsComma THEN FeedComma(text) ELSE text
  <1>1. StateOK /\ text = Contexts
    BY DEF Good, Inv
  <1>2. CASE ~NeedsComma
    BY <1>2, WhereItIs DEF PreparedText
  <1>3. CASE NeedsComma
    <2>1. ContextAt(current_depth) \in {"objn", "arrn"}
      BY <1>1, <1>3, DumperAssumption DEF StateOK, Level, NeedsComma, PrevState, ContextAt, Begun
    <2>2. Top(text) \in DOMAIN AfterComma /\ Kind[AfterComma[Top(text)]] = Kind[Top(text)]
      BY <2>1, WhereItIs DEF AfterComma, Kind
    <2>3. PreparedText = Step(text, AfterComma)
      BY <1>3 DEF PreparedText, FeedComma
    <2>4. /\ PreparedText \in Seq(Context)
          /\ Drawn(PreparedText) = [Drawn(text) EXCEPT ![Len(text)] = Kind[Top(text)]]
      BY <2>2, <2>3, WhereItIs, DrawnStep
    <2>5. Drawn(text)[Len(text)] = Kind[Top(text)] /\ Len(text) \in Nat \ {0}
      BY WhereItIs, DrawnSeq DEF Top
    <2>6. Drawn(PreparedText) = Drawn(text)
      BY <2>4, <2>5 DEF Drawn
    <2>7. Len(PreparedText) = Len(text)
      BY <2>4, <2>6, WhereItIs, DrawnSeq
    <2> QED
      BY <1>3, <2>4, <2>6, <2>7, WhereItIs DEF PreparedText
  <1> QED
    BY <1>2, <1>3

\* What a place allows.
LEMMA Allowed ==
    ASSUME Good, NEW p \in Place, Drawn(text) = Outline[p]
    PROVE  /\ p \in {"start", "member", "elements", "field"} =>
                 BeginAllowed /\ ~Misplaced /\ Top(PreparedText) \in DOMAIN AfterValue
           /\ p \in {"member", "elements", "field"} =>
                 ValueAllowed /\ Top(PreparedText) \in DOMAIN AfterValue
           /\ p \in {"object", "element"} =>
                 /\ EndAllowed("object") /\ Top(text) \in Closable["object"]
                 /\ NameAllowed /\ Top(PreparedText) \in DOMAIN AfterName
           /\ p \in {"array", "elements", "inner"} =>
                 EndAllowed("array") /\ Top(text) \in Closable["array"]
           /\ p \in {"start", "done"} => FinishAllowed
  <1>1. StateOK
    BY DEF Good, Inv
  <1> DEFINE c == ContextAt(current_depth)
  <1>2. /\ current_depth \in 0 .. 4 /\ Top(text) = c /\ text # << >>
        /\ Len(Outline[p]) = current_depth + 1 /\ Kind[c] = Outline[p][current_depth + 1]
    BY WhereItIs
  <1>3. /\ p \in {"start", "done"} => current_depth = 0
        /\ p \in {"object", "member", "array"} => current_depth = 1
        /\ p = "elements" => current_depth = 2
        /\ p \in {"element", "field"} => current_depth = 3
        /\ p = "inner" => current_depth = 4
    <2> DEFINE n == Len(Outline[p])
    <2>1. /\ p \in {"start", "done"} => n = 1
          /\ p \in {"object", "member", "array"} => n = 2
          /\ p = "elements" => n = 3
          /\ p \in {"element", "field"} => n = 4
          /\ p = "inner" => n = 5
      BY Depths
    <2>2. n = current_depth + 1 /\ current_depth \in 0 .. 4
      BY <1>2
    <2> HIDE DEF n
    <2> QED
      BY <2>1, <2>2
  <1>4. /\ p = "start" => Kind[c] = "start"
        /\ p \in {"object", "element"} => Kind[c] = "object"
        /\ p \in {"member", "field"} => Kind[c] = "member"
        /\ p \in {"array", "elements", "inner"} => Kind[c] = "array"
    BY <1>2, <1>3 DEF Outline
  <1>5. c \in {"start", "done", "objv", "obj0", "objn", "arr0", "arrn", "b64"}
    BY DEF ContextAt
  <1>6. /\ p = "start" => c = "start"
        /\ p \in {"object", "element"} => c \in {"obj0", "objn"}
        /\ p \in {"member", "field"} => c = "objv"
        /\ p \in {"array", "elements", "inner"} => c \in {"arr0", "arrn"}
    BY <1>4, <1>5 DEF Kind
  <1>7. /\ c = "start" => current_depth = 0 /\ ~Begun(0)
        /\ c \in {"obj0", "objn"} => /\ PrevState.type = "object" /\ ~PrevState.named
                                     /\ current_depth > 0 /\ (c = "objn" <=> Begun(current_depth))
        /\ c = "objv" => PrevState.type = "object" /\ PrevState.named /\ current_depth > 0
        /\ c \in {"arr0", "arrn"} => /\ PrevState.type = "array" /\ ~PrevState.named
                                     /\ current_depth > 0 /\ (c = "arrn" <=> Begun(current_depth))
    BY <1>1, <1>2, DumperAssumption DEF ContextAt, PrevState, StateOK, LevelsOK, Level
  <1>8. Begun(current_depth) <=> state[current_depth] # Zero
    BY <1>2 DEF Begun
  <1> HIDE DEF c
  <1>9. NeedsComma <=> c \in {"objn", "arrn"}
    BY <1>2, <1>5, <1>7, <1>8, <1>1, DumperAssumption
       DEF NeedsComma, c, ContextAt, PrevState, StateOK, Level
  <1>10. Len(text) \in Nat \ {0} /\ text[Len(text)] = c
    BY <1>2, WhereItIs DEF Top
  <1>11. Top(PreparedText) = IF NeedsComma THEN AfterComma[c] ELSE c
    <2>1. CASE NeedsComma
      <3>1. c \in DOMAIN AfterComma
        BY <1>9, <2>1 DEF AfterComma
      <3>2. PreparedText = [text EXCEPT ![Len(text)] = AfterComma[c]]
        BY <1>2, <2>1, <3>1 DEF PreparedText, FeedComma, Step
      <3>3. Len(PreparedText) = Len(text)
        BY <1>10, <3>2, WhereItIs
      <3> QED
        BY <1>10, <2>1, <3>2, <3>3, WhereItIs DEF Top
    <2>2. CASE ~NeedsComma
      BY <1>2, <2>2 DEF PreparedText
    <2> QED
      BY <2>1, <2>2
  <1>12. Top(PreparedText) = CASE c = "objn" -> "objc" [] c = "arrn" -> "arrc" [] OTHER -> c
    BY <1>9, <1>11 DEF AfterComma
  <1>13. p \in {"start", "member", "elements", "field"} =>
            BeginAllowed /\ ~Misplaced /\ Top(PreparedText) \in DOMAIN AfterValue
    <2> SUFFICES ASSUME p \in {"start", "member", "elements", "field"}
                 PROVE  BeginAllowed /\ ~Misplaced /\ Top(PreparedText) \in DOMAIN AfterValue
      OBVIOUS
    <2>1. BeginAllowed
      BY <1>3, SessionAssumption, DumperAssumption DEF BeginAllowed
    <2>2. ~Misplaced
      BY <1>3, <1>6, <1>7 DEF Misplaced, Begun, Zero, PrevState
    <2>3. Top(PreparedText) \in DOMAIN AfterValue
      BY <1>6, <1>12 DEF AfterValue
    <2> QED
      BY <2>1, <2>2, <2>3
  <1>14. p \in {"member", "elements", "field"} =>
            ValueAllowed /\ Top(PreparedText) \in DOMAIN AfterValue
    BY <1>6, <1>7, <1>12 DEF ValueAllowed, AfterValue
  <1>15. p \in {"object", "element"} =>
            /\ EndAllowed("object") /\ Top(text) \in Closable["object"]
            /\ NameAllowed /\ Top(PreparedText) \in DOMAIN AfterName
    BY <1>2, <1>6, <1>7, <1>12 DEF EndAllowed, NameAllowed, Closable, AfterName
  <1>16. p \in {"array", "elements", "inner"} =>
            EndAllowed("array") /\ Top(text) \in Closable["array"]
    BY <1>2, <1>6, <1>7 DEF EndAllowed, Closable
  <1>17. p \in {"start", "done"} => FinishAllowed
    BY <1>3 DEF FinishAllowed
  <1> QED
    BY <1>13, <1>14, <1>15, <1>16, <1>17

\* The last of a sequence is replaced.
Last(s, e) == [s EXCEPT ![Len(s)] = e]

LEMMA ValueKind ==
    ASSUME NEW p \in {"start", "member", "elements", "field"}, NEW c \in DOMAIN AfterValue,
           Kind[c] = Outline[p][Len(Outline[p])]
    PROVE  Last(Outline[p], Kind[AfterValue[c]]) =
              CASE p = "start" -> <<"done">>
                [] p = "member" -> <<"done", "object">>
                [] p = "elements" -> <<"done", "object", "array">>
                [] p = "field" -> <<"done", "object", "array", "object">>
  <1> DEFINE k == Kind[AfterValue[c]]
  <1>1. c \in {"start", "objv", "arr0", "arrc"}
    BY DEF AfterValue
  <1>2. CASE p = "start"
    <2>1. Outline[p] = <<"start">>
      BY <1>2, Outlines
    <2>2. k = "done"
      BY <1>1, <2>1 DEF Kind, AfterValue
    <2>3. [<<"start">> EXCEPT ![1] = "done"] = <<"done">>
      OBVIOUS
    <2> QED
      BY <1>2, <2>1, <2>2, <2>3 DEF Last
  <1>3. CASE p = "member"
    <2>1. Outline[p] = <<"done", "member">>
      BY <1>3, Outlines
    <2>2. k = "object"
      BY <1>1, <2>1 DEF Kind, AfterValue
    <2>3. [<<"done", "member">> EXCEPT ![2] = "object"] = <<"done", "object">>
      OBVIOUS
    <2> QED
      BY <1>3, <2>1, <2>2, <2>3 DEF Last
  <1>4. CASE p = "elements"
    <2>1. Outline[p] = <<"done", "object", "array">>
      BY <1>4, Outlines
    <2>2. k = "array"
      BY <1>1, <2>1 DEF Kind, AfterValue
    <2>3. [<<"done", "object", "array">> EXCEPT ![3] = "array"] = <<"done", "object", "array">>
      OBVIOUS
    <2> QED
      BY <1>4, <2>1, <2>2, <2>3 DEF Last
  <1>5. CASE p = "field"
    <2>1. Outline[p] = <<"done", "object", "array", "member">>
      BY <1>5, Outlines
    <2>2. k = "object"
      BY <1>1, <2>1 DEF Kind, AfterValue
    <2>3. [<<"done", "object", "array", "member">> EXCEPT ![4] = "object"]
             = <<"done", "object", "array", "object">>
      OBVIOUS
    <2> QED
      BY <1>5, <2>1, <2>2, <2>3 DEF Last
  <1> QED
    BY <1>2, <1>3, <1>4, <1>5

LEMMA BeginDrawn ==
    ASSUME Good, NEW p \in Place, NEW q \in Place, Drawn(text) = Outline[p],
           NEW type \in {"object", "array"}, Begin(type),
           IF type = "object" THEN Opens(p, q) ELSE OpensArray(p, q)
    PROVE  Good' /\ Drawn(text)' = Outline[q]
  <1>1. p \in {"start", "member", "elements", "field"}
    BY DEF Opens, OpensArray
  <1>2. BeginAllowed /\ ~Misplaced /\ Top(PreparedText) \in DOMAIN AfterValue
    BY <1>1, Allowed
  <1>3. /\ text' = FeedOpen(PreparedText, type)
        /\ slipped' = (slipped \/ Misplaced) /\ error' = error
    BY <1>2 DEF Begin, Rejected, Good
  <1>4. Good'
    <2>1. Inv'
      BY BeginInv DEF Good, Container
    <2> QED
      BY <1>2, <1>3, <2>1 DEF Good
  <1> DEFINE step == Step(PreparedText, AfterValue)
  <1>5. PreparedText \in Seq(Context) /\ PreparedText # << >> /\ Drawn(PreparedText) = Outline[p]
    BY PreparedDrawn, WhereItIs
  <1>6. step \in Seq(Context) /\ Drawn(step) = Last(Outline[p], Kind[AfterValue[Top(PreparedText)]])
    <2>1. Len(Outline[p]) = Len(PreparedText)
      BY <1>5, DrawnSeq
    <2> QED
      BY <1>2, <1>5, <2>1, DrawnStep DEF Last
  <1>7. Drawn(step) = CASE p = "start" -> <<"done">>
                        [] p = "member" -> <<"done", "object">>
                        [] p = "elements" -> <<"done", "object", "array">>
                        [] p = "field" -> <<"done", "object", "array", "object">>
    <2>1. Kind[Top(PreparedText)] = Outline[p][Len(Outline[p])]
      BY <1>5, DrawnSeq DEF Top
    <2> QED
      BY <1>1, <1>2, <1>6, <2>1, ValueKind
  <1> HIDE DEF step
  <1>8. text' = Append(step, Opened[type]) /\ Opened[type] \in Context
    BY <1>2, <1>3 DEF FeedOpen, step, Opened, Context
  <1>9. Drawn(text') = Append(Drawn(step), type)
    <2>1. Kind[Opened[type]] = type
      BY DEF Kind, Opened
    <2>2. /\ Len(text') = Len(step) + 1 /\ Len(step) \in Nat /\ Len(Drawn(step)) = Len(step)
          /\ \A i \in 1 .. Len(step) + 1 : text'[i] = IF i = Len(step) + 1 THEN Opened[type] ELSE step[i]
      BY <1>6, <1>8, DrawnSeq
    <2>3. \A i \in 1 .. Len(step) : Drawn(step)[i] = Kind[step[i]]
      BY <1>6, DrawnSeq
    <2>4. \A e \in Context : Kind[e] \in Kinds
      BY DEF Kind, Kinds, Context
    <2>5. Drawn(step) \in Seq(Kinds) /\ Drawn(text') \in Seq(Kinds) /\ Len(Drawn(text')) = Len(text')
      BY <1>6, <1>8, <2>2, <2>4 DEF Drawn
    <2>6. \A i \in 1 .. Len(text') : Drawn(text')[i] = Append(Drawn(step), type)[i]
      BY <2>1, <2>2, <2>3, <2>5 DEF Drawn
    <2>7. Append(Drawn(step), type) \in Seq(Kinds) /\ Len(Append(Drawn(step), type)) = Len(text')
      BY <2>1, <2>2, <2>5 DEF Kinds
    <2> QED
      BY <2>5, <2>6, <2>7, SameSeq
  <1>10. Append(Drawn(step), type) = Outline[q]
    <2>1. CASE p = "start"
      BY <1>7, <2>1 DEF Opens, OpensArray, Outline
    <2>2. CASE p = "member"
      BY <1>7, <2>2 DEF Opens, OpensArray, Outline
    <2>3. CASE p = "elements"
      BY <1>7, <2>3 DEF Opens, OpensArray, Outline
    <2>4. CASE p = "field"
      BY <1>7, <2>4 DEF Opens, OpensArray, Outline
    <2> QED
      BY <1>1, <2>1, <2>2, <2>3, <2>4
  <1> QED
    BY <1>4, <1>9, <1>10

LEMMA DrawnType ==
    ASSUME NEW t \in Seq(Context)
    PROVE  Drawn(t) \in Seq(Kinds)
  <1>1. \A e \in Context : Kind[e] \in Kinds
    BY DEF Kind, Kinds, Context
  <1> QED
    BY <1>1 DEF Drawn

LEMMA Fronts ==
    ASSUME NEW p \in Place, NEW q \in Place, Closes(p, q) \/ ClosesArray(p, q)
    PROVE  /\ Outline[q] \in Seq(Kinds) /\ Len(Outline[p]) = Len(Outline[q]) + 1
           /\ \A i \in 1 .. Len(Outline[q]) : Outline[p][i] = Outline[q][i]
  <1>1. CASE p \in {"object", "array"} /\ q = "done"
    BY <1>1, Outlines DEF Kinds
  <1>2. CASE p = "elements" /\ q = "object"
    BY <1>2, Outlines DEF Kinds
  <1>3. CASE p = "element" /\ q = "elements"
    BY <1>3, Outlines DEF Kinds
  <1>4. CASE p = "inner" /\ q = "element"
    BY <1>4, Outlines DEF Kinds
  <1> QED
    BY <1>1, <1>2, <1>3, <1>4 DEF Closes, ClosesArray

LEMMA EndDrawn ==
    ASSUME Good, NEW p \in Place, NEW q \in Place, Drawn(text) = Outline[p],
           NEW type \in {"object", "array"}, End(type),
           IF type = "object" THEN Closes(p, q) ELSE ClosesArray(p, q)
    PROVE  Good' /\ Drawn(text)' = Outline[q]
  <1>1. EndAllowed(type) /\ Top(text) \in Closable[type]
    <2>1. CASE type = "object"
      BY <2>1, Allowed DEF Closes
    <2>2. CASE type = "array"
      BY <2>2, Allowed DEF ClosesArray
    <2> QED
      BY <2>1, <2>2
  <1>2. text' = FeedClose(text, type) /\ slipped' = slipped /\ error' = error
    BY <1>1 DEF End, Rejected, Good
  <1>3. Good'
    <2>1. Inv'
      BY EndInv DEF Good, Container
    <2> QED
      BY <1>2, <2>1 DEF Good
  <1>4. text \in Seq(Context) /\ text # << >> /\ Len(text) = Len(Outline[p])
    BY WhereItIs, DrawnSeq
  <1>5. /\ text' = SubSeq(text, 1, Len(text) - 1) /\ text' \in Seq(Context)
        /\ Len(text') = Len(text) - 1 /\ \A i \in 1 .. Len(text) - 1 : text'[i] = text[i]
    BY <1>1, <1>2, <1>4 DEF FeedClose
  <1>6. /\ Outline[q] \in Seq(Kinds) /\ Len(Outline[p]) = Len(Outline[q]) + 1
        /\ \A i \in 1 .. Len(Outline[q]) : Outline[p][i] = Outline[q][i]
    BY Fronts
  <1>7. Drawn(text') \in Seq(Kinds) /\ Len(Drawn(text')) = Len(Outline[q])
    <2>1. Drawn(text') \in Seq(Kinds) /\ Len(Drawn(text')) = Len(text')
      BY <1>5, DrawnType, DrawnSeq
    <2>2. Len(Outline[q]) \in Nat
      BY <1>6
    <2> QED
      BY <1>4, <1>5, <1>6, <2>1, <2>2
  <1>8. \A i \in 1 .. Len(Outline[q]) : Drawn(text')[i] = Outline[q][i]
    <2>1. Len(Outline[q]) \in Nat /\ Len(text) - 1 = Len(Outline[q])
      BY <1>4, <1>6
    <2>2. \A i \in 1 .. Len(Outline[q]) : Drawn(text')[i] = Kind[text'[i]]
      BY <1>5, <2>1, DrawnSeq, ZenonT(60)
    <2>3. \A i \in 1 .. Len(Outline[q]) : Outline[p][i] = Kind[text[i]]
      BY <1>4, <2>1, DrawnSeq
    <2> QED
      BY <1>5, <1>6, <2>1, <2>2, <2>3
  <1>9. Drawn(text') = Outline[q]
    BY <1>6, <1>7, <1>8, SameSeq
  <1> QED
    BY <1>3, <1>9

LEMMA NameDrawn ==
    ASSUME Good, NEW p \in Place, NEW q \in Place, Drawn(text) = Outline[p],
           SetMemberName, Names(p, q)
    PROVE  Good' /\ Drawn(text)' = Outline[q]
  <1>1. NameAllowed /\ Top(PreparedText) \in DOMAIN AfterName
    BY Allowed DEF Names
  <1>2. text' = Step(PreparedText, AfterName) /\ slipped' = slipped /\ error' = error
    BY <1>1 DEF SetMemberName, Rejected, Good, FeedName
  <1>3. Good'
    <2>1. Inv'
      BY SetMemberNameInv DEF Good
    <2> QED
      BY <1>2, <2>1 DEF Good
  <1>4. /\ PreparedText \in Seq(Context) /\ PreparedText # << >>
        /\ Drawn(PreparedText) = Outline[p] /\ Len(PreparedText) = Len(Outline[p])
    BY PreparedDrawn, WhereItIs
  <1>5. Drawn(text') = Last(Outline[p], Kind[AfterName[Top(PreparedText)]])
    BY <1>1, <1>2, <1>4, DrawnStep DEF Last
  <1>6. Kind[AfterName[Top(PreparedText)]] = "member"
    BY <1>1 DEF AfterName, Kind
  <1>7. CASE p = "object"
    <2>1. [<<"done", "object">> EXCEPT ![2] = "member"] = <<"done", "member">>
      OBVIOUS
    <2> QED
      BY <1>3, <1>5, <1>6, <1>7, <2>1, Outlines DEF Last, Names
  <1>8. CASE p = "element"
    <2>1. [<<"done", "object", "array", "object">> EXCEPT ![4] = "member"]
             = <<"done", "object", "array", "member">>
      OBVIOUS
    <2>2. q = "field" /\ Outline[p] = <<"done", "object", "array", "object">>
      BY <1>8, Outlines DEF Names
    <2>3. Drawn(text') = <<"done", "object", "array", "member">>
      BY <1>5, <1>6, <2>1, <2>2 DEF Last
    <2> QED
      BY <1>3, <2>2, <2>3, Outlines
  <1> QED
    BY <1>7, <1>8 DEF Names

LEMMA ValueDrawn ==
    ASSUME Good, NEW p \in Place, NEW q \in Place, Drawn(text) = Outline[p],
           Value, Fills(p, q)
    PROVE  Good' /\ Drawn(text)' = Outline[q]
  <1>1. ValueAllowed /\ Top(PreparedText) \in DOMAIN AfterValue
    BY Allowed DEF Fills
  <1>2. text' = Step(PreparedText, AfterValue) /\ slipped' = slipped /\ error' = error
    BY <1>1 DEF Value, Rejected, Good, FeedValue
  <1>3. Good'
    <2>1. Inv'
      BY ValueInv DEF Good
    <2> QED
      BY <1>2, <2>1 DEF Good
  <1>4. /\ PreparedText \in Seq(Context) /\ PreparedText # << >>
        /\ Drawn(PreparedText) = Outline[p] /\ Len(PreparedText) = Len(Outline[p])
    BY PreparedDrawn, WhereItIs
  <1>5. Drawn(text') = Last(Outline[p], Kind[AfterValue[Top(PreparedText)]])
    BY <1>1, <1>2, <1>4, DrawnStep DEF Last
  <1>6. Kind[Top(PreparedText)] = Outline[p][Len(Outline[p])]
    BY <1>4, DrawnSeq DEF Top
  <1>7. Drawn(text') = CASE p = "start" -> <<"done">>
                         [] p = "member" -> <<"done", "object">>
                         [] p = "elements" -> <<"done", "object", "array">>
                         [] p = "field" -> <<"done", "object", "array", "object">>
    <2>1. p \in {"start", "member", "elements", "field"}
      BY DEF Fills
    <2> QED
      BY <1>1, <1>5, <1>6, <2>1, ValueKind
  <1>8. Drawn(text') = Outline[q]
    <2>1. CASE p = "member"
      BY <1>7, <2>1, Outlines DEF Fills
    <2>2. CASE p = "elements"
      BY <1>7, <2>2, Outlines DEF Fills
    <2>3. CASE p = "field"
      BY <1>7, <2>3, Outlines DEF Fills
    <2> QED
      BY <2>1, <2>2, <2>3 DEF Fills
  <1> QED
    BY <1>3, <1>8

\* At the end of a line the text says which it is.
LEMMA FinishDrawn ==
    ASSUME Good, NEW p \in {"start", "done"}, Drawn(text) = Outline[p], Finish
    PROVE  Good' /\ Drawn(text)' = Outline["start"] /\ (text = Start <=> p = "start")
  <1>1. p \in Place
    BY Outlines
  <1>2. FinishAllowed
    BY <1>1, Allowed
  <1>3. text' = FeedNewline(text) /\ slipped' = slipped /\ error' = error
    BY <1>2 DEF Finish, Rejected, Good
  <1>4. Good'
    <2>1. Inv'
      BY FinishInv DEF Good
    <2> QED
      BY <1>3, <2>1 DEF Good
  <1>5. text \in Seq(Context) /\ Len(text) = 1 /\ Kind[text[1]] = p
    <2>1. Len(Outline[p]) = 1 /\ Outline[p][1] = p
      BY Outlines
    <2>2. text \in Seq(Context)
      BY <1>1, WhereItIs
    <2> QED
      BY <2>1, <2>2, DrawnSeq
  <1>6. text[1] = p
    <2>1. text[1] \in Context
      BY <1>5
    <2> QED
      BY <1>5, <2>1 DEF Context, Kind
  <1>7. text = <<p>>
    <2>1. <<p>> \in Seq(Context) /\ Len(<<p>>) = 1 /\ <<p>>[1] = p
      BY DEF Context
    <2> QED
      BY <1>5, <1>6, <2>1, SameSeq
  <1>8. text' = Start
    BY <1>3, <1>7 DEF FeedNewline, Start
  <1>9. Drawn(Start) = Outline["start"]
    <2>1. Start \in Seq(Context) /\ Len(Start) = 1 /\ Start[1] = "start"
      BY DEF Start, Context
    <2>2. Drawn(Start) \in Seq(Kinds) /\ Len(Drawn(Start)) = 1 /\ Drawn(Start)[1] = "start"
      BY <2>1, DrawnType, DrawnSeq DEF Kind
    <2>3. <<"start">> \in Seq(Kinds) /\ Len(<<"start">>) = 1 /\ <<"start">>[1] = "start"
      BY DEF Kinds
    <2>4. Drawn(Start) = <<"start">>
      BY <2>2, <2>3, SameSeq
    <2> QED
      BY <2>4, Outlines
  <1>10. text = Start <=> p = "start"
    BY <1>7 DEF Start
  <1> QED
    BY <1>4, <1>8, <1>9, <1>10

-----------------------------------------------------------------------------
(***************************************************************************)
(* Listeners and what the handler returns.                                 *)
(***************************************************************************)
CountIn(s, S) == Cardinality({k \in DOMAIN s : s[k] \in S})

LEMMA CountFinite ==
    ASSUME NEW T, NEW s \in Seq(T), NEW S
    PROVE  IsFiniteSet({k \in DOMAIN s : s[k] \in S}) /\ CountIn(s, S) \in Nat
  <1> DEFINE A == {k \in DOMAIN s : s[k] \in S}
  <1>1. A \in SUBSET (1 .. Len(s)) /\ Len(s) \in Int
    OBVIOUS
  <1>2. IsFiniteSet(1 .. Len(s))
    BY <1>1, FS_Interval
  <1> HIDE DEF A
  <1>3. IsFiniteSet(A)
    BY <1>1, <1>2, FS_Subset
  <1>4. Cardinality(A) \in Nat
    BY <1>3, FS_CardinalityType
  <1> QED
    BY <1>3, <1>4 DEF A, CountIn

\* t is s without its j-th.
Lacks(t, s, j) ==
    /\ Len(t) + 1 = Len(s)
    /\ \A k \in 1 .. Len(t) : t[k] = s[IF k < j THEN k ELSE k + 1]

LEMMA CountWithout ==
    ASSUME NEW T, NEW s \in Seq(T), NEW t \in Seq(T), NEW j \in 1 .. Len(s), Lacks(t, s, j), NEW S
    PROVE  CountIn(s, S) = CountIn(t, S) + (IF s[j] \in S THEN 1 ELSE 0)
  <1> DEFINE A == {k \in DOMAIN s : s[k] \in S}
             B == {k \in DOMAIN t : t[k] \in S}
             to(k) == IF k < j THEN k ELSE k + 1
             f == [k \in B |-> to(k)]
  <1>1. /\ Len(t) \in Nat /\ Len(s) = Len(t) + 1 /\ j \in 1 .. Len(t) + 1
        /\ DOMAIN s = 1 .. Len(t) + 1 /\ DOMAIN t = 1 .. Len(t)
    BY DEF Lacks
  <1>2. \A k \in 1 .. Len(t) : t[k] = s[to(k)] /\ to(k) \in (1 .. Len(t) + 1) \ {j}
    BY <1>1 DEF Lacks
  <1>3. f \in [B -> A \ {j}]
    BY <1>1, <1>2
  <1>4. \A a, b \in B : f[a] = f[b] => a = b
    BY <1>1
  <1>5. ASSUME NEW k \in A \ {j} PROVE \E b \in B : f[b] = k
    <2> DEFINE b == IF k < j THEN k ELSE k - 1
    <2>1. k \in 1 .. Len(t) + 1 /\ k # j /\ s[k] \in S
      BY <1>1
    <2>2. b \in 1 .. Len(t) /\ to(b) = k
      BY <1>1, <2>1
    <2>3. t[b] \in S
      BY <1>2, <2>1, <2>2
    <2>4. b \in B
      BY <1>1, <2>2, <2>3
    <2> QED
      BY <2>2, <2>4
  <1>6. IsFiniteSet(A) /\ IsFiniteSet(B)
    BY CountFinite
  <1> HIDE DEF A, B, f
  <1>7. ExistsBijection(B, A \ {j})
    <2>1. \A a, b \in DOMAIN f : f[a] = f[b] => a = b
      BY <1>3, <1>4
    <2>2. f \in Bijection(B, A \ {j})
      BY <1>3, <1>4, <1>5 DEF Bijection, Injection, Surjection, IsInjective
    <2> QED
      BY <2>2 DEF ExistsBijection
  <1>8. Cardinality(A \ {j}) = Cardinality(B)
    BY <1>6, <1>7, FS_Bijection
  <1>9. Cardinality(A \ {j}) = IF j \in A THEN Cardinality(A) - 1 ELSE Cardinality(A)
    BY <1>6, FS_RemoveElement
  <1>10. Cardinality(A) \in Nat /\ Cardinality(B) \in Nat
    BY <1>6, FS_CardinalityType
  <1>11. j \in A <=> s[j] \in S
    BY <1>1 DEF A
  <1>12. Cardinality(A) = Cardinality(B) + (IF s[j] \in S THEN 1 ELSE 0)
    BY <1>8, <1>9, <1>10, <1>11
  <1> QED
    BY <1>12 DEF CountIn, A, B

LEMMA CountSome ==
    ASSUME NEW T, NEW s \in Seq(T), NEW S
    PROVE  CountIn(s, S) = 0 <=> \A k \in DOMAIN s : s[k] \notin S
  <1> DEFINE A == {k \in DOMAIN s : s[k] \in S}
  <1>1. IsFiniteSet(A)
    BY CountFinite
  <1>2. A = {} <=> \A k \in DOMAIN s : s[k] \notin S
    OBVIOUS
  <1> HIDE DEF A
  <1>3. Cardinality(A) = 0 <=> A = {}
    BY <1>1, FS_EmptySet
  <1> QED
    BY <1>2, <1>3 DEF CountIn, A

LEMMA LacksLast ==
    ASSUME NEW T, NEW s \in Seq(T), NEW e \in T
    PROVE  /\ Append(s, e) \in Seq(T) /\ Len(Append(s, e)) = Len(s) + 1
           /\ Append(s, e)[Len(s) + 1] = e /\ Len(s) \in Nat
           /\ \A k \in 1 .. Len(s) : Append(s, e)[k] = s[k]
           /\ Lacks(s, Append(s, e), Len(s) + 1)
  BY DEF Lacks

LEMMA LacksFirst ==
    ASSUME NEW T, NEW s \in Seq(T), s # << >>
    PROVE  /\ Tail(s) \in Seq(T) /\ Len(Tail(s)) + 1 = Len(s) /\ Head(s) = s[1]
           /\ Len(Tail(s)) \in Nat /\ 1 \in 1 .. Len(s)
           /\ \A k \in 1 .. Len(Tail(s)) : Tail(s)[k] = s[k + 1] /\ k + 1 \in DOMAIN s
           /\ Lacks(Tail(s), s, 1)
  BY DEF Lacks

LEMMA LacksPrepended ==
    ASSUME NEW T, NEW s \in Seq(T), NEW e \in T
    PROVE  /\ <<e>> \o s \in Seq(T) /\ 1 \in 1 .. Len(<<e>> \o s)
           /\ (<<e>> \o s)[1] = e /\ Lacks(s, <<e>> \o s, 1)
  <1>1. <<e>> \in Seq(T) /\ Len(<<e>>) = 1 /\ <<e>>[1] = e
    OBVIOUS
  <1>2. <<e>> \o s \in Seq(T) /\ Len(<<e>> \o s) = 1 + Len(s) /\ Len(s) \in Nat
    BY <1>1
  <1>3. (<<e>> \o s)[1] = e
    BY <1>1, <1>2
  <1>4. \A k \in 1 .. Len(s) : (<<e>> \o s)[k + 1] = s[k]
    BY <1>1, <1>2
  <1> QED
    BY <1>2, <1>3, <1>4 DEF Lacks

LEMMA Joined ==
    ASSUME NEW T, NEW a \in Seq(T), NEW b \in Seq(T)
    PROVE  /\ a \o b \in Seq(T) /\ Len(a \o b) = Len(a) + Len(b)
           /\ \A k \in 1 .. Len(a) : (a \o b)[k] = a[k]
           /\ \A k \in 1 .. Len(b) : (a \o b)[Len(a) + k] = b[k]
  OBVIOUS

LEMMA LacksRemoved ==
    ASSUME NEW T, NEW s \in Seq(T), NEW p \in DOMAIN s
    PROVE  Taps!RemoveAt(s, p) \in Seq(T) /\ p \in 1 .. Len(s) /\ Lacks(Taps!RemoveAt(s, p), s, p)
  <1>1. Len(s) \in Nat /\ p \in 1 .. Len(s)
    OBVIOUS
  <1> DEFINE a == SubSeq(s, 1, p - 1)
             b == SubSeq(s, p + 1, Len(s))
  <1>2. a \in Seq(T) /\ Len(a) = p - 1 /\ \A k \in 1 .. p - 1 : a[k] = s[k]
    BY <1>1
  <1>3. b \in Seq(T) /\ Len(b) = Len(s) - p /\ \A k \in 1 .. Len(s) - p : b[k] = s[p + k]
    BY <1>1
  <1>4. Taps!RemoveAt(s, p) = a \o b
    BY DEF Taps!RemoveAt
  <1> HIDE DEF a, b
  <1>5. a \o b \in Seq(T) /\ Len(a \o b) = Len(s) - 1
    <2>1. a \o b \in Seq(T) /\ Len(a \o b) = Len(a) + Len(b)
      BY <1>2, <1>3, Joined
    <2> QED
      BY <1>1, <1>2, <1>3, <2>1
  <1>6. ASSUME NEW k \in 1 .. Len(a \o b) PROVE (a \o b)[k] = s[IF k < p THEN k ELSE k + 1]
    <2>1. k \in 1 .. Len(s) - 1
      BY <1>1, <1>5
    <2>2. CASE k < p
      <3>1. (a \o b)[k] = a[k]
        BY <1>1, <1>2, <1>3, <2>1, <2>2, Joined
      <3> QED
        BY <1>1, <1>2, <2>1, <2>2, <3>1
    <2>3. CASE k >= p
      <3> DEFINE i == k - (p - 1)
      <3>0. i \in 1 .. Len(s) - p /\ k = (p - 1) + i
        BY <1>1, <2>1, <2>3
      <3>1. (a \o b)[k] = b[i]
        <4> HIDE DEF i
        <4> QED
          BY <1>2, <1>3, <3>0, Joined, SMTT(30)
      <3>2. b[i] = s[k + 1]
        <4>1. p + i = k + 1
          BY <1>1, <2>1, <3>0
        <4> HIDE DEF i
        <4>2. b[i] = s[p + i]
          BY <1>3, <3>0
        <4> QED
          BY <4>1, <4>2
      <3> QED
        BY <1>1, <2>1, <2>3, <3>1, <3>2
    <2> QED
      BY <1>1, <2>1, <2>2, <2>3
  <1> QED
    BY <1>1, <1>4, <1>5, <1>6 DEF Lacks

Listened ==
    [data : Int, tap_id : Nat, needs_redraw : BOOLEAN, failed : BOOLEAN, code : {0},
     name : Name, undrawn : BOOLEAN, got : {<< >>}]

Holdings == [data : Int, failed : BOOLEAN, null : BOOLEAN]

With(d) == {l \in Listened : l.data = d}
Owed(d) == {x \in Holdings : x.data = d /\ ~x.null /\ ~x.failed}

TapsTyped ==
    /\ tap_dissector_list \in Seq(Name)
    /\ tap_listener_queue \in Seq(Listened)
    /\ taps \in Seq(Holdings)

\* Listeners are as many as are owed. Only data on the stack may be returned
\* twice, and none of these failed.
Books ==
    /\ \A d \in Int : CountIn(tap_listener_queue, With(d)) = CountIn(taps, Owed(d))
    /\ \A j, k \in DOMAIN taps :
          j # k /\ ~taps[j].null /\ ~taps[k].null /\ taps[j].data = taps[k].data =>
              taps[j].data <= 0 /\ ~taps[j].failed
    /\ \A d \in Int : d \in live <=> d > 0 /\ \E k \in DOMAIN taps : ~taps[k].null /\ taps[k].data = d
    /\ live \subseteq Int
    /\ \A k \in DOMAIN taps : taps[k].null => taps[k].data = 0

\* What is known of taps by each name.
HeldAs(h) ==
    /\ h = "none" => taps = << >>
    /\ h = "some" => taps # << >>
    /\ h = "gathering" => \A k \in DOMAIN taps : taps[k].data \in {0, k} /\ ~taps[k].failed
    /\ h = "graphing" => \A k \in DOMAIN taps : taps[k].data = 1 - k /\ ~taps[k].null

LEMMA Least ==
    ASSUME NEW S \in SUBSET Nat, S # {}
    PROVE  \E n \in S : \A m \in S : n <= m
  <1>1. IsWellFoundedOn(OpToRel(<, Nat), Nat)
    BY NatLessThanWellFounded
  <1>2. PICK n \in S : \A m \in S : <<m, n>> \notin OpToRel(<, Nat)
    BY <1>1, WFMin
  <1>3. ASSUME NEW m \in S PROVE n <= m
    <2>1. n \in Nat /\ m \in Nat /\ ~(m < n)
      BY <1>2 DEF OpToRel
    <2> QED
      BY <2>1
  <1> QED
    BY <1>3

\* The listener that is found, if there is one.
LEMMA FirstIs ==
    ASSUME TapsTyped, NEW d \in Int
    PROVE  IF CountIn(tap_listener_queue, With(d)) = 0 THEN Taps!FirstWith(d) = 0
           ELSE /\ Taps!FirstWith(d) \in DOMAIN tap_listener_queue
                /\ tap_listener_queue[Taps!FirstWith(d)].data = d
                /\ Taps!FirstWith(d) # 0
  <1> DEFINE q == tap_listener_queue
             with == {k \in DOMAIN q : q[k].data = d}
  <1>1. q \in Seq(Listened) /\ with \in SUBSET Nat /\ 0 \notin with
    BY DEF TapsTyped
  <1>2. \A k \in DOMAIN q : q[k] \in With(d) <=> k \in with
    BY <1>1 DEF With
  <1>3. CountIn(q, With(d)) = 0 <=> with = {}
    BY <1>1, <1>2, CountSome
  <1>4. Taps!FirstWith(d) = IF with = {} THEN 0 ELSE CHOOSE k \in with : \A j \in with : k <= j
    BY DEF Taps!FirstWith, Taps!Positions
  <1>5. with \subseteq DOMAIN q /\ \A k \in with : q[k].data = d
    OBVIOUS
  <1> HIDE DEF with
  <1>6. with # {} => \E k \in with : \A j \in with : k <= j
    BY <1>1, Least
  <1>7. with # {} => Taps!FirstWith(d) \in with
    BY <1>4, <1>6
  <1> QED
    BY <1>1, <1>3, <1>4, <1>5, <1>7

LEMMA FoundTap ==
    ASSUME TapsTyped, NEW name, Taps!FindTapId(name) # 0
    PROVE  Taps!FindTapId(name) \in Nat
  <1>1. Taps!Contains(tap_dissector_list, name)
    BY DEF Taps!FindTapId
  <1>2. DOMAIN tap_dissector_list \subseteq Nat
    BY DEF TapsTyped
  <1>3. \E id \in DOMAIN tap_dissector_list : tap_dissector_list[id] = name
    BY <1>1 DEF Taps!Contains, TapsTyped
  <1> QED
    BY <1>1, <1>2, <1>3 DEF Taps!FindTapId

\* One more is kept that differs from the others, or is on the stack.
LEMMA AppendBooks ==
    ASSUME TapsTyped, Books, NEW x \in Holdings, taps' = Append(taps, x),
           x.null => x.data = 0,
           \A k \in DOMAIN taps : ~taps[k].null /\ ~x.null /\ taps[k].data = x.data =>
                x.data <= 0 /\ ~x.failed /\ ~taps[k].failed,
           live' = live \cup (IF x.data > 0 THEN {x.data} ELSE {}),
           IF x.null \/ x.failed THEN UNCHANGED tap_listener_queue
           ELSE \E l \in Listened : /\ l.data = x.data
                                    /\ tap_listener_queue' = <<l>> \o tap_listener_queue
    PROVE  Books' /\ (taps \in Seq(Holdings))' /\ (tap_listener_queue \in Seq(Listened))'
  <1> DEFINE q == tap_listener_queue
  <1>1. /\ taps \in Seq(Holdings) /\ q \in Seq(Listened)
    BY DEF TapsTyped
  <1>2. /\ taps' \in Seq(Holdings) /\ Len(taps') = Len(taps) + 1 /\ Len(taps) \in Nat
        /\ taps'[Len(taps) + 1] = x /\ \A k \in 1 .. Len(taps) : taps'[k] = taps[k]
        /\ Lacks(taps, taps', Len(taps) + 1)
    BY <1>1, LacksLast
  <1>3. /\ DOMAIN taps = 1 .. Len(taps) /\ DOMAIN taps' = 1 .. Len(taps) + 1
    BY <1>1, <1>2
  <1>4. \A d \in Int : CountIn(taps', Owed(d)) = CountIn(taps, Owed(d)) + (IF x \in Owed(d) THEN 1 ELSE 0)
    <2> DEFINE j == Len(taps) + 1
    <2>1. j \in 1 .. Len(taps') /\ taps'[j] = x /\ Lacks(taps, taps', j)
      BY <1>2
    <2>2. taps \in Seq(Holdings) /\ taps' \in Seq(Holdings)
      BY <1>1, <1>2
    <2> HIDE DEF j
    <2>3. ASSUME NEW S
          PROVE  CountIn(taps', S) = CountIn(taps, S) + (IF taps'[j] \in S THEN 1 ELSE 0)
      BY ONLY <2>1, <2>2, CountWithout
    <2> QED
      BY <2>1, <2>3
  <1>5. /\ q' \in Seq(Listened)
        /\ \A d \in Int : CountIn(q', With(d)) = CountIn(q, With(d)) + (IF x \in Owed(d) THEN 1 ELSE 0)
    <2>1. CASE x.null \/ x.failed
      <3>1. q' = q
        BY <2>1
      <3>2. \A d \in Int : x \notin Owed(d) /\ CountIn(q, With(d)) \in Nat
        BY <1>1, <2>1, CountFinite DEF Owed
      <3> QED
        BY <1>1, <3>1, <3>2
    <2>2. CASE ~x.null /\ ~x.failed
      <3>1. PICK l \in Listened : l.data = x.data /\ q' = <<l>> \o q
        BY <2>2
      <3>2. q' \in Seq(Listened) /\ 1 \in 1 .. Len(q') /\ q'[1] = l /\ Lacks(q, q', 1)
        BY <1>1, <3>1, LacksPrepended
      <3>3. \A d \in Int : CountIn(q', With(d)) = CountIn(q, With(d)) + (IF l \in With(d) THEN 1 ELSE 0)
        BY <1>1, <3>2, CountWithout
      <3>4. \A d \in Int : l \in With(d) <=> x \in Owed(d)
        BY <2>2, <3>1 DEF With, Owed
      <3> QED
        BY <3>2, <3>3, <3>4
    <2> QED
      BY <2>1, <2>2 DEF Holdings
  <1>6. \A d \in Int : CountIn(q', With(d)) = CountIn(taps', Owed(d))
    BY <1>4, <1>5 DEF Books
  <1>7. \A j, k \in DOMAIN taps' :
          j # k /\ ~taps'[j].null /\ ~taps'[k].null /\ taps'[j].data = taps'[k].data =>
              taps'[j].data <= 0 /\ ~taps'[j].failed
    <2> SUFFICES ASSUME NEW j \in DOMAIN taps', NEW k \in DOMAIN taps', j # k,
                        ~taps'[j].null, ~taps'[k].null, taps'[j].data = taps'[k].data
                 PROVE  taps'[j].data <= 0 /\ ~taps'[j].failed
      OBVIOUS
    <2>1. CASE j \in DOMAIN taps /\ k \in DOMAIN taps
      BY <1>2, <1>3, <2>1 DEF Books
    <2>2. CASE j = Len(taps) + 1
      <3>1. k \in DOMAIN taps /\ taps'[k] = taps[k] /\ taps'[j] = x
        BY <1>2, <1>3, <2>2
      <3> QED
        BY <3>1
    <2>3. CASE k = Len(taps) + 1
      <3>1. j \in DOMAIN taps /\ taps'[j] = taps[j] /\ taps'[k] = x
        BY <1>2, <1>3, <2>3
      <3> QED
        BY <3>1
    <2> QED
      BY <1>2, <1>3, <2>1, <2>2, <2>3
  <1>8. x.data \in Int /\ live' \subseteq Int
    BY DEF Books, Holdings
  <1>9. \A d \in Int : d \in live' <=> d > 0 /\ \E k \in DOMAIN taps' : ~taps'[k].null /\ taps'[k].data = d
    <2> TAKE d \in Int
    <2>1. d \in live <=> d > 0 /\ \E k \in DOMAIN taps : ~taps[k].null /\ taps[k].data = d
      BY DEF Books
    <2>2. d \in live' <=> d \in live \/ (d > 0 /\ x.data = d)
      OBVIOUS
    <2>3. x.data = d /\ d > 0 => ~x.null
      OBVIOUS
    <2>4. (\E k \in DOMAIN taps' : ~taps'[k].null /\ taps'[k].data = d) <=>
              \/ \E k \in DOMAIN taps : ~taps[k].null /\ taps[k].data = d
              \/ ~x.null /\ x.data = d
      <3>1. Len(taps) + 1 \in DOMAIN taps' /\ DOMAIN taps \subseteq DOMAIN taps'
        BY <1>2, <1>3
      <3>2. \A k \in DOMAIN taps' : k = Len(taps) + 1 \/ k \in DOMAIN taps
        BY <1>2, <1>3
      <3> QED
        BY <1>2, <1>3, <3>1, <3>2
    <2> QED
      BY <2>1, <2>2, <2>3, <2>4
  <1>10. \A k \in DOMAIN taps' : taps'[k].null => taps'[k].data = 0
    BY <1>2, <1>3 DEF Books
  <1> QED
    BY <1>2, <1>5, <1>6, <1>7, <1>8, <1>9, <1>10 DEF Books

\* The oldest is returned.
LEMMA DropBooks ==
    ASSUME TapsTyped, Books, taps # << >>, taps' = Tail(taps), live' = live \ {Head(taps).data},
           IF Head(taps).null THEN UNCHANGED tapVars ELSE RemoveListener(Head(taps).data)
    PROVE  TapsTyped' /\ Books'
  <1> DEFINE q == tap_listener_queue
             x == Head(taps)
             j == Taps!FirstWith(x.data)
  <1>1. /\ taps \in Seq(Holdings) /\ q \in Seq(Listened)
    BY DEF TapsTyped
  <1>2. /\ taps' \in Seq(Holdings) /\ Len(taps') + 1 = Len(taps) /\ x = taps[1]
        /\ Len(taps') \in Nat /\ 1 \in 1 .. Len(taps) /\ Lacks(taps', taps, 1)
        /\ \A k \in 1 .. Len(taps') : taps'[k] = taps[k + 1] /\ k + 1 \in DOMAIN taps
    BY <1>1, LacksFirst
  <1>3. DOMAIN taps = 1 .. Len(taps') + 1 /\ DOMAIN taps' = 1 .. Len(taps') /\ x \in Holdings
    BY <1>1, <1>2
  <1>4. \A d \in Int : CountIn(taps, Owed(d)) = CountIn(taps', Owed(d)) + (IF x \in Owed(d) THEN 1 ELSE 0)
    <2>1. ASSUME NEW S
          PROVE  CountIn(taps, S) = CountIn(taps', S) + (IF taps[1] \in S THEN 1 ELSE 0)
      BY ONLY <1>1, <1>2, <2>1, CountWithout
    <2> QED
      BY <1>2, <2>1
  <1>5. x.data \in Int /\ x.null \in BOOLEAN /\ x.failed \in BOOLEAN
    BY <1>3 DEF Holdings
  <1>6. /\ tap_dissector_list' = tap_dissector_list /\ q' \in Seq(Listened)
        /\ \A d \in Int : CountIn(q, With(d)) = CountIn(q', With(d)) + (IF x \in Owed(d) THEN 1 ELSE 0)
    <2>1. CASE x.null \/ x.failed
      <3>1. \A d \in Int : x \notin Owed(d) /\ CountIn(q, With(d)) \in Nat
        BY <1>1, <2>1, CountFinite DEF Owed
      <3>2. UNCHANGED tapVars
        <4>1. CASE x.null
          BY <4>1
        <4>2. CASE ~x.null
          <5>1. \A k \in DOMAIN taps : taps[k] \notin Owed(x.data)
            <6> TAKE k \in DOMAIN taps
            <6>1. CASE k = 1
              BY <1>2, <2>1, <6>1 DEF Owed
            <6>2. CASE k # 1
              <7>1. ~taps[k].null /\ taps[k].data = x.data => ~x.failed
                BY <1>2, <1>3, <4>2, <6>2 DEF Books
              <7> QED
                BY <2>1, <4>2, <7>1 DEF Owed
            <6> QED
              BY <6>1, <6>2
          <5>2. CountIn(taps, Owed(x.data)) = 0
            BY <1>1, <5>1, CountSome
          <5>3. CountIn(q, With(x.data)) = 0
            BY <1>5, <5>2 DEF Books
          <5>4. Taps!FirstWith(x.data) = 0
            BY <1>5, <5>3, FirstIs
          <5> QED
            BY <4>2, <5>4 DEF RemoveListener
        <4> QED
          BY <1>5, <4>1, <4>2
      <3>3. q' = q /\ tap_dissector_list' = tap_dissector_list
        BY <3>2 DEF tapVars
      <3> HIDE DEF q, x
      <3> QED
        BY <1>1, <3>1, <3>3
    <2>2. CASE ~x.null /\ ~x.failed
      <3>1. x \in Owed(x.data)
        BY <1>3, <2>2 DEF Owed
      <3>2. CountIn(taps, Owed(x.data)) # 0
        BY <1>1, <1>2, <1>3, <3>1, CountSome
      <3>3. CountIn(q, With(x.data)) # 0
        BY <1>5, <3>2 DEF Books
      <3>4. j \in DOMAIN q /\ q[j].data = x.data /\ j # 0
        BY <1>5, <3>3, FirstIs
      <3>5. Taps!RemoveTapListener(x.data)
        BY <2>2, <3>4 DEF RemoveListener
      <3> HIDE DEF j
      <3>6. q' = Taps!RemoveAt(q, j) /\ tap_dissector_list' = tap_dissector_list
        BY <3>5 DEF Taps!RemoveTapListener, Taps!OnlyListeners, j
      <3>7. q' \in Seq(Listened) /\ j \in 1 .. Len(q) /\ Lacks(q', q, j)
        BY <1>1, <3>4, <3>6, LacksRemoved
      <3>8. ASSUME NEW S
            PROVE  CountIn(q, S) = CountIn(q', S) + (IF q[j] \in S THEN 1 ELSE 0)
        BY ONLY <1>1, <3>7, CountWithout
      <3>9. \A d \in Int : q[j] \in With(d) <=> x \in Owed(d)
        BY <1>1, <1>3, <2>2, <3>4 DEF With, Owed
      <3> QED
        BY <3>6, <3>7, <3>8, <3>9
    <2> QED
      BY <1>5, <2>1, <2>2
  <1> HIDE DEF j
  <1>7. \A d \in Int : CountIn(q', With(d)) = CountIn(taps', Owed(d))
    <2> TAKE d \in Int
    <2>1. CountIn(q, With(d)) = CountIn(taps, Owed(d))
      BY DEF Books
    <2>2. CountIn(q', With(d)) \in Nat /\ CountIn(taps', Owed(d)) \in Nat
      BY <1>2, <1>6, CountFinite
    <2> QED
      BY <1>4, <1>6, <2>1, <2>2
  <1>8. \A i, k \in DOMAIN taps' :
          i # k /\ ~taps'[i].null /\ ~taps'[k].null /\ taps'[i].data = taps'[k].data =>
              taps'[i].data <= 0 /\ ~taps'[i].failed
    <2> TAKE i, k \in DOMAIN taps'
    <2>1. /\ taps'[i] = taps[i + 1] /\ i + 1 \in DOMAIN taps
          /\ taps'[k] = taps[k + 1] /\ k + 1 \in DOMAIN taps
          /\ i # k => i + 1 # k + 1
      BY <1>2, <1>3
    <2> HAVE i # k /\ ~taps'[i].null /\ ~taps'[k].null /\ taps'[i].data = taps'[k].data
    <2> QED
      BY <2>1 DEF Books
  <1>9. \A d \in Int : d \in live' <=> d > 0 /\ \E k \in DOMAIN taps' : ~taps'[k].null /\ taps'[k].data = d
    <2> TAKE d \in Int
    <2>1. d \in live <=> d > 0 /\ \E k \in DOMAIN taps : ~taps[k].null /\ taps[k].data = d
      BY DEF Books
    <2>2. ASSUME d \in live'
          PROVE  d > 0 /\ \E k \in DOMAIN taps' : ~taps'[k].null /\ taps'[k].data = d
      <3>1. d \in live /\ d # x.data
        BY <2>2
      <3>2. PICK k \in DOMAIN taps : ~taps[k].null /\ taps[k].data = d
        BY <2>1, <3>1
      <3>3. k # 1
        BY <1>2, <3>1, <3>2
      <3>4. k - 1 \in DOMAIN taps' /\ taps'[k - 1] = taps[(k - 1) + 1] /\ (k - 1) + 1 = k
        BY <1>2, <1>3, <3>3
      <3> QED
        BY <2>1, <3>1, <3>2, <3>4
    <2>3. ASSUME d > 0, NEW k \in DOMAIN taps', ~taps'[k].null, taps'[k].data = d
          PROVE  d \in live'
      <3>1. taps'[k] = taps[k + 1] /\ k + 1 \in DOMAIN taps /\ k + 1 # 1
        BY <1>2, <1>3
      <3>2. d \in live
        BY <2>1, <2>3, <3>1
      <3>3. x.data # d
        <4>1. CASE x.null
          BY <1>2, <1>3, <2>3, <4>1 DEF Books
        <4>2. CASE ~x.null
          <5>1. 1 \in DOMAIN taps /\ ~taps[1].null /\ taps[1].data = x.data
            BY <1>2, <1>3, <4>2
          <5> QED
            BY <2>3, <3>1, <5>1 DEF Books
        <4> QED
          BY <1>5, <4>1, <4>2
      <3> QED
        BY <3>2, <3>3
    <2> QED
      BY <2>2, <2>3
  <1>10. /\ live' \subseteq Int /\ \A k \in DOMAIN taps' : taps'[k].null => taps'[k].data = 0
    <2>1. live' \subseteq Int
      BY DEF Books
    <2>2. \A k \in DOMAIN taps' : taps'[k].null => taps'[k].data = 0
      BY <1>2, <1>3 DEF Books
    <2> QED
      BY <2>1, <2>2
  <1>11. TapsTyped'
    BY <1>2, <1>6 DEF TapsTyped
  <1>12. Books'
    BY <1>7, <1>8, <1>9, <1>10 DEF Books
  <1> QED
    BY <1>11, <1>12

-----------------------------------------------------------------------------
(***************************************************************************)
(* The session.                                                            *)
(***************************************************************************)
OnStage(s) ==
    /\ Drawn(text) = Outline[s.place]
    /\ lines \in Answered[s.answered]
    /\ HeldAs(s.held)

Session ==
    /\ Good
    /\ todo \in Seq(Steps)
    /\ TapsTyped /\ Books
    /\ request \in DOMAIN Handler => \E s \in Stages : OnStage(s) /\ Fits(todo, s, Over)
    /\ request \notin DOMAIN Handler =>
          todo = << >> /\ Drawn(text) = Outline["start"] /\ taps = << >>
    /\ request = "refused" => lines = << >>

LEMMA StartDrawn == Drawn(Start) = Outline["start"]
  <1>1. Start \in Seq(Context) /\ Len(Start) = 1 /\ Start[1] = "start"
    BY DEF Start, Context
  <1>2. Drawn(Start) \in Seq(Kinds) /\ Len(Drawn(Start)) = 1 /\ Drawn(Start)[1] = "start"
    BY <1>1, DrawnType, DrawnSeq DEF Kind
  <1>3. <<"start">> \in Seq(Kinds) /\ Len(<<"start">>) = 1 /\ <<"start">>[1] = "start"
    BY DEF Kinds
  <1>4. Drawn(Start) = <<"start">>
    BY <1>2, <1>3, SameSeq
  <1> QED
    BY <1>4, Outlines

LEMMA Idlers == {"none", "refused", "closed"} \cap DOMAIN Handler = {}
  BY DEF Handler

LEMMA SessionBegins == SessionInit => Session
  <1> SUFFICES ASSUME SessionInit PROVE Session
    OBVIOUS
  <1>1. Init /\ Taps!TapInit
    BY DEF SessionInit
  <1>2. Good
    BY <1>1, InitInv DEF Good, Init
  <1>3. todo = << >> /\ taps = << >> /\ live = {} /\ request = "none"
    BY DEF SessionInit
  <1>4. tap_dissector_list = << >> /\ tap_listener_queue = << >>
    BY <1>1 DEF Taps!TapInit
  <1>5. TapsTyped
    BY <1>3, <1>4 DEF TapsTyped
  <1>6. Books
    <2>1. << >> \in Seq(Listened) /\ << >> \in Seq(Holdings) /\ DOMAIN << >> = {}
      OBVIOUS
    <2>2. \A d \in Int : CountIn(tap_listener_queue, With(d)) = 0 /\ CountIn(taps, Owed(d)) = 0
      BY <1>3, <1>4, <2>1, CountSome
    <2>3. DOMAIN taps = {}
      BY <1>3, <2>1
    <2> QED
      BY <1>3, <2>2, <2>3 DEF Books
  <1>7. Drawn(text) = Outline["start"]
    BY <1>1, StartDrawn DEF Init
  <1> QED
    BY <1>2, <1>3, <1>5, <1>6, <1>7, Idlers DEF Session

\* Between two requests.
LEMMA AtRest ==
    ASSUME Session, Waiting
    PROVE  /\ Drawn(text) = Outline["start"] /\ taps = << >>
           /\ request \in DOMAIN Handler => lines \in {<<"empty">>, <<"value", "empty">>}
  <1>1. CASE request \in DOMAIN Handler
    <2>1. PICK s \in Stages : OnStage(s) /\ Fits(todo, s, Over)
      BY <1>1 DEF Session
    <2>2. s = Over
      BY <2>1, FitsNothing DEF Waiting
    <2>3. Over.place = "start" /\ Over.answered = 2 /\ Over.held = "none"
      BY DEF Over, At
    <2>4. Answered[2] = {<<"empty">>, <<"value", "empty">>}
      BY DEF Answered
    <2> QED
      BY <2>1, <2>2, <2>3, <2>4 DEF OnStage, HeldAs
  <1>2. CASE request \notin DOMAIN Handler
    BY <1>2 DEF Session
  <1> QED
    BY <1>1, <1>2

\* Within a request.
LEMMA NextStep ==
    ASSUME Session, NEW step, Now(step)
    PROVE  /\ request \in DOMAIN Handler /\ todo # << >> /\ Head(todo) = step /\ step \in Steps
           /\ todo \in Seq(Steps) /\ Tail(todo) \in Seq(Steps)
           /\ \E s, m \in Stages : /\ OnStage(s) /\ Fits(todo, s, Over)
                                   /\ Moves(step, s, m) /\ Fits(Tail(todo), m, Over)
  <1>1. request \in DOMAIN Handler /\ todo # << >> /\ Head(todo) = step /\ todo \in Seq(Steps)
    BY DEF Session, Now, Waiting
  <1>2. Head(todo) \in Steps /\ Tail(todo) \in Seq(Steps)
    BY <1>1
  <1>3. PICK s \in Stages : OnStage(s) /\ Fits(todo, s, Over)
    BY <1>1 DEF Session
  <1>4. PICK m \in Stages : Moves(Head(todo), s, m) /\ Fits(Tail(todo), m, Over)
    BY <1>1, <1>3, FitsRest
  <1> QED
    BY <1>1, <1>2, <1>3, <1>4

\* What is left to do goes on from the stage s.
LEMMA GoesOn ==
    ASSUME Session, request' = request, request \in DOMAIN Handler, Good', TapsTyped', Books',
           NEW s \in Stages, OnStage(s)', Script(todo', s, Over)
    PROVE  Session'
  <1>1. todo' \in Seq(Steps) /\ Fits(todo', s, Over)
    BY DEF Script
  <1>2. (DOMAIN Handler)' = DOMAIN Handler
    BY DEF Handler
  <1>3. (\E t \in Stages : OnStage(t) /\ Fits(todo, t, Over))'
    BY <1>1
  <1> QED
    BY <1>1, <1>2, <1>3, Idlers DEF Session

LEMMA DumperOnly ==
    ASSUME TapsTyped, Books, UNCHANGED <<taps, live, tapVars>>
    PROVE  TapsTyped' /\ Books' /\ \A h : HeldAs(h)' <=> HeldAs(h)
  <1>1. /\ taps' = taps /\ live' = live /\ tap_listener_queue' = tap_listener_queue
        /\ tap_dissector_list' = tap_dissector_list
    BY DEF tapVars
  <1> QED
    BY <1>1 DEF TapsTyped, Books, HeldAs

LEMMA TapsOnly ==
    ASSUME Good, UNCHANGED vars
    PROVE  Good' /\ Drawn(text)' = Drawn(text)
  <1>1. Inv'
    BY StepInv DEF Good
  <1> QED
    BY <1>1 DEF Good, vars

LEMMA DispatchKeeps ==
    ASSUME Session, NEW req \in DOMAIN Handler, Dispatch(req)
    PROVE  Session'
  <1>1. Waiting /\ request' = req /\ lines' = << >> /\ UNCHANGED <<taps, live, vars, tapVars>>
    BY DEF Dispatch
  <1>2. Drawn(text) = Outline["start"] /\ taps = << >>
    BY <1>1, AtRest
  <1>3. PICK script \in Handler[req] : todo' = script \o <<"finish">>
    BY DEF Dispatch
  <1>4. PICK h \in Before : Script(script \o <<"finish">>, At("start", 0, h), Over)
    BY HandlersFit
  <1>5. /\ At("start", 0, h) \in Stages /\ At("start", 0, h).place = "start"
        /\ At("start", 0, h).answered = 0 /\ At("start", 0, h).held = h
    <2>1. "start" \in Place /\ 0 \in 0 .. 2 /\ h \in Held
      BY DEF Place, Outline, Held, Before
    <2> QED
      BY <2>1, AtStages
  <1>6. Good' /\ Drawn(text)' = Drawn(text) /\ TapsTyped' /\ Books'
    BY <1>1, TapsOnly, DumperOnly DEF Session
  <1>7. OnStage(At("start", 0, h))'
    <2>1. HeldAs(h)'
      BY <1>1, <1>2 DEF HeldAs, Before
    <2>2. lines' \in Answered[0]
      BY <1>1 DEF Answered
    <2> QED
      BY <1>2, <1>5, <1>6, <2>1, <2>2 DEF OnStage
  <1>8. todo' \in Seq(Steps) /\ Fits(todo', At("start", 0, h), Over)
    BY <1>3, <1>4 DEF Script
  <1>9. (\E t \in Stages : OnStage(t) /\ Fits(todo, t, Over))'
    BY <1>5, <1>7, <1>8
  <1>10. (DOMAIN Handler)' = DOMAIN Handler
    BY DEF Handler
  <1> QED
    BY <1>1, <1>6, <1>8, <1>9, <1>10, Idlers DEF Session

LEMMA RestKeeps ==
    ASSUME Session, Waiting, request' \in {"refused", "closed"}, todo' = todo,
           request' = "refused" => lines' = << >>, UNCHANGED <<taps, live, vars, tapVars>>
    PROVE  Session'
  <1>1. Drawn(text) = Outline["start"] /\ taps = << >>
    BY AtRest
  <1>2. Good' /\ Drawn(text)' = Drawn(text) /\ TapsTyped' /\ Books'
    BY TapsOnly, DumperOnly DEF Session
  <1>3. (DOMAIN Handler)' = DOMAIN Handler
    BY DEF Handler
  <1> QED
    BY <1>1, <1>2, <1>3, Idlers DEF Session, Waiting

LEMMA RegisterTapKeeps ==
    ASSUME Session, RegisterTap
    PROVE  Session'
  <1>1. request = "none" /\ UNCHANGED <<request, todo, taps, live, lines, vars>>
    BY DEF RegisterTap
  <1>2. PICK name \in Name : Taps!FindTapId(name) = 0 /\ Taps!RegisterTap(name)
    BY DEF RegisterTap
  <1>3. /\ tap_dissector_list' = Append(tap_dissector_list, name)
        /\ tap_listener_queue' = tap_listener_queue
    BY <1>2 DEF Taps!RegisterTap
  <1>4. TapsTyped'
    BY <1>1, <1>3 DEF Session, TapsTyped
  <1>5. Books'
    BY <1>1, <1>3 DEF Session, Books
  <1>6. Good' /\ Drawn(text)' = Drawn(text)
    BY <1>1, TapsOnly DEF Session
  <1>7. (DOMAIN Handler)' = DOMAIN Handler
    BY DEF Handler
  <1> QED
    BY <1>1, <1>4, <1>5, <1>6, <1>7, Idlers DEF Session

LEMMA WriteReplyKeeps ==
    ASSUME Session, WriteReply
    PROVE  Session'
  <1> DEFINE step == Head(todo)
  <1>1. /\ step \in {"{", "}", "[", "]", "name", "value"} /\ Now(step)
        /\ step = "{" => Begin("object")
        /\ step = "}" => End("object")
        /\ step = "[" => Begin("array")
        /\ step = "]" => End("array")
        /\ step = "name" => SetMemberName
        /\ step = "value" => Value
    BY DEF WriteReply, Now
  <1>2. todo' = Tail(todo) /\ UNCHANGED <<request, taps, live, lines, tapVars>>
    BY DEF WriteReply
  <1> HIDE DEF step
  <1>3. request \in DOMAIN Handler /\ Tail(todo) \in Seq(Steps)
    BY <1>1, NextStep
  <1>4. PICK s, m \in Stages : OnStage(s) /\ Moves(step, s, m) /\ Fits(Tail(todo), m, Over)
    BY <1>1, NextStep
  <1>5. Writes(step, s.place, m.place) /\ m.answered = s.answered /\ m.held = s.held
    BY <1>1, <1>4 DEF Moves
  <1>6. /\ Good /\ s.place \in Place /\ m.place \in Place /\ Drawn(text) = Outline[s.place]
    BY <1>4 DEF Session, OnStage, Stages
  <1>7. Good' /\ Drawn(text)' = Outline[m.place]
    <2>1. CASE step = "{"
      BY <1>1, <1>5, <1>6, <2>1, BeginDrawn DEF Writes
    <2>2. CASE step = "}"
      BY <1>1, <1>5, <1>6, <2>2, EndDrawn DEF Writes
    <2>3. CASE step = "["
      BY <1>1, <1>5, <1>6, <2>3, BeginDrawn DEF Writes
    <2>4. CASE step = "]"
      BY <1>1, <1>5, <1>6, <2>4, EndDrawn DEF Writes
    <2>5. CASE step = "name"
      BY <1>1, <1>5, <1>6, <2>5, NameDrawn DEF Writes
    <2>6. CASE step = "value"
      BY <1>1, <1>5, <1>6, <2>6, ValueDrawn DEF Writes
    <2> QED
      BY <1>1, <2>1, <2>2, <2>3, <2>4, <2>5, <2>6
  <1>8. TapsTyped' /\ Books' /\ HeldAs(m.held)'
    BY <1>2, <1>4, <1>5, DumperOnly DEF Session, OnStage
  <1>9. OnStage(m)'
    BY <1>2, <1>4, <1>5, <1>7, <1>8 DEF OnStage
  <1> QED
    BY <1>2, <1>3, <1>4, <1>7, <1>8, <1>9, GoesOn DEF Script

LEMMA FinishLineKeeps ==
    ASSUME Session, FinishLine
    PROVE  Session'
  <1>1. /\ Now("finish") /\ Finish /\ todo' = Tail(todo)
        /\ lines' = Append(lines, IF text = Start THEN "empty" ELSE "value")
        /\ UNCHANGED <<request, taps, live, tapVars>>
    BY DEF FinishLine
  <1>2. request \in DOMAIN Handler /\ Tail(todo) \in Seq(Steps)
    BY <1>1, NextStep
  <1>3. PICK s, m \in Stages : OnStage(s) /\ Moves("finish", s, m) /\ Fits(Tail(todo), m, Over)
    BY <1>1, NextStep
  <1>4. /\ m.place = "start" /\ m.held = s.held
        /\ \/ s.place = "done" /\ s.answered = 0 /\ m.answered = 1
           \/ s.place = "start" /\ s.answered # 2 /\ m.answered = 2
    BY <1>3 DEF Moves, Writes
  <1>5. Good' /\ Drawn(text)' = Outline["start"] /\ (text = Start <=> s.place = "start")
    BY <1>1, <1>3, <1>4, FinishDrawn DEF Session, OnStage
  <1>6. lines' \in Answered[m.answered]
    <2>1. CASE s.place = "done"
      <3>1. lines = << >>
        BY <1>3, <1>4, <2>1 DEF OnStage, Answered
      <3>2. lines' = <<"value">>
        BY <1>1, <1>5, <2>1, <3>1
      <3> QED
        BY <1>4, <2>1, <3>2 DEF Answered
    <2>2. CASE s.place = "start"
      <3>1. lines \in {<< >>, <<"value">>}
        BY <1>3, <1>4, <2>2 DEF OnStage, Answered, Stages
      <3>2. lines' \in {<<"empty">>, <<"value", "empty">>}
        <4>1. lines' = Append(lines, "empty")
          BY <1>1, <1>5, <2>2
        <4>2. Append(<< >>, "empty") = <<"empty">> /\ Append(<<"value">>, "empty") = <<"value", "empty">>
          <5> DEFINE a == Append(<< >>, "empty")
                     b == Append(<<"value">>, "empty")
          <5>1. /\ a \in Seq({"value", "empty"}) /\ Len(a) = 1 /\ a[1] = "empty"
                /\ b \in Seq({"value", "empty"}) /\ Len(b) = 2 /\ b[1] = "value" /\ b[2] = "empty"
            OBVIOUS
          <5>2. /\ <<"empty">> \in Seq({"value", "empty"}) /\ Len(<<"empty">>) = 1
                /\ <<"value", "empty">> \in Seq({"value", "empty"}) /\ Len(<<"value", "empty">>) = 2
            OBVIOUS
          <5> HIDE DEF a, b
          <5>3. \A i \in 1 .. 1 : a[i] = <<"empty">>[i]
            BY <5>1
          <5>4. \A i \in 1 .. 2 : b[i] = <<"value", "empty">>[i]
            BY <5>1
          <5>5. a = <<"empty">> /\ b = <<"value", "empty">>
            BY <5>1, <5>2, <5>3, <5>4, SameSeq
          <5> QED
            BY <5>5 DEF a, b
        <4>3. CASE lines = << >>
          BY <4>1, <4>2, <4>3
        <4>4. CASE lines = <<"value">>
          BY <4>1, <4>2, <4>4
        <4> QED
          BY <3>1, <4>3, <4>4
      <3> QED
        BY <1>4, <2>2, <3>2 DEF Answered
    <2> QED
      BY <1>4, <2>1, <2>2
  <1>7. TapsTyped' /\ Books' /\ HeldAs(m.held)'
    BY <1>1, <1>3, <1>4, DumperOnly DEF Session, OnStage
  <1>8. OnStage(m)'
    BY <1>4, <1>5, <1>6, <1>7 DEF OnStage
  <1> QED
    BY <1>1, <1>2, <1>3, <1>5, <1>7, <1>8, GoesOn DEF Script

\* Only what is left to do is changed.
LEMMA TodoOnly ==
    ASSUME Session, UNCHANGED <<request, taps, live, lines, vars, tapVars>>
    PROVE  /\ Good' /\ TapsTyped' /\ Books'
           /\ \A s : OnStage(s)' <=> OnStage(s)
  BY TapsOnly, DumperOnly DEF Session, OnStage

LEMMA TakeTurnKeeps ==
    ASSUME Session, TakeTurn
    PROVE  Session'
  <1> DEFINE step == Head(todo)
  <1>1. Now(step) /\ step \in DOMAIN Loop /\ UNCHANGED <<request, taps, live, lines, vars, tapVars>>
    BY DEF TakeTurn, Now
  <1>2. PICK turn \in Loop[step] : todo' = turn \o Tail(todo)
    BY DEF TakeTurn
  <1> HIDE DEF step
  <1>3. request \in DOMAIN Handler /\ Tail(todo) \in Seq(Steps)
    BY <1>1, NextStep
  <1>4. PICK s, m \in Stages : OnStage(s) /\ Moves(step, s, m) /\ Fits(Tail(todo), m, Over)
    BY <1>1, NextStep
  <1>5. Script(turn, s, m)
    BY <1>1, <1>2, <1>4, TurnsFit
  <1>6. Script(todo', s, Over)
    BY <1>2, <1>3, <1>4, <1>5, ScriptBoth DEF Script
  <1> QED
    BY <1>1, <1>3, <1>4, <1>6, TodoOnly, GoesOn

LEMMA GatherEndsKeeps ==
    ASSUME Session, GatherEnds
    PROVE  Session'
  <1>1. Now("gather") /\ UNCHANGED <<request, taps, live, lines, vars, tapVars>>
    BY DEF GatherEnds
  <1>2. request \in DOMAIN Handler /\ Tail(todo) \in Seq(Steps)
    BY <1>1, NextStep
  <1>3. PICK s, m \in Stages : OnStage(s) /\ Moves("gather", s, m) /\ Fits(Tail(todo), m, Over)
    BY <1>1, NextStep
  <1>4. s = At("start", 0, "gathering") /\ m = At("start", 1, "none")
    BY <1>3 DEF Moves, Writes
  <1>5. Drawn(text) = Outline["start"] /\ lines = << >>
    BY <1>3, <1>4 DEF OnStage, At, Answered
  <1>6. CASE taps = << >>
    <2>1. todo' = Tail(todo)
      <3>1. todo' = << >> \o Tail(todo)
        BY <1>6 DEF GatherEnds
      <3> QED
        BY <1>2, <3>1
    <2>2. OnStage(m)
      BY <1>4, <1>5, <1>6 DEF OnStage, At, Answered, HeldAs
    <2> QED
      BY <1>1, <1>2, <1>3, <2>1, <2>2, TodoOnly, GoesOn DEF Script
  <1>7. CASE taps # << >>
    <2> DEFINE reply == Reply(Named(Array(<< >>)) \o Member)
    <2>1. todo' = (reply \o <<"release">>) \o Tail(todo)
      BY <1>7 DEF GatherEnds
    <2>2. /\ "any" \in Held /\ "none" \in Held /\ "start" \in Place
          /\ 0 \in 0 .. 2 /\ 1 \in 0 .. 2
      BY DEF Held, Place, Outline
    <2>3. Script(reply, At("start", 0, "any"), At("start", 1, "any"))
      BY <2>2, ScriptMembers, StaysBoth, ScriptReply DEF Stays
    <2> HIDE DEF reply
    <2>4. Script(<<"release">>, At("start", 1, "any"), m)
      <3>1. Moves("release", At("start", 1, "any"), m) /\ "release" \in Steps
        BY <1>4 DEF Moves, Steps, At
      <3> QED
        BY <2>2, <3>1, AtStages, ScriptOne
    <2>5. Script(todo', At("start", 0, "any"), Over)
      <3>1. Script(Tail(todo), m, Over)
        BY <1>2, <1>3 DEF Script
      <3> QED
        BY <2>1, <2>3, <2>4, <3>1, ScriptBoth
    <2>6. OnStage(At("start", 0, "any"))
      BY <1>5 DEF OnStage, At, Answered, HeldAs
    <2> QED
      BY <1>1, <1>2, <2>2, <2>5, <2>6, AtStages, TodoOnly, GoesOn
  <1> QED
    BY <1>6, <1>7

LEMMA GraphsEndKeeps ==
    ASSUME Session, GraphsEnd
    PROVE  Session'
  <1>1. Now("graph") /\ todo' = Tail(todo) /\ UNCHANGED <<request, taps, live, lines, vars, tapVars>>
    BY DEF GraphsEnd
  <1>2. request \in DOMAIN Handler /\ Tail(todo) \in Seq(Steps)
    BY <1>1, NextStep
  <1>3. PICK s, m \in Stages : OnStage(s) /\ Moves("graph", s, m) /\ Fits(Tail(todo), m, Over)
    BY <1>1, NextStep
  <1>4. s = At("start", 0, "graphing") /\ m = At("start", 0, "any")
    BY <1>3 DEF Moves, Writes
  <1>5. OnStage(m)
    BY <1>3, <1>4 DEF OnStage, At, HeldAs
  <1> QED
    BY <1>1, <1>2, <1>3, <1>5, TodoOnly, GoesOn DEF Script

\* What is done to one of taps comes before the others.
LEMMA DropFirst ==
    ASSUME Session, NEW s \in Stages, OnStage(s), s.held = "any", taps # << >>,
           NEW m, Script(m, [s EXCEPT !.held = "some"], [s EXCEPT !.held = "some"])
    PROVE  /\ [s EXCEPT !.held = "some"] \in Stages
           /\ OnStage([s EXCEPT !.held = "some"])
           /\ Script(m \o <<"drop">>, [s EXCEPT !.held = "some"], s)
  <1> DEFINE t == [s EXCEPT !.held = "some"]
  <1>1. t \in Stages /\ t.place = s.place /\ t.answered = s.answered /\ t.held = "some"
    BY DEF Stages, Held
  <1>2. OnStage(t)
    BY <1>1 DEF OnStage, HeldAs
  <1>3. [t EXCEPT !.held = "any"] = s
    BY DEF Stages
  <1> HIDE DEF t
  <1>4. Script(<<"drop">>, t, s)
    <2>1. Moves("drop", t, s) /\ "drop" \in Steps
      BY <1>1, <1>3 DEF Moves, Steps
    <2> QED
      BY <1>1, <2>1, ScriptOne
  <1>5. Script(m, t, t)
    BY DEF t
  <1>6. Script(m \o <<"drop">>, t, s)
    BY <1>4, <1>5, ScriptBoth
  <1> QED
    BY <1>1, <1>2, <1>6 DEF t

LEMMA ReleaseNextKeeps ==
    ASSUME Session, ReleaseNext
    PROVE  Session'
  <1>1. Now("release") /\ UNCHANGED <<request, taps, live, lines, vars, tapVars>>
    BY DEF ReleaseNext
  <1>2. request \in DOMAIN Handler /\ todo \in Seq(Steps) /\ Tail(todo) \in Seq(Steps)
    BY <1>1, NextStep
  <1>3. PICK s, m \in Stages : /\ OnStage(s) /\ Fits(todo, s, Over)
                               /\ Moves("release", s, m) /\ Fits(Tail(todo), m, Over)
    BY <1>1, NextStep
  <1>4. s.held = "any" /\ m = [s EXCEPT !.held = "none"]
    BY <1>3 DEF Moves, Writes
  <1>5. CASE taps = << >>
    <2>1. OnStage(m)
      BY <1>3, <1>4, <1>5 DEF OnStage, Stages, HeldAs
    <2>2. todo' = Tail(todo)
      BY <1>5 DEF ReleaseNext
    <2> QED
      BY <1>1, <1>2, <1>3, <2>1, <2>2, TodoOnly, GoesOn DEF Script
  <1>6. CASE taps # << >>
    <2> DEFINE t == [s EXCEPT !.held = "some"]
    <2>1. t \in Stages
      BY DEF Stages, Held
    <2>2. Script(<< >>, t, t)
      BY <2>1, ScriptNothing
    <2>3. OnStage(t) /\ Script(<< >> \o <<"drop">>, t, s)
      BY <1>3, <1>4, <1>6, <2>2, DropFirst
    <2>4. << >> \o <<"drop">> = <<"drop">>
      OBVIOUS
    <2>5. todo' = <<"drop">> \o todo
      BY <1>6 DEF ReleaseNext
    <2> HIDE DEF t
    <2>6. Script(todo', t, Over)
      BY <1>2, <1>3, <2>3, <2>4, <2>5, ScriptBoth DEF Script
    <2> QED
      BY <1>1, <1>2, <2>1, <2>3, <2>6, TodoOnly, GoesOn
  <1> QED
    BY <1>5, <1>6

LEMMA AnswerGraphKeeps ==
    ASSUME Session, AnswerGraph
    PROVE  Session'
  <1>1. Now("graphs") /\ UNCHANGED <<request, taps, live, lines, vars, tapVars>>
    BY DEF AnswerGraph
  <1>2. request \in DOMAIN Handler /\ todo \in Seq(Steps) /\ Tail(todo) \in Seq(Steps)
    BY <1>1, NextStep
  <1>3. PICK s, m \in Stages : /\ OnStage(s) /\ Fits(todo, s, Over)
                               /\ Moves("graphs", s, m) /\ Fits(Tail(todo), m, Over)
    BY <1>1, NextStep
  <1>4. s.place = "elements" /\ s.held = "any" /\ m = [s EXCEPT !.held = "none"]
    BY <1>3 DEF Moves, Writes
  <1>5. CASE taps = << >>
    <2>1. OnStage(m)
      BY <1>3, <1>4, <1>5 DEF OnStage, Stages, HeldAs
    <2>2. todo' = Tail(todo)
      BY <1>5 DEF AnswerGraph
    <2> QED
      BY <1>1, <1>2, <1>3, <2>1, <2>2, TodoOnly, GoesOn DEF Script
  <1>6. CASE taps # << >>
    <2> DEFINE t == [s EXCEPT !.held = "some"]
               members == IF Head(taps).failed THEN Member ELSE Named(Array(<< >>))
    <2>1. t \in Stages /\ t = At("elements", s.answered, "some") /\ s.answered \in 0 .. 2
      BY <1>4 DEF Stages, Held, At
    <2>2. Script(Object(members), t, t)
      <3>1. /\ "element" \in Place /\ "elements" \in Place /\ "some" \in Held
            /\ Opens("elements", "element") /\ Closes("element", "elements")
        BY DEF Place, Outline, Held, Opens, Closes
      <3>2. Stays(members, "element", s.answered, "some")
        BY <2>1, <3>1, ScriptMembers
      <3> HIDE DEF members
      <3> QED
        BY <2>1, <3>1, <3>2, ScriptObject DEF Stays
    <2>3. OnStage(t) /\ Script(Object(members) \o <<"drop">>, t, s)
      <3> HIDE DEF members
      <3> QED
        BY <1>3, <1>4, <1>6, <2>2, DropFirst
    <2>4. todo' = Object(members) \o <<"drop">> \o todo
      BY <1>6 DEF AnswerGraph
    <2> HIDE DEF t, members
    <2>5. Script(todo', t, Over)
      BY <1>2, <1>3, <2>3, <2>4, ScriptBoth DEF Script
    <2> QED
      BY <1>1, <1>2, <2>1, <2>3, <2>5, TodoOnly, GoesOn
  <1> QED
    BY <1>5, <1>6

LEMMA DropKeeps ==
    ASSUME Session, Drop
    PROVE  Session'
  <1>1. /\ Now("drop") /\ todo' = Tail(todo) /\ taps' = Tail(taps)
        /\ live' = live \ {Head(taps).data} /\ UNCHANGED <<request, lines, vars>>
        /\ IF Head(taps).null THEN UNCHANGED tapVars ELSE RemoveListener(Head(taps).data)
    BY DEF Drop
  <1>2. request \in DOMAIN Handler /\ Tail(todo) \in Seq(Steps)
    BY <1>1, NextStep
  <1>3. PICK s, m \in Stages : OnStage(s) /\ Moves("drop", s, m) /\ Fits(Tail(todo), m, Over)
    BY <1>1, NextStep
  <1>4. s.held = "some" /\ m = [s EXCEPT !.held = "any"]
    BY <1>3 DEF Moves, Writes
  <1>5. taps # << >>
    BY <1>3, <1>4 DEF OnStage, HeldAs
  <1>6. TapsTyped' /\ Books'
    BY <1>1, <1>5, DropBooks DEF Session
  <1>7. Good' /\ Drawn(text)' = Drawn(text)
    BY <1>1, TapsOnly DEF Session
  <1>8. OnStage(m)'
    <2>1. m.place = s.place /\ m.answered = s.answered /\ m.held = "any"
      BY <1>4 DEF Stages
    <2> QED
      BY <1>1, <1>3, <1>7, <2>1 DEF OnStage, HeldAs
  <1> QED
    BY <1>1, <1>2, <1>3, <1>6, <1>7, <1>8, GoesOn DEF Script

\* A listener is registered with data that nothing else is listening with, or
\* with data on the stack.
LEMMA ListenBooks ==
    ASSUME TapsTyped, Books, NEW name \in Name, NEW data \in Int, Listen(name, data),
           \A k \in DOMAIN taps : ~taps[k].null /\ taps[k].data = data => data <= 0 /\ ~taps[k].failed
    PROVE  TapsTyped' /\ Books' /\ taps' = Append(taps, Kept(data))
  <1> DEFINE x == Kept(data)
             l == Taps!Listener(data, Taps!FindTapId(name), name)
  <1>1. x \in Holdings /\ x.data = data /\ ~x.null /\ ~x.failed
    BY DEF Kept, Holdings
  <1>2. /\ taps' = Append(taps, x) /\ live' = live \cup (IF data > 0 THEN {data} ELSE {})
        /\ Taps!FindTapId(name) # 0 /\ tap_listener_queue' = <<l>> \o tap_listener_queue
        /\ tap_dissector_list' = tap_dissector_list
    BY DEF Listen, Taps!RegisterTapListener, Taps!OnlyListeners
  <1>3. l \in Listened /\ l.data = data
    BY <1>2, FoundTap DEF Taps!Listener, Listened
  <1> HIDE DEF x, l
  <1>4. Books' /\ taps' \in Seq(Holdings) /\ tap_listener_queue' \in Seq(Listened)
    <2>1. live' = live \cup (IF x.data > 0 THEN {x.data} ELSE {})
      BY <1>1, <1>2
    <2>2. IF x.null \/ x.failed THEN UNCHANGED tap_listener_queue
          ELSE \E e \in Listened : /\ e.data = x.data
                                   /\ tap_listener_queue' = <<e>> \o tap_listener_queue
      BY <1>1, <1>2, <1>3
    <2>3. \A k \in DOMAIN taps : ~taps[k].null /\ ~x.null /\ taps[k].data = x.data =>
                x.data <= 0 /\ ~x.failed /\ ~taps[k].failed
      BY <1>1
    <2> QED
      BY <1>1, <1>2, <2>1, <2>2, <2>3, AppendBooks
  <1>5. TapsTyped'
    BY <1>2, <1>4 DEF TapsTyped
  <1> QED
    BY <1>2, <1>4, <1>5 DEF x

\* What is kept without a listener: a tap that is not registered, or a graph
\* with an error.
LEMMA KeepBooks ==
    ASSUME TapsTyped, Books, NEW x \in Holdings, x.null \/ x.failed, x.data <= 0,
           x.null => x.data = 0, taps' = Append(taps, x), UNCHANGED <<live, tapVars>>,
           ~x.null => \A k \in DOMAIN taps : ~taps[k].null => taps[k].data # x.data
    PROVE  TapsTyped' /\ Books'
  <1>1. /\ tap_listener_queue' = tap_listener_queue /\ live' = live
        /\ tap_dissector_list' = tap_dissector_list
    BY DEF tapVars
  <1>2. Books' /\ taps' \in Seq(Holdings) /\ tap_listener_queue' \in Seq(Listened)
    <2>1. live' = live \cup (IF x.data > 0 THEN {x.data} ELSE {})
      BY <1>1 DEF Holdings
    <2>2. IF x.null \/ x.failed THEN UNCHANGED tap_listener_queue
          ELSE \E e \in Listened : /\ e.data = x.data
                                   /\ tap_listener_queue' = <<e>> \o tap_listener_queue
      BY <1>1
    <2>3. \A k \in DOMAIN taps : ~taps[k].null /\ ~x.null /\ taps[k].data = x.data =>
                x.data <= 0 /\ ~x.failed /\ ~taps[k].failed
      OBVIOUS
    <2> QED
      BY <2>1, <2>2, <2>3, AppendBooks
  <1> QED
    BY <1>1, <1>2 DEF TapsTyped

LEMMA Gathered ==
    ASSUME TapsTyped, NEW x \in Holdings, taps' = Append(taps, x)
    PROVE  /\ Len(taps) \in Nat /\ DOMAIN taps = 1 .. Len(taps)
           /\ HeldAs("gathering") /\ x.data \in {0, Len(taps) + 1} /\ ~x.failed => HeldAs("gathering")'
           /\ HeldAs("graphing") /\ x.data = -Len(taps) /\ ~x.null => HeldAs("graphing")'
  <1>1. /\ taps \in Seq(Holdings) /\ Len(taps) \in Nat /\ DOMAIN taps = 1 .. Len(taps)
        /\ DOMAIN taps' = 1 .. Len(taps) + 1 /\ taps'[Len(taps) + 1] = x
        /\ \A k \in 1 .. Len(taps) : taps'[k] = taps[k]
    BY DEF TapsTyped
  <1>2. HeldAs("gathering") /\ x.data \in {0, Len(taps) + 1} /\ ~x.failed => HeldAs("gathering")'
    BY <1>1 DEF HeldAs
  <1>3. HeldAs("graphing") /\ x.data = -Len(taps) /\ ~x.null => HeldAs("graphing")'
    BY <1>1 DEF HeldAs
  <1> QED
    BY <1>1, <1>2, <1>3

\* The handler goes on gathering.
LEMMA GatheringGoesOn ==
    ASSUME Session, NEW step, Now(step), UNCHANGED <<request, todo, lines, vars>>,
           TapsTyped', Books', NEW h \in {"gathering", "graphing"}, HeldAs(h)',
           step = IF h = "gathering" THEN "gather" ELSE "graph"
    PROVE  Session'
  <1>1. request \in DOMAIN Handler
    BY NextStep
  <1>2. PICK s, m \in Stages : OnStage(s) /\ Fits(todo, s, Over) /\ Moves(step, s, m)
    BY NextStep
  <1>3. s.held = h
    BY <1>2 DEF Moves, Writes, At
  <1>4. Good' /\ Drawn(text)' = Drawn(text)
    BY TapsOnly DEF Session
  <1>5. OnStage(s)'
    BY <1>2, <1>3, <1>4 DEF OnStage
  <1>6. Script(todo', s, Over)
    BY <1>2 DEF Session, Script
  <1> QED
    BY <1>1, <1>4, <1>5, <1>6, GoesOn

LEMMA ZeroFacts == 0 \in Int /\ 0 + 1 \in Int /\ 0 \in 0 .. 1 /\ Len(<< >>) = 0 /\ DOMAIN << >> = {}
  OBVIOUS

LEMMA KeptNull ==
    ASSUME NEW data \in Int
    PROVE  LET x == [Kept(data) EXCEPT !.null = TRUE]
           IN  x \in Holdings /\ x.data = data /\ x.null /\ ~x.failed
  BY DEF Kept, Holdings

LEMMA GatherTapKeeps ==
    ASSUME Session, GatherTap
    PROVE  Session'
  <1>1. Now("gather") /\ UNCHANGED <<request, todo, lines, vars>>
    BY DEF GatherTap
  <1>2. TapsTyped /\ Books
    BY DEF Session
  <1>3. HeldAs("gathering")
    <2>1. PICK s, m \in Stages : OnStage(s) /\ Moves("gather", s, m)
      BY <1>1, NextStep
    <2> QED
      BY <2>1 DEF Moves, Writes, At, OnStage
  <1>4. Len(taps) \in Nat /\ DOMAIN taps = 1 .. Len(taps)
    BY <1>2 DEF TapsTyped
  <1>5. ASSUME NEW name \in Name, NEW data \in {NewHeap, Stack}, Listen(name, data)
        PROVE  Session'
    <2>1. data \in Int /\ data \in {0, Len(taps) + 1}
      BY <1>4 DEF NewHeap, Stack
    <2>2. \A k \in DOMAIN taps : ~taps[k].null /\ taps[k].data = data => data <= 0 /\ ~taps[k].failed
      BY <1>3, <1>4, <2>1 DEF HeldAs
    <2>3. TapsTyped' /\ Books' /\ taps' = Append(taps, Kept(data))
      BY <1>2, <1>5, <2>1, <2>2, ListenBooks
    <2>4. Kept(data) \in Holdings /\ Kept(data).data = data /\ ~Kept(data).failed
      BY <2>1 DEF Kept, Holdings
    <2>5. HeldAs("gathering")'
      BY <1>2, <1>3, <2>1, <2>3, <2>4, Gathered
    <2> QED
      BY <1>1, <2>3, <2>5, GatheringGoesOn
  <1>6. ASSUME taps' = Append(taps, [Kept(Stack) EXCEPT !.null = TRUE]), UNCHANGED <<live, tapVars>>
        PROVE  Session'
    <2> DEFINE x == [Kept(Stack) EXCEPT !.null = TRUE]
    <2>1. x \in Holdings /\ x.data = 0 /\ x.null /\ ~x.failed
      <3>1. Stack \in Int /\ Stack = 0
        BY ZeroFacts DEF Stack
      <3> QED
        BY <3>1, KeptNull
    <2> HIDE DEF x
    <2>2. taps' = Append(taps, x)
      BY <1>6 DEF x
    <2>3. TapsTyped' /\ Books'
      BY <1>2, <1>6, <2>1, <2>2, KeepBooks
    <2>4. HeldAs("gathering")'
      BY <1>2, <1>3, <2>1, <2>2, Gathered
    <2> QED
      BY <1>1, <2>3, <2>4, GatheringGoesOn
  <1> QED
    BY <1>5, <1>6 DEF GatherTap

LEMMA GatherGraphKeeps ==
    ASSUME Session, GatherGraph
    PROVE  Session'
  <1>1. Now("graph") /\ UNCHANGED <<request, todo, lines, vars>>
    BY DEF GatherGraph
  <1>2. TapsTyped /\ Books
    BY DEF Session
  <1>3. HeldAs("graphing")
    <2>1. PICK s, m \in Stages : OnStage(s) /\ Moves("graph", s, m)
      BY <1>1, NextStep
    <2> QED
      BY <2>1 DEF Moves, Writes, At, OnStage
  <1>4. Len(taps) \in Nat /\ DOMAIN taps = 1 .. Len(taps)
    BY <1>2 DEF TapsTyped
  <1>5. NewGraph \in Int /\ NewGraph = -Len(taps) /\ NewGraph <= 0
    BY <1>4 DEF NewGraph
  <1>6. \A k \in DOMAIN taps : taps[k].data # NewGraph
    BY <1>3, <1>4, <1>5 DEF HeldAs
  <1>7. ASSUME NEW name \in Name, Listen(name, NewGraph)
        PROVE  Session'
    <2>1. TapsTyped' /\ Books' /\ taps' = Append(taps, Kept(NewGraph))
      BY <1>2, <1>5, <1>6, <1>7, ListenBooks
    <2>2. /\ Kept(NewGraph) \in Holdings /\ Kept(NewGraph).data = NewGraph
          /\ ~Kept(NewGraph).null
      BY <1>5 DEF Kept, Holdings
    <2>3. HeldAs("graphing")'
      BY <1>2, <1>3, <1>5, <2>1, <2>2, Gathered
    <2> QED
      BY <1>1, <2>1, <2>3, GatheringGoesOn
  <1>8. ASSUME taps' = Append(taps, [Kept(NewGraph) EXCEPT !.failed = TRUE]),
               UNCHANGED <<live, tapVars>>
        PROVE  Session'
    <2> DEFINE x == [Kept(NewGraph) EXCEPT !.failed = TRUE]
    <2>1. x \in Holdings /\ x.data = NewGraph /\ ~x.null /\ x.failed
      BY <1>5 DEF Kept, Holdings
    <2> HIDE DEF x
    <2>2. taps' = Append(taps, x)
      BY <1>8 DEF x
    <2>3. TapsTyped' /\ Books'
      BY <1>2, <1>5, <1>6, <1>8, <2>1, <2>2, KeepBooks
    <2>4. HeldAs("graphing")'
      BY <1>2, <1>3, <1>5, <2>1, <2>2, Gathered
    <2> QED
      BY <1>1, <2>3, <2>4, GatheringGoesOn
  <1> QED
    BY <1>7, <1>8 DEF GatherGraph

LEMMA ListenOnceKeeps ==
    ASSUME Session, ListenOnce
    PROVE  Session'
  <1>1. UNCHANGED <<request, lines, vars>>
    BY DEF ListenOnce
  <1>2. PICK name \in Name :
          \/ /\ \/ Now("listen heap") /\ Listen(name, NewHeap)
                \/ Now("listen stack") /\ Listen(name, Stack)
             /\ todo' = Tail(todo)
          \/ /\ Now("listen heap") \/ Now("listen stack")
             /\ NotFound(name)
             /\ todo' = <<"finish">>
    BY DEF ListenOnce
  <1>3. PICK step \in {"listen heap", "listen stack"} : Now(step)
    BY <1>2
  <1>4. request \in DOMAIN Handler /\ Tail(todo) \in Seq(Steps)
    BY <1>3, NextStep
  <1>5. PICK s, m \in Stages : OnStage(s) /\ Moves(step, s, m) /\ Fits(Tail(todo), m, Over)
    BY <1>3, NextStep
  <1>6. s = At("start", 0, "none") /\ m = At("start", 0, "any")
    BY <1>5 DEF Moves, Writes
  <1>7. Drawn(text) = Outline["start"] /\ lines \in Answered[0] /\ taps = << >>
    BY <1>5, <1>6 DEF OnStage, At, HeldAs
  <1>8. Good' /\ Drawn(text)' = Drawn(text) /\ TapsTyped /\ Books
    BY <1>1, TapsOnly DEF Session
  <1>9. ASSUME NEW data \in {NewHeap, Stack}, Listen(name, data), todo' = Tail(todo)
        PROVE  Session'
    <2>1. data \in Int /\ DOMAIN taps = {}
      <3>1. Len(taps) = 0 /\ DOMAIN taps = {}
        BY <1>7, ZeroFacts
      <3>2. NewHeap \in Int /\ Stack \in Int
        BY <3>1, ZeroFacts DEF NewHeap, Stack
      <3> QED
        BY <3>1, <3>2
    <2>2. TapsTyped' /\ Books'
      BY <1>8, <1>9, <2>1, ListenBooks
    <2>3. OnStage(m)'
      BY <1>1, <1>6, <1>7, <1>8 DEF OnStage, At, HeldAs
    <2> QED
      BY <1>1, <1>4, <1>5, <1>8, <1>9, <2>2, <2>3, GoesOn DEF Script
  <1>10. ASSUME NotFound(name), todo' = <<"finish">>
         PROVE  Session'
    <2>1. UNCHANGED <<taps, live, tapVars>>
      BY <1>10 DEF NotFound
    <2>2. TapsTyped' /\ Books' /\ (HeldAs("none")' <=> HeldAs("none"))
      BY <1>8, <2>1, DumperOnly
    <2>3. OnStage(s)'
      BY <1>1, <1>5, <1>6, <1>8, <2>2 DEF OnStage, At
    <2>4. Script(todo', s, Over)
      <3>1. 0 \in 0 .. 1
        BY ZeroFacts
      <3> QED
        BY <1>6, <1>10, <3>1, ScriptEmptyLine
    <2> QED
      BY <1>1, <1>4, <1>8, <2>2, <2>3, <2>4, GoesOn
  <1> QED
    BY <1>2, <1>9, <1>10

-----------------------------------------------------------------------------
LEMMA SessionStep == Session /\ SessionNext => Session'
  <1> SUFFICES ASSUME Session, SessionNext PROVE Session'
    OBVIOUS
  <1>1. CASE \E req \in DOMAIN Handler : Dispatch(req)
    BY <1>1, DispatchKeeps
  <1>2. CASE Refuse \/ Close
    BY <1>2, RestKeeps DEF Refuse, Close
  <1>3. CASE RegisterTap
    BY <1>3, RegisterTapKeeps
  <1>4. CASE WriteReply \/ FinishLine \/ TakeTurn
    BY <1>4, WriteReplyKeeps, FinishLineKeeps, TakeTurnKeeps
  <1>5. CASE GatherTap \/ GatherEnds \/ ListenOnce
    BY <1>5, GatherTapKeeps, GatherEndsKeeps, ListenOnceKeeps
  <1>6. CASE GatherGraph \/ GraphsEnd \/ AnswerGraph
    BY <1>6, GatherGraphKeeps, GraphsEndKeeps, AnswerGraphKeeps
  <1>7. CASE ReleaseNext \/ Drop
    BY <1>7, ReleaseNextKeeps, DropKeeps
  <1> QED
    BY <1>1, <1>2, <1>3, <1>4, <1>5, <1>6, <1>7 DEF SessionNext

LEMMA SessionHolds == MCSpec => [](served => Session)
  <1>1. MCInit => (served => Session)
    BY SessionBegins DEF MCInit
  <1>2. (served => Session) /\ [MCNext]_<<served, vars, sessionVars>> => (served => Session)'
    <2> SUFFICES ASSUME served => Session, [MCNext]_<<served, vars, sessionVars>>, served'
                 PROVE  Session'
      OBVIOUS
    <2>1. CASE MCNext
      BY <2>1, SessionStep DEF MCNext
    <2>2. CASE UNCHANGED <<served, vars, sessionVars>>
      <3>1. Session /\ UNCHANGED <<request, todo, taps, live, lines, vars, tapVars>>
        BY <2>2 DEF sessionVars
      <3>2. Good' /\ TapsTyped' /\ Books' /\ Drawn(text)' = Drawn(text)
        BY <3>1, TodoOnly, TapsOnly DEF Session
      <3>3. (\E s \in Stages : OnStage(s) /\ Fits(todo, s, Over))
               <=> (\E s \in Stages : OnStage(s) /\ Fits(todo, s, Over))'
        BY <3>1, TodoOnly
      <3>4. (DOMAIN Handler)' = DOMAIN Handler
        BY DEF Handler
      <3> QED
        BY <3>1, <3>2, <3>3, <3>4 DEF Session
    <2> QED
      BY <2>1, <2>2
  <1> QED
    BY <1>1, <1>2, PTL DEF MCSpec

\* Whatever is asked, in however many loops and before whichever early return,
\* the dumper accepts each of the session's calls (sharkd_session.c and
\* json_dumper.c), and a reply is at most one JSON value and then the empty line.
THEOREM RepliesAreSound == MCSpec => []SessionReplies
  <1>1. Session => RepliesSound
    <2> SUFFICES ASSUME Session PROVE RepliesSound
      OBVIOUS
    <2>1. Good
      BY DEF Session
    <2>2. ASSUME Waiting
          PROVE  /\ current_depth = 0 /\ text = Start /\ state[0] = Zero
                 /\ request \in DOMAIN Handler => lines \in {<<"empty">>, <<"value", "empty">>}
      <3>1. Drawn(text) = Outline["start"] /\ "start" \in Place
        BY <2>2, AtRest, Outlines
      <3>2. /\ text \in Seq(Context) /\ Len(text) = current_depth + 1
            /\ Len(Outline["start"]) = current_depth + 1 /\ current_depth \in 0 .. 4
            /\ Top(text) = ContextAt(current_depth)
            /\ Kind[ContextAt(current_depth)] = Outline["start"][current_depth + 1]
        BY <2>1, <3>1, WhereItIs
      <3>3. current_depth = 0
        BY <3>2, Depths
      <3>4. Kind[ContextAt(0)] = "start"
        BY <3>2, <3>3, Outlines
      <3>5. ContextAt(0) = "start" /\ ~Begun(0)
        BY <3>4 DEF ContextAt, Kind
      <3>6. text = Start
        <4>1. Start \in Seq(Context) /\ Len(Start) = 1 /\ Start[1] = "start"
          BY DEF Start, Context
        <4>2. Len(text) = 1 /\ text[1] = "start"
          BY <3>2, <3>3, <3>5 DEF Top
        <4> QED
          BY <3>2, <4>1, <4>2, SameSeq
      <3> QED
        BY <2>2, <3>3, <3>5, <3>6, AtRest DEF Begun
    <2>3. Waiting /\ request = "refused" => lines = << >>
      BY DEF Session
    <2> QED
      BY <2>1, <2>2, <2>3 DEF RepliesSound, Good
  <1>2. (served => Session) => SessionReplies
    BY <1>1 DEF SessionReplies
  <1> QED
    BY <1>2, SessionHolds, PTL

\* However many taps or graphs a request names, the same one twice or one that
\* fails among them, its handler (sharkd_session.c) returns each listener and
\* its data, once, before the next line is read.
THEOREM ListenersAreReturned == MCSpec => []SessionListeners
  <1>1. Session => ListenersReturned
    <2> SUFFICES ASSUME Session PROVE ListenersReturned
      OBVIOUS
    <2> DEFINE listening(d) == Cardinality({k \in DOMAIN tap_listener_queue :
                                               tap_listener_queue[k].data = d})
               returning(d) == Cardinality({k \in Returned : taps[k].data = d /\ ~taps[k].failed})
    <2>1. TapsTyped /\ Books /\ tap_listener_queue \in Seq(Listened) /\ taps \in Seq(Holdings)
      BY DEF Session, TapsTyped
    <2>2. \A d \in -MaxTaps .. MaxTaps : listening(d) = returning(d)
      <3> TAKE d \in -MaxTaps .. MaxTaps
      <3>1. d \in Int
        BY SessionAssumption
      <3>2. {k \in DOMAIN tap_listener_queue : tap_listener_queue[k].data = d}
              = {k \in DOMAIN tap_listener_queue : tap_listener_queue[k] \in With(d)}
        BY <2>1 DEF With
      <3>3. {k \in Returned : taps[k].data = d /\ ~taps[k].failed}
              = {k \in DOMAIN taps : taps[k] \in Owed(d)}
        BY <2>1 DEF Returned, Owed
      <3> QED
        BY <2>1, <3>1, <3>2, <3>3 DEF Books, CountIn
    <2>3. live = {d \in DataOf(Returned) : d > 0}
      <3>1. \A k \in DOMAIN taps : taps[k].data \in Int
        <4> TAKE k \in DOMAIN taps
        <4>1. taps[k] \in Holdings
          BY <2>1
        <4> QED
          BY <4>1 DEF Holdings
      <3>2. live \subseteq Int /\ DataOf(Returned) \subseteq Int
        BY <2>1, <3>1 DEF Books, DataOf, Returned
      <3>3. \A d \in Int : d \in DataOf(Returned) <=> \E k \in DOMAIN taps : ~taps[k].null /\ taps[k].data = d
        BY DEF DataOf, Returned
      <3>4. \A d \in Int : d \in live <=> d > 0 /\ d \in DataOf(Returned)
        BY <2>1, <3>3 DEF Books
      <3> QED
        BY <3>2, <3>4
    <2>4. \A j, k \in Returned : taps[j].data = taps[k].data /\ taps[j].data > 0 => j = k
      <3> TAKE j, k \in Returned
      <3>1. taps[j].data \in Int
        <4>1. j \in DOMAIN taps
          BY DEF Returned
        <4>2. taps[j] \in Holdings
          BY <2>1, <4>1
        <4> QED
          BY <4>2 DEF Holdings
      <3> QED
        BY <2>1, <3>1 DEF Books, Returned
    <2>5. ASSUME Waiting PROVE tap_listener_queue = << >> /\ live = {}
      <3>1. taps = << >>
        BY <2>5, AtRest
      <3>2. live = {}
        BY <2>1, <3>1 DEF Books
      <3>3. \A d \in Int : CountIn(taps, Owed(d)) = 0
        <4>1. DOMAIN taps = {}
          BY <3>1
        <4> QED
          BY <2>1, <4>1, CountSome
      <3>4. \A k \in DOMAIN tap_listener_queue : FALSE
        <4> SUFFICES ASSUME NEW k \in DOMAIN tap_listener_queue PROVE FALSE
          OBVIOUS
        <4> DEFINE d == tap_listener_queue[k].data
        <4>1. d \in Int /\ tap_listener_queue[k] \in With(d)
          <5>1. tap_listener_queue[k] \in Listened
            BY <2>1
          <5> QED
            BY <5>1 DEF With, Listened
        <4>2. CountIn(tap_listener_queue, With(d)) = 0
          BY <2>1, <3>3, <4>1 DEF Books
        <4> QED
          BY <2>1, <4>1, <4>2, CountSome
      <3>5. Len(tap_listener_queue) = 0
        <4>1. /\ Len(tap_listener_queue) \in Nat
              /\ DOMAIN tap_listener_queue = 1 .. Len(tap_listener_queue)
          BY <2>1
        <4> QED
          BY <3>4, <4>1
      <3>6. tap_listener_queue = << >>
        BY <2>1, <3>5
      <3> QED
        BY <3>2, <3>6
    <2> HIDE DEF listening, returning
    <2>6. ListenersReturned <=>
              /\ \A d \in -MaxTaps .. MaxTaps : listening(d) = returning(d)
              /\ live = {d \in DataOf(Returned) : d > 0}
              /\ \A j, k \in Returned : taps[j].data = taps[k].data /\ taps[j].data > 0 => j = k
              /\ Waiting => tap_listener_queue = << >> /\ live = {}
      BY DEF ListenersReturned, listening, returning
    <2> QED
      BY <2>2, <2>3, <2>4, <2>5, <2>6
  <1>2. (served => Session) => SessionListeners
    BY <1>1 DEF SessionListeners
  <1> QED
    BY <1>2, SessionHolds, PTL

=============================================================================
