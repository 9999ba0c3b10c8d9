-------------------------- MODULE EventPortsProofs --------------------------
(***************************************************************************)
(* Proofs about EventPorts, for any number of event types, EventSources,   *)
(* events and lost connections and any order of calls to SSE.elm.          *)
(***************************************************************************)
EXTENDS EventPorts, SequenceTheorems, TLAPS

\* The last EventSource listens for these types, and for events without one
\* if `any`.
Hears(types, any) ==
    /\ \A t \in types : sources # <<>> /\ t \in sources[Len(sources)].typed
    /\ any => sources # <<>> /\ sources[Len(sources)].onmessage

-----------------------------------------------------------------------------
(* The types.                                                              *)

\* A change of one source keeps the type of all.
LEMMA OneSourceType ==
    ASSUME sources \in Seq(Source), NEW i \in DOMAIN sources, NEW s \in Source,
           sources' = [sources EXCEPT ![i] = s]
    PROVE  sources' \in Seq(Source) /\ Len(sources') = Len(sources)
  <1>1. i \in 1 .. Len(sources)
    OBVIOUS
  <1> QED
    BY <1>1, ExceptSeq

\* What CarryOut leaves in the last source.
LEMMA AddHandlersType ==
    ASSUME NEW srcs \in Seq(Source), srcs # <<>>, NEW type \in EventTypes \cup {NoType}
    PROVE  /\ AddEventHandlers(type, srcs) \in Seq(Source)
           /\ Len(AddEventHandlers(type, srcs)) = Len(srcs)
  <1> DEFINE n == Len(srcs)
             s == IF type = NoType THEN [srcs[n] EXCEPT !.onmessage = TRUE]
                  ELSE [srcs[n] EXCEPT !.typed = @ \cup {type}]
  <1>1. n \in 1 .. Len(srcs) /\ srcs[n] \in Source
    OBVIOUS
  <1>2. s \in Source
    BY <1>1 DEF Source
  <1>3. AddEventHandlers(type, srcs) = [srcs EXCEPT ![n] = s]
    BY DEF AddEventHandlers
  <1> HIDE DEF n, s
  <1>4. [srcs EXCEPT ![n] = s] \in Seq(Source) /\ Len([srcs EXCEPT ![n] = s]) = Len(srcs)
    BY <1>1, <1>2, ExceptSeq
  <1> QED
    BY <1>3, <1>4

\* A new EventSource is one.
LEMMA CreateType ==
    ASSUME sources \in Seq(Source)
    PROVE  /\ CreateNewEventSource \in Seq(Source)
           /\ Len(CreateNewEventSource) = Len(sources) + 1
           /\ CreateNewEventSource # <<>>
  <1> DEFINE s == [link |-> "connecting", typed |-> {}, onmessage |-> FALSE, wire |-> <<>>]
  <1>1. <<>> \in Seq(Event)
    OBVIOUS
  <1>2. s \in Source
    BY <1>1 DEF Source
  <1>3. CreateNewEventSource = Append(sources, s)
    BY DEF CreateNewEventSource
  <1> HIDE DEF s
  <1> QED
    BY <1>2, <1>3, AppendProperties

\* A call keeps the types.
LEMMA CalledType ==
    ASSUME TypeOK, NEW name, NEW types \in SUBSET EventTypes, NEW any \in BOOLEAN,
           NEW cmds \in SUBSET Command, Called(name, types, any, cmds)
    PROVE  TypeOK'
  BY DEF TypeOK, Called, sourceVars

\* The commands that calls return are commands.
LEMMA CommandsType ==
    ASSUME NEW type \in EventTypes \cup {NoType}, NEW types, NEW any
    PROVE  Attach(type) \in SUBSET Command /\ Detach(types, any, type) \in SUBSET Command
  BY DEF Attach, Detach, Cmd, Command

LEMMA CallType ==
    ASSUME TypeOK, Call
    PROVE  TypeOK'
  <1>1. decoders \subseteq EventTypes /\ untyped \in BOOLEAN
    BY DEF TypeOK
  <1>2. {} \in SUBSET Command /\ Cmd("deleteEventSourceJS", NoType) \in SUBSET Command
    BY DEF Cmd, Command
  <1>3. ASSUME NEW t \in EventTypes, WithListener(t) PROVE TypeOK'
    <2>1. (IF t \in decoders THEN {} ELSE Attach(t)) \in SUBSET Command
      BY <1>2, CommandsType
    <2> QED
      BY <1>1, <1>3, <2>1, CalledType DEF WithListener
  <1>4. ASSUME NEW t \in EventTypes, WithoutListener(t) PROVE TypeOK'
    <2>1. Detach(decoders \ {t}, untyped, t) \in SUBSET Command
      BY CommandsType
    <2> QED
      BY <1>1, <1>4, <2>1, CalledType DEF WithoutListener
  <1>5. CASE WithUntypedListener
    BY <1>1, <1>5, CommandsType, CalledType DEF WithUntypedListener
  <1>6. CASE WithoutUntypedListener
    BY <1>1, <1>6, CommandsType, CalledType DEF WithoutUntypedListener
  <1>7. CASE WithoutAnyListener
    <2>1. (IF HasListeners(decoders, untyped) THEN Cmd("deleteEventSourceJS", NoType) ELSE {})
            \in SUBSET Command
      BY <1>2
    <2> QED
      BY <1>7, <2>1, CalledType DEF WithoutAnyListener
  <1> QED
    BY <1>3, <1>4, <1>5, <1>6, <1>7 DEF Call

LEMMA CarryOutType ==
    ASSUME TypeOK, NEW c \in commands, CarryOut(c)
    PROVE  TypeOK'
  <1>1. c \in Command /\ c.type \in EventTypes \cup {NoType}
    BY DEF TypeOK, Command
  <1>2. /\ sources \in Seq(Source) /\ Len(sources) <= MaxSources /\ threw \in BOOLEAN
        /\ MaxSources \in Nat
    BY EventPortsAssumption DEF TypeOK
  <1>3. ASSUME NEW doCreate \in BOOLEAN, DoAddListener(c.type, doCreate)
        PROVE  sources' \in Seq(Source) /\ Len(sources') <= MaxSources /\ threw' \in BOOLEAN
    <2> DEFINE srcs == IF doCreate THEN CreateNewEventSource ELSE sources
    <2>1. srcs \in Seq(Source) /\ Len(srcs) <= MaxSources
      BY <1>2, <1>3, CreateType DEF DoAddListener
    <2>2. /\ srcs = <<>> => sources' = sources /\ threw' = TRUE
          /\ srcs # <<>> => sources' = AddEventHandlers(c.type, srcs) /\ threw' = threw
      BY <1>3 DEF DoAddListener
    <2> HIDE DEF srcs
    <2> QED
      BY <1>1, <1>2, <2>1, <2>2, AddHandlersType
  <1>4. sources' \in Seq(Source) /\ Len(sources') <= MaxSources /\ threw' \in BOOLEAN
    <2>1. DoAddListener(c.type, TRUE) \/ DoAddListener(c.type, FALSE) \/ Pruned
      BY DEF CarryOut
    <2> QED
      BY <1>2, <1>3, <2>1 DEF Pruned
  <1> QED
    BY <1>4 DEF TypeOK, CarryOut, elmVars

\* What the browser does to a source leaves its listeners, and their number.
LEMMA BrowserStep ==
    ASSUME TypeOK, Browser
    PROVE  /\ TypeOK'
           /\ Len(sources') = Len(sources)
           /\ \A j \in 1 .. Len(sources) : /\ sources'[j].typed = sources[j].typed
                                           /\ sources'[j].onmessage = sources[j].onmessage
           /\ UNCHANGED <<page, elmVars, commands, threw>>
  <1>1. sources \in Seq(Source) /\ Len(sources) <= MaxSources /\ drops \in 0 .. MaxDrops
    BY DEF TypeOK
  <1>2. PICK i \in DOMAIN sources : Connect(i) \/ Drop(i) \/ GiveUp(i) \/ Dispatch(i)
    BY DEF Browser
  <1>3. i \in 1 .. Len(sources) /\ sources[i] \in Source
    BY <1>1
  <1>4. \E s \in Source :
           /\ sources' = [sources EXCEPT ![i] = s]
           /\ s.typed = sources[i].typed /\ s.onmessage = sources[i].onmessage
    <2>1. CASE Connect(i)
      <3>1. [sources[i] EXCEPT !.link = "open"] \in Source
        BY <1>3 DEF Source
      <3> QED
        BY <1>3, <2>1, <3>1 DEF Connect, Source
    <2>2. CASE Drop(i)
      <3>1. <<>> \in Seq(Event)
        OBVIOUS
      <3>2. [sources[i] EXCEPT !.link = "connecting", !.wire = <<>>] \in Source
        BY <1>3, <3>1 DEF Source
      <3>3. sources' = [sources EXCEPT ![i] =
                           [sources[i] EXCEPT !.link = "connecting", !.wire = <<>>]]
        BY <1>3, <2>2 DEF Drop
      <3> QED
        BY <1>3, <3>2, <3>3 DEF Source
    <2>3. CASE GiveUp(i)
      <3>1. [sources[i] EXCEPT !.link = "closed"] \in Source
        BY <1>3 DEF Source
      <3> QED
        BY <1>3, <2>3, <3>1 DEF GiveUp, Source
    <2>4. CASE Dispatch(i)
      <3>1. sources[i].wire \in Seq(Event) /\ sources[i].wire # <<>>
        BY <1>3, <2>4 DEF Dispatch, Source
      <3>2. Tail(sources[i].wire) \in Seq(Event)
        BY <3>1, HeadTailProperties
      <3>3. [sources[i] EXCEPT !.wire = Tail(@)] \in Source
        BY <1>3, <3>2 DEF Source
      <3> QED
        BY <1>3, <2>4, <3>3 DEF Dispatch, Source
    <2> QED
      BY <1>2, <2>1, <2>2, <2>3, <2>4
  <1>5. PICK s \in Source :
           /\ sources' = [sources EXCEPT ![i] = s]
           /\ s.typed = sources[i].typed /\ s.onmessage = sources[i].onmessage
    BY <1>4
  <1>6. sources' \in Seq(Source) /\ Len(sources') = Len(sources)
    BY <1>1, <1>5, OneSourceType
  <1>7. /\ UNCHANGED <<page, elmVars, commands, threw, emitted>>
        /\ drops' \in 0 .. MaxDrops
    BY <1>1, <1>2, EventPortsAssumption DEF Connect, Drop, GiveUp, Dispatch
  <1>8. TypeOK'
    BY <1>1, <1>6, <1>7 DEF TypeOK, elmVars
  <1>9. \A j \in 1 .. Len(sources) : /\ sources'[j].typed = sources[j].typed
                                     /\ sources'[j].onmessage = sources[j].onmessage
    BY <1>1, <1>5
  <1> QED
    BY <1>6, <1>7, <1>8, <1>9

\* An event on its way leaves them, too.
LEMMA EmitStep ==
    ASSUME TypeOK, NEW e \in Event, Emit(e)
    PROVE  /\ TypeOK'
           /\ Len(sources') = Len(sources)
           /\ \A j \in 1 .. Len(sources) : /\ sources'[j].typed = sources[j].typed
                                           /\ sources'[j].onmessage = sources[j].onmessage
           /\ UNCHANGED <<page, elmVars, commands, threw>>
  <1> DEFINE s(i) == IF sources[i].link = "open"
                     THEN [sources[i] EXCEPT !.wire = Append(@, e)] ELSE sources[i]
  <1>1. /\ sources \in Seq(Source) /\ Len(sources) <= MaxSources
        /\ DOMAIN sources = 1 .. Len(sources)
    BY DEF TypeOK
  <1>2. ASSUME NEW i \in 1 .. Len(sources)
        PROVE  s(i) \in Source /\ s(i).typed = sources[i].typed /\ s(i).onmessage = sources[i].onmessage
    <2>1. sources[i] \in Source
      BY <1>1
    <2>2. Append(sources[i].wire, e) \in Seq(Event)
      BY <2>1, AppendProperties DEF Source
    <2>3. [sources[i] EXCEPT !.wire = Append(@, e)] \in Source
      BY <2>1, <2>2 DEF Source
    <2> QED
      BY <2>1, <2>3 DEF Source
  <1>3. sources' = [i \in 1 .. Len(sources) |-> s(i)]
    BY <1>1 DEF Emit
  <1> HIDE DEF s
  <1>4. sources' \in Seq(Source) /\ Len(sources') = Len(sources)
    <2>1. sources' \in [1 .. Len(sources) -> Source] /\ Len(sources) \in Nat
      BY <1>1, <1>2, <1>3
    <2> QED
      BY <2>1, SeqDef, LenProperties
  <1>5. emitted' \in 0 .. MaxEvents
    BY EventPortsAssumption DEF Emit, TypeOK
  <1>6. TypeOK'
    BY <1>1, <1>4, <1>5 DEF TypeOK, Emit, elmVars
  <1>7. \A j \in 1 .. Len(sources) : /\ sources'[j].typed = sources[j].typed
                                     /\ sources'[j].onmessage = sources[j].onmessage
    <2> SUFFICES ASSUME NEW j \in 1 .. Len(sources)
                 PROVE  /\ sources'[j].typed = sources[j].typed
                        /\ sources'[j].onmessage = sources[j].onmessage
      OBVIOUS
    <2>1. sources'[j] = s(j)
      BY <1>3
    <2> QED
      BY <1>2, <2>1
  <1>8. UNCHANGED <<page, elmVars, commands, threw>>
    BY DEF Emit, elmVars
  <1> QED
    BY <1>4, <1>6, <1>7, <1>8

LEMMA TypeStep == TypeOK /\ [NextPorts]_portVars => TypeOK'
  <1> SUFFICES ASSUME TypeOK, [NextPorts]_portVars PROVE TypeOK'
    OBVIOUS
  <1>1. CASE Load
    BY <1>1 DEF TypeOK, Load, elmVars, sourceVars
  <1>2. CASE Call
    BY <1>2, CallType
  <1>3. ASSUME NEW c \in commands, CarryOut(c) PROVE TypeOK'
    BY <1>3, CarryOutType
  <1>4. ASSUME NEW e \in Event, Emit(e) PROVE TypeOK'
    BY <1>4, EmitStep
  <1>5. CASE Browser
    BY <1>5, BrowserStep
  <1>6. CASE UNCHANGED portVars
    BY <1>6 DEF TypeOK, portVars, elmVars, sourceVars
  <1> QED
    BY <1>1, <1>2, <1>3, <1>4, <1>5, <1>6 DEF NextPorts

LEMMA InitType == InitPorts => TypeOK
  <1> SUFFICES ASSUME InitPorts PROVE TypeOK
    OBVIOUS
  <1>1. <<>> \in Seq(Source)
    OBVIOUS
  <1>2. sources \in Seq(Source) /\ Len(sources) = 0
    BY <1>1 DEF InitPorts
  <1>3. /\ page \in {"blank", "loaded"} /\ untyped \in BOOLEAN /\ threw \in BOOLEAN
        /\ decoders \subseteq EventTypes /\ commands \subseteq Command
    BY DEF InitPorts
  <1>4. drops \in 0 .. MaxDrops /\ emitted \in 0 .. MaxEvents /\ Len(sources) <= MaxSources
    BY <1>2, EventPortsAssumption DEF InitPorts
  <1> QED
    BY <1>2, <1>3, <1>4 DEF TypeOK

\* Decoders, commands, sources and what is on their way keep their types.
THEOREM TypeCorrect == SpecPorts => []TypeOK
  BY InitType, TypeStep, PTL DEF SpecPorts
-----------------------------------------------------------------------------
(* Every decoder is heard.                                                 *)

\* What a command that is still to be carried out stands for: the first source
\* is made for the one decoder there is, a listener is added to a source that
\* hears every other decoder, and the others change nothing.
Stands(c) ==
    CASE c.port = "createEventSourceAndAddListenerJS" ->
           IF c.type = NoType THEN decoders = {} /\ untyped
           ELSE decoders = {c.type} /\ ~ untyped
      [] c.port = "addListenerJS" ->
           /\ sources # <<>>
           /\ IF c.type = NoType THEN Hears(decoders, FALSE)
              ELSE Hears(decoders \ {c.type}, untyped)
      [] OTHER -> Hears(decoders, untyped)

Inv ==
    /\ TypeOK
    /\ threw = FALSE
    /\ \/ commands = {} /\ Hears(decoders, untyped)
       \/ \E c \in Command : commands = {c} /\ Stands(c)

\* addEventHandlers adds the listener to the last source and takes none away.
LEMMA HandlersAdded ==
    ASSUME NEW srcs \in Seq(Source), srcs # <<>>, NEW type \in EventTypes \cup {NoType}
    PROVE  LET added == AddEventHandlers(type, srcs)
           IN  /\ added # <<>> /\ Len(added) = Len(srcs)
               /\ srcs[Len(srcs)].typed \subseteq added[Len(srcs)].typed
               /\ type # NoType => type \in added[Len(srcs)].typed
               /\ type = NoType \/ srcs[Len(srcs)].onmessage => added[Len(srcs)].onmessage
  <1> DEFINE added == AddEventHandlers(type, srcs)
  <1>1. added \in Seq(Source) /\ Len(added) = Len(srcs) /\ added # <<>>
    BY AddHandlersType
  <1>2. Len(srcs) \in DOMAIN srcs /\ srcs[Len(srcs)] \in Source
    OBVIOUS
  <1>3. CASE type = NoType
    BY <1>1, <1>2, <1>3 DEF AddEventHandlers, Source
  <1>4. CASE type # NoType
    BY <1>1, <1>2, <1>4 DEF AddEventHandlers, Source
  <1> QED
    BY <1>3, <1>4

\* A call leaves every decoder heard, or a command that stands for it.
LEMMA CallHeard ==
    ASSUME Inv, Call
    PROVE  Inv'
  <1>1. TypeOK' /\ threw' = FALSE
    BY CallType DEF Inv, Call, WithListener, WithoutListener, WithUntypedListener,
       WithoutUntypedListener, WithoutAnyListener, Called, sourceVars
  <1>2. /\ commands = {} /\ Hears(decoders, untyped) /\ UNCHANGED sources
        /\ decoders \subseteq EventTypes /\ untyped \in BOOLEAN
    BY DEF Inv, TypeOK, Call, WithListener, WithoutListener, WithUntypedListener,
       WithoutUntypedListener, WithoutAnyListener, Called, sourceVars
  <1>3. ASSUME NEW port \in {"createEventSourceAndAddListenerJS", "addListenerJS",
                             "removeListenerJS", "deleteEventSourceJS"},
               NEW type \in EventTypes \cup {NoType},
               commands' = Cmd(port, type), Stands([port |-> port, type |-> type])'
        PROVE  Inv'
    BY <1>1, <1>3 DEF Inv, Cmd, Command
  <1>4. ASSUME commands' = {}, Hears(decoders, untyped)' PROVE Inv'
    BY <1>1, <1>4 DEF Inv
  <1>5. NoType \notin EventTypes
    BY EventPortsAssumption
  <1>6. ASSUME NEW t \in EventTypes, WithListener(t) PROVE Inv'
    <2>1. decoders' = decoders \cup {t} /\ untyped' = untyped
      BY <1>6 DEF WithListener, Called
    <2>2. CASE t \in decoders
      BY <1>2, <1>4, <1>6, <2>1, <2>2 DEF WithListener, Called, Hears
    <2>3. CASE t \notin decoders /\ HasListeners(decoders, untyped)
      <3>1. commands' = Cmd("addListenerJS", t)
        BY <1>6, <2>3 DEF WithListener, Called, Attach
      <3>2. Stands([port |-> "addListenerJS", type |-> t])'
        BY <1>2, <1>5, <2>1, <2>3 DEF Stands, Hears, HasListeners
      <3> QED
        BY <1>3, <3>1, <3>2
    <2>4. CASE t \notin decoders /\ ~ HasListeners(decoders, untyped)
      <3>1. commands' = Cmd("createEventSourceAndAddListenerJS", t)
        BY <1>6, <2>4 DEF WithListener, Called, Attach
      <3>2. Stands([port |-> "createEventSourceAndAddListenerJS", type |-> t])'
        BY <1>2, <1>5, <2>1, <2>4 DEF Stands, HasListeners
      <3> QED
        BY <1>3, <3>1, <3>2
    <2> QED
      BY <2>2, <2>3, <2>4
  <1>7. ASSUME WithUntypedListener PROVE Inv'
    <2>1. decoders' = decoders /\ untyped' = TRUE
      BY <1>7 DEF WithUntypedListener, Called
    <2>2. CASE HasListeners(decoders, untyped)
      <3>1. commands' = Cmd("addListenerJS", NoType)
        BY <1>7, <2>2 DEF WithUntypedListener, Called, Attach
      <3>2. Stands([port |-> "addListenerJS", type |-> NoType])'
        BY <1>2, <2>1, <2>2 DEF Stands, Hears, HasListeners
      <3> QED
        BY <1>3, <3>1, <3>2
    <2>3. CASE ~ HasListeners(decoders, untyped)
      <3>1. commands' = Cmd("createEventSourceAndAddListenerJS", NoType)
        BY <1>7, <2>3 DEF WithUntypedListener, Called, Attach
      <3>2. Stands([port |-> "createEventSourceAndAddListenerJS", type |-> NoType])'
        BY <1>2, <2>1, <2>3 DEF Stands, HasListeners
      <3> QED
        BY <1>3, <3>1, <3>2
    <2> QED
      BY <2>2, <2>3
  <1>8. ASSUME NEW types \in SUBSET decoders, NEW any \in BOOLEAN, any => untyped,
               NEW type \in EventTypes \cup {NoType},
               decoders' = types, untyped' = any,
               commands' = Detach(types, any, type) \/ commands' = {}
               \/ commands' = Cmd("deleteEventSourceJS", NoType)
        PROVE  Inv'
    <2>1. Hears(decoders, untyped)'
      BY <1>2, <1>8 DEF Hears
    <2>2. /\ Stands([port |-> "removeListenerJS", type |-> type])'
          /\ Stands([port |-> "deleteEventSourceJS", type |-> NoType])'
      BY <2>1 DEF Stands
    <2> QED
      BY <1>3, <1>4, <1>8, <2>1, <2>2 DEF Detach
  <1>9. ASSUME NEW t \in EventTypes, WithoutListener(t) PROVE Inv'
    BY <1>2, <1>8, <1>9 DEF WithoutListener, Called
  <1>10. ASSUME WithoutUntypedListener PROVE Inv'
    BY <1>2, <1>8, <1>10 DEF WithoutUntypedListener, Called
  <1>11. ASSUME WithoutAnyListener PROVE Inv'
    BY <1>2, <1>8, <1>11 DEF WithoutAnyListener, Called
  <1> QED
    BY <1>6, <1>7, <1>9, <1>10, <1>11 DEF Call

\* A command that has been carried out leaves every decoder heard.
LEMMA CarryOutHeard ==
    ASSUME Inv, NEW c \in commands, CarryOut(c)
    PROVE  Inv'
  <1>1. /\ c \in Command /\ commands = {c} /\ Stands(c) /\ threw = FALSE
        /\ sources \in Seq(Source) /\ TypeOK /\ commands \ {c} = {}
    BY DEF Inv, TypeOK
  <1>2. TypeOK' /\ commands' = {} /\ UNCHANGED <<decoders, untyped>>
    BY <1>1, CarryOutType DEF CarryOut, elmVars
  <1>3. c.type \in EventTypes \cup {NoType} /\ NoType \notin EventTypes
    BY <1>1, EventPortsAssumption DEF Command
  <1>4. threw' = FALSE /\ Hears(decoders, untyped)'
    <2>1. CASE c.port = "createEventSourceAndAddListenerJS"
      <3> DEFINE srcs == CreateNewEventSource
      <3>1. srcs \in Seq(Source) /\ srcs # <<>>
        BY <1>1, CreateType
      <3>2. sources' = AddEventHandlers(c.type, srcs) /\ threw' = threw
        BY <2>1, <3>1 DEF CarryOut, DoAddListener
      <3> HIDE DEF srcs
      <3>3. /\ sources' # <<>> /\ Len(sources') = Len(srcs)
            /\ c.type # NoType => c.type \in sources'[Len(srcs)].typed
            /\ c.type = NoType => sources'[Len(srcs)].onmessage
        BY <1>3, <3>1, <3>2, HandlersAdded
      <3> QED
        BY <1>1, <1>2, <2>1, <3>2, <3>3 DEF Stands, Hears
    <2>2. CASE c.port = "addListenerJS"
      <3>1. sources # <<>>
        BY <1>1, <2>2 DEF Stands
      <3>2. sources' = AddEventHandlers(c.type, sources) /\ threw' = threw
        BY <2>2, <3>1 DEF CarryOut, DoAddListener
      <3>3. /\ sources' # <<>> /\ Len(sources') = Len(sources)
            /\ sources[Len(sources)].typed \subseteq sources'[Len(sources)].typed
            /\ c.type # NoType => c.type \in sources'[Len(sources)].typed
            /\ c.type = NoType \/ sources[Len(sources)].onmessage
                 => sources'[Len(sources)].onmessage
        BY <1>1, <1>3, <3>1, <3>2, HandlersAdded
      <3> QED
        BY <1>1, <1>2, <1>3, <2>2, <3>1, <3>2, <3>3 DEF Stands, Hears
    <2>3. CASE c.port \in {"removeListenerJS", "deleteEventSourceJS"}
      <3>1. UNCHANGED <<sources, threw>>
        BY <2>3 DEF CarryOut, Pruned
      <3> QED
        BY <1>1, <1>2, <2>3, <3>1 DEF Stands, Hears
    <2> QED
      BY <1>1, <2>1, <2>2, <2>3 DEF Command
  <1> QED
    BY <1>2, <1>4 DEF Inv

\* Nothing that leaves the listeners of the sources changes who is heard.
LEMMA StillHeard ==
    ASSUME Inv, TypeOK', Len(sources') = Len(sources), UNCHANGED <<elmVars, commands, threw>>,
           \A j \in 1 .. Len(sources) : /\ sources'[j].typed = sources[j].typed
                                        /\ sources'[j].onmessage = sources[j].onmessage
    PROVE  Inv'
  <1>1. sources \in Seq(Source) /\ sources' \in Seq(Source)
    BY DEF Inv, TypeOK
  <1>2. sources # <<>> <=> sources' # <<>>
    BY <1>1
  <1>3. sources # <<>> => Len(sources) \in 1 .. Len(sources)
    BY <1>1
  <1>4. \A types, any : Hears(types, any) =>
            /\ \A t \in types : sources' # <<>> /\ t \in sources'[Len(sources')].typed
            /\ any => sources' # <<>> /\ sources'[Len(sources')].onmessage
    BY <1>2, <1>3 DEF Hears
  <1>5. \A c \in Command : Stands(c) => Stands(c)'
    BY <1>2, <1>4 DEF Stands, Hears, elmVars
  <1>6. Hears(decoders, untyped) => Hears(decoders, untyped)'
    BY <1>4 DEF Hears, elmVars
  <1> QED
    BY <1>5, <1>6 DEF Inv

LEMMA InvStep == Inv /\ [NextPorts]_portVars => Inv'
  <1> SUFFICES ASSUME Inv, [NextPorts]_portVars PROVE Inv'
    OBVIOUS
  <1>1. TypeOK /\ TypeOK'
    BY TypeStep DEF Inv
  <1>2. CASE Load
    BY <1>1, <1>2, StillHeard DEF Load, sourceVars
  <1>3. CASE Call
    BY <1>3, CallHeard
  <1>4. ASSUME NEW c \in commands, CarryOut(c) PROVE Inv'
    BY <1>4, CarryOutHeard
  <1>5. ASSUME NEW e \in Event, Emit(e) PROVE Inv'
    BY <1>1, <1>5, EmitStep, StillHeard
  <1>6. CASE Browser
    BY <1>1, <1>6, BrowserStep, StillHeard
  <1>7. CASE UNCHANGED portVars
    BY <1>1, <1>7, StillHeard DEF portVars, sourceVars
  <1> QED
    BY <1>2, <1>3, <1>4, <1>5, <1>6, <1>7 DEF NextPorts

LEMMA InitInv == InitPorts => Inv
  BY InitType DEF InitPorts, Inv, Hears

\* However the functions of SSE.elm are called, and however connections are
\* lost and events come meanwhile, the last EventSource of the page listens for
\* every type that has a decoder once the ports have carried out the commands.
THEOREM ListenersHeard == SpecPorts => []Heard
  <1>1. Inv => Heard
    BY DEF Inv, Heard, Hears, Last
  <1> QED
    BY <1>1, InitInv, InvStep, PTL DEF SpecPorts

\* elm-ports.js never adds a listener to an EventSource that is not there.
THEOREM NeverThrows == SpecPorts => []NoThrow
  <1>1. Inv => NoThrow
    BY DEF Inv, NoThrow
  <1> QED
    BY <1>1, InitInv, InvStep, PTL DEF SpecPorts
-----------------------------------------------------------------------------
(* A page that takes no listener away.                                     *)

OnlyAdds == Calls \subseteq {"withListener", "withUntypedListener"}

\* The first listener has a source made, and the others find it.
Single ==
    \/ /\ ~ HasListeners(decoders, untyped) /\ commands = {} /\ sources = <<>>
    \/ /\ HasListeners(decoders, untyped) /\ sources = <<>>
       /\ \E c \in Command : commands = {c} /\ c.port = "createEventSourceAndAddListenerJS"
    \/ /\ HasListeners(decoders, untyped) /\ Len(sources) = 1
       /\ \A c \in commands : c.port = "addListenerJS"

LEMMA SingleCall ==
    ASSUME TypeOK, Single, OnlyAdds, Call
    PROVE  Single'
  <1>1. commands = {} /\ UNCHANGED sources
    BY DEF Call, WithListener, WithoutListener, WithUntypedListener,
       WithoutUntypedListener, WithoutAnyListener, Called, sourceVars
  <1>2. ASSUME NEW type \in EventTypes \cup {NoType}, HasListeners(decoders, untyped)',
               commands' = Attach(type)
        PROVE  Single'
    <2>1. CASE HasListeners(decoders, untyped)
      <3>1. commands' = Cmd("addListenerJS", type) /\ Len(sources) = 1
        BY <1>1, <1>2, <2>1 DEF Single, Attach
      <3> QED
        BY <1>1, <1>2, <3>1 DEF Single, Cmd
    <2>2. CASE ~ HasListeners(decoders, untyped)
      <3>1. commands' = Cmd("createEventSourceAndAddListenerJS", type)
        BY <1>2, <2>2 DEF Attach
      <3>2. [port |-> "createEventSourceAndAddListenerJS", type |-> type] \in Command
        BY DEF Command
      <3> QED
        BY <1>1, <1>2, <2>2, <3>1, <3>2 DEF Single, Cmd
    <2> QED
      BY <2>1, <2>2
  <1>3. ASSUME NEW t \in EventTypes, WithListener(t) PROVE Single'
    <2>1. HasListeners(decoders, untyped)'
      BY <1>3 DEF WithListener, Called, HasListeners
    <2>2. CASE t \in decoders
      <3>1. HasListeners(decoders, untyped) /\ commands' = {}
        BY <1>3, <2>2 DEF WithListener, Called, HasListeners
      <3>2. Len(sources) = 1
        BY <1>1, <3>1 DEF Single
      <3> QED
        BY <1>1, <2>1, <3>1, <3>2 DEF Single
    <2>3. CASE t \notin decoders
      <3>1. commands' = Attach(t)
        BY <1>3, <2>3 DEF WithListener, Called
      <3> QED
        BY <1>2, <2>1, <3>1
    <2> QED
      BY <2>2, <2>3
  <1>4. CASE WithUntypedListener
    <2>1. HasListeners(decoders, untyped)' /\ commands' = Attach(NoType)
      BY <1>4 DEF WithUntypedListener, Called, HasListeners
    <2> QED
      BY <1>2, <2>1
  <1> QED
    BY <1>3, <1>4 DEF Call, OnlyAdds, WithoutListener, WithoutUntypedListener,
       WithoutAnyListener, Called

LEMMA SingleCarryOut ==
    ASSUME TypeOK, Single, NEW c \in commands, CarryOut(c)
    PROVE  Single'
  <1>1. /\ c \in Command /\ sources \in Seq(Source) /\ UNCHANGED <<decoders, untyped>>
        /\ HasListeners(decoders, untyped) /\ HasListeners(decoders, untyped)'
        /\ commands' = commands \ {c} /\ c.type \in EventTypes \cup {NoType}
    BY DEF TypeOK, CarryOut, elmVars, Single, Command, HasListeners
  <1>2. CASE sources = <<>>
    <2>1. commands' = {} /\ c.port = "createEventSourceAndAddListenerJS"
      BY <1>1, <1>2 DEF Single
    <2>2. CreateNewEventSource \in Seq(Source) /\ CreateNewEventSource # <<>>
          /\ Len(CreateNewEventSource) = 1
      BY <1>1, <1>2, CreateType
    <2>3. sources' = AddEventHandlers(c.type, CreateNewEventSource)
      BY <2>1, <2>2 DEF CarryOut, DoAddListener
    <2> QED
      BY <1>1, <2>1, <2>2, <2>3, AddHandlersType DEF Single
  <1>3. CASE sources # <<>>
    <2>1. Len(sources) = 1 /\ c.port = "addListenerJS" /\ \A d \in commands' : d.port = "addListenerJS"
      BY <1>1, <1>3 DEF Single
    <2>2. sources' = AddEventHandlers(c.type, sources)
      BY <1>3, <2>1 DEF CarryOut, DoAddListener
    <2> QED
      BY <1>1, <1>3, <2>1, <2>2, AddHandlersType DEF Single
  <1> QED
    BY <1>2, <1>3

\* "we only call if there isn't one yet": a page that only adds listeners, as
\* the program does, has one EventSource, and the service one connection for it.
THEOREM OneConnection == OnlyAdds /\ SpecPorts => []OneSource
  <1> SUFFICES ASSUME OnlyAdds PROVE SpecPorts => []OneSource
    OBVIOUS
  <1>1. TypeOK /\ Single /\ [NextPorts]_portVars => Single'
    <2> SUFFICES ASSUME TypeOK, Single, [NextPorts]_portVars PROVE Single'
      OBVIOUS
    <2>1. TypeOK'
      BY TypeStep
    <2>2. ASSUME TypeOK', Len(sources') = Len(sources), UNCHANGED <<elmVars, commands>>
          PROVE  Single'
      <3>1. sources \in Seq(Source) /\ sources' \in Seq(Source)
        BY <2>2 DEF TypeOK
      <3>2. sources = <<>> <=> sources' = <<>>
        BY <2>2, <3>1
      <3> QED
        BY <2>2, <3>2 DEF Single, elmVars
    <2>3. CASE Load
      BY <2>1, <2>2, <2>3 DEF Load, sourceVars
    <2>4. CASE Call
      BY <2>4, SingleCall
    <2>5. ASSUME NEW c \in commands, CarryOut(c) PROVE Single'
      BY <2>5, SingleCarryOut
    <2>6. ASSUME NEW e \in Event, Emit(e) PROVE Single'
      BY <2>1, <2>2, <2>6, EmitStep
    <2>7. CASE Browser
      BY <2>1, <2>2, <2>7, BrowserStep
    <2>8. CASE UNCHANGED portVars
      BY <2>1, <2>2, <2>8 DEF portVars, sourceVars
    <2> QED
      BY <2>3, <2>4, <2>5, <2>6, <2>7, <2>8 DEF NextPorts
  <1>2. InitPorts => Single
    BY DEF InitPorts, Single, HasListeners
  <1>3. TypeOK /\ Single => OneSource
    <2> SUFFICES ASSUME sources \in Seq(Source), Single PROVE Len(sources) <= 1
      BY DEF TypeOK, OneSource
    <2>1. sources = <<>> \/ Len(sources) = 1
      BY DEF Single
    <2>2. sources = <<>> => Len(sources) = 0
      OBVIOUS
    <2>3. 0 <= 1 /\ 1 <= 1
      OBVIOUS
    <2> QED
      BY <2>1, <2>2, <2>3
  <1> QED
    BY <1>1, <1>2, <1>3, InitType, TypeStep, PTL DEF SpecPorts
=============================================================================
