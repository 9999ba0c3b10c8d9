----------------------------- MODULE EventPorts -----------------------------
(***************************************************************************)
(* Server-sent events in the page: SSE.elm, which keeps the decoders of    *)
(* one endpoint and issues port commands, elm-ports.js, which carries the  *)
(* commands out on EventSources and hands events back, and the browser's   *)
(* EventSource as these two use it.                                        *)
(*                                                                         *)
(* Elm runs one update at a time, and the port commands an update returns  *)
(* are carried out before the next one.                                    *)
(***************************************************************************)
EXTENDS Naturals, SequencesExt

CONSTANTS
    EventTypes,  \* names of events, of those sent and those listened for
    Message,     \* the name of an event that is sent without one
    NoType,      \* "Nothing", the type of an untyped listener
    Payloads,    \* what an event carries
    Calls,       \* the functions of SSE.elm that the program calls
    MaxSources,  \* bound on the EventSources of a page
    MaxEvents,   \* bound on the events sent
    MaxDrops     \* bound on the connections lost

AllCalls == {"withListener", "withUntypedListener", "withoutListener",
             "withoutUntypedListener", "withoutAnyListener"}

ASSUME EventPortsAssumption ==
    /\ NoType \notin EventTypes \cup {Message}
    /\ Calls \subseteq AllCalls
    /\ MaxSources \in Nat \ {0} /\ MaxEvents \in Nat /\ MaxDrops \in Nat

VARIABLES
    page,       \* "blank" until the scripts of the page have run
    decoders,   \* SseAccess.decoders: the types that have a decoder
    untyped,    \* SseAccess.untypedDecoder is not Nothing
    commands,   \* port commands of the last update, still to be carried out
    sources,    \* the EventSources made; sources[address] is the last one
    threw,      \* a port callback has thrown a TypeError
    drops,      \* connections lost so far
    emitted     \* events sent so far

elmVars     == <<decoders, untyped>>
sourceVars  == <<sources, threw, drops>>
portVars    == <<page, elmVars, commands, sourceVars, emitted>>

Event   == [type : EventTypes \cup {Message}, data : Payloads]
Command == [port : {"createEventSourceAndAddListenerJS", "addListenerJS",
                    "removeListenerJS", "deleteEventSourceJS"},
            type : EventTypes \cup {NoType}]

\* link: the browser is connecting (or waiting to), receives events, or has
\* given up.  wire: the events on their way.
Source == [link : {"connecting", "open", "closed"}, typed : SUBSET EventTypes,
           onmessage : BOOLEAN, wire : Seq(Event)]

TypeOK ==
    /\ page \in {"blank", "loaded"}
    /\ decoders \subseteq EventTypes /\ untyped \in BOOLEAN
    /\ commands \subseteq Command
    /\ sources \in Seq(Source) /\ Len(sources) <= MaxSources
    /\ threw \in BOOLEAN
    /\ drops \in 0 .. MaxDrops /\ emitted \in 0 .. MaxEvents

\* SSE.create, and a page whose scripts have not run.
InitPorts ==
    /\ page = "blank"
    /\ decoders = {} /\ untyped = FALSE
    /\ commands = {}
    /\ sources = <<>> /\ threw = FALSE /\ drops = 0
    /\ emitted = 0

\* index.js: the program is initialised and the ports are subscribed to in one
\* script, so no command is carried out in between.
Load ==
    /\ page = "blank"
    /\ page' = "loaded"
    /\ UNCHANGED <<elmVars, commands, sourceVars, emitted>>
-----------------------------------------------------------------------------
(* SSE.elm.                                                                *)

HasListeners(types, any) == any \/ types # {}

\* A call leaves the decoders `types` and `any` and returns the commands
\* `cmds`.  An update runs when the last one's commands have been carried out.
Called(name, types, any, cmds) ==
    /\ name \in Calls
    /\ page = "loaded" /\ commands = {}
    /\ decoders' = types /\ untyped' = any
    /\ commands' = cmds
    /\ UNCHANGED <<page, sourceVars, emitted>>

Cmd(port, type) == {[port |-> port, type |-> type]}

\* What both withListener and withUntypedListener do to be heard.
Attach(type) ==
    IF HasListeners(decoders, untyped) THEN Cmd("addListenerJS", type)
    ELSE Cmd("createEventSourceAndAddListenerJS", type)

\* What both withoutListener and withoutUntypedListener do, `types` and `any`
\* being what is left.
Detach(types, any, type) ==
    IF HasListeners(types, any) THEN Cmd("removeListenerJS", type)
    ELSE Cmd("deleteEventSourceJS", NoType)

WithListener(t) ==
    Called("withListener", decoders \cup {t}, untyped,
           IF t \in decoders THEN {} ELSE Attach(t))

WithUntypedListener ==
    Called("withUntypedListener", decoders, TRUE, Attach(NoType))

WithoutListener(t) ==
    Called("withoutListener", decoders \ {t}, untyped,
           Detach(decoders \ {t}, untyped, t))

WithoutUntypedListener ==
    Called("withoutUntypedListener", decoders, FALSE,
           Detach(decoders, FALSE, NoType))

WithoutAnyListener ==
    Called("withoutAnyListener", {}, FALSE,
           IF HasListeners(decoders, untyped) THEN Cmd("deleteEventSourceJS", NoType)
           ELSE {})
-----------------------------------------------------------------------------
(* elm-ports.js.                                                           *)

\* new EventSource(address) starts to connect.
CreateNewEventSource ==
    Append(sources, [link |-> "connecting", typed |-> {}, onmessage |-> FALSE,
                     wire |-> <<>>])

\* Mutant: addEventHandlers is given the first source of the page.
AddEventHandlers_First(type, srcs) ==
    IF type = NoType
    THEN [srcs EXCEPT ![1].onmessage = TRUE]
    ELSE [srcs EXCEPT ![1].typed = @ \cup {type}]

\* The same callback added twice for a type is there once.  onerror only logs.
AddEventHandlers(type, srcs) ==
    IF type = NoType
    THEN [srcs EXCEPT ![Len(srcs)].onmessage = TRUE]
    ELSE [srcs EXCEPT ![Len(srcs)].typed = @ \cup {type}]

\* Without a source for the address, addEventHandlers is given undefined.
DoAddListener(type, doCreate) ==
    /\ doCreate => Len(sources) < MaxSources
    /\ LET srcs == IF doCreate THEN CreateNewEventSource ELSE sources
       IN  IF srcs = <<>>
           THEN threw' = TRUE /\ UNCHANGED sources
           ELSE sources' = AddEventHandlers(type, srcs) /\ UNCHANGED threw

\* removeListenerJS and deleteEventSourceJS have no subscriber.
Pruned == UNCHANGED <<sources, threw>>

CarryOut(c) ==
    /\ c \in commands
    /\ commands' = commands \ {c}
    /\ CASE c.port = "createEventSourceAndAddListenerJS" -> DoAddListener(c.type, TRUE)
         [] c.port = "addListenerJS" -> DoAddListener(c.type, FALSE)
         [] OTHER -> Pruned
    /\ UNCHANGED <<page, elmVars, drops, emitted>>
-----------------------------------------------------------------------------
(* The browser's EventSource and the service behind it.                    *)

\* The broker has taken the connection into its map.
Connect(i) ==
    /\ sources[i].link = "connecting"
    /\ sources' = [sources EXCEPT ![i].link = "open"]
    /\ UNCHANGED <<page, elmVars, commands, threw, drops, emitted>>

\* The connection is lost, and with it what was on the wire; the browser
\* connects again.
Drop(i) ==
    /\ sources[i].link = "open" /\ drops < MaxDrops
    /\ sources' = [sources EXCEPT ![i].link = "connecting", ![i].wire = <<>>]
    /\ drops' = drops + 1
    /\ UNCHANGED <<page, elmVars, commands, threw, emitted>>

\* The attempt is answered with an HTTP error (the proxy's, when the service is
\* not up): the browser gives up, and onerror only logs.
GiveUp(i) ==
    /\ sources[i].link = "connecting" /\ drops < MaxDrops
    /\ sources' = [sources EXCEPT ![i].link = "closed"]
    /\ drops' = drops + 1
    /\ UNCHANGED <<page, elmVars, commands, threw, emitted>>

\* The service sends an event to every connection it has.
Emit(e) ==
    /\ emitted < MaxEvents /\ emitted' = emitted + 1
    /\ sources' = [i \in DOMAIN sources |->
          IF sources[i].link = "open"
          THEN [sources[i] EXCEPT !.wire = Append(@, e)]
          ELSE sources[i]]
    /\ UNCHANGED <<page, elmVars, commands, threw, drops>>

\* The event reaches a decoder: sendEventToElm listens for its type and
\* decodersToEventMapper finds a decoder that is not noopMessage, or it has no
\* type and sendUntypedEventToElm and the untyped decoder are there.
Decoded(s, e) ==
    IF e.type = Message THEN s.onmessage /\ untyped ELSE e.type \in s.typed \cap decoders

\* The browser dispatches the next event of a source.
Dispatch(i) ==
    /\ sources[i].wire # <<>> /\ commands = {}
    /\ sources' = [sources EXCEPT ![i].wire = Tail(@)]
    /\ UNCHANGED <<page, elmVars, commands, threw, drops, emitted>>

Browser ==
    \E i \in DOMAIN sources : Connect(i) \/ Drop(i) \/ GiveUp(i) \/ Dispatch(i)

Call ==
    \/ \E t \in EventTypes : WithListener(t) \/ WithoutListener(t)
    \/ WithUntypedListener \/ WithoutUntypedListener \/ WithoutAnyListener

NextPorts ==
    \/ Load \/ Call
    \/ \E c \in commands : CarryOut(c)
    \/ \E e \in Event : Emit(e)
    \/ Browser

SpecPorts == InitPorts /\ [][NextPorts]_portVars
-----------------------------------------------------------------------------
(* Properties.                                                             *)

\* When its commands have been carried out, every decoder can be reached: the
\* last EventSource listens for the type, however the calls have come and gone
\* (SSE.elm skips the command for a type it has a decoder for).
Heard ==
    commands = {} =>
        /\ \A t \in decoders : sources # <<>> /\ t \in Last(sources).typed
        /\ untyped => sources # <<>> /\ Last(sources).onmessage

\* addListenerJS is never carried out before there is a source.
NoThrow == ~ threw

\* "we only call if there isn't one yet": a page that only adds listeners has
\* one EventSource, so the service has one connection for it.
OneSource == Len(sources) <= 1
=============================================================================
