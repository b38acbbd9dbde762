--------------------------- MODULE ReactListeners ---------------------------
(***************************************************************************)
(* How React 0.14 (react/bundle.js) hears of the browser's events and      *)
(* knows who listens: the plugins and the events they publish, the native  *)
(* listeners on the document and on single nodes, and the listeners of     *)
(* components by name and id.  Of the events those are modelled that the   *)
(* client listens to.                                                      *)
(*                                                                         *)
(* Fields of the world w:                                                  *)
(*   listening  the native listeners added with EventListener.listen: the  *)
(*              node (0 for the document), the event, and the top-level    *)
(*              type under which it is dispatched                          *)
(*   bank       listenerBank: <<registration name, id>> to the instance    *)
(*              whose method listens                                       *)
(*   taps       onClickListeners of SimpleEventPlugin, by id               *)
(***************************************************************************)
EXTENDS ReactDom

-----------------------------------------------------------------------------
(***************************************************************************)
(* Events: their names on the way down and up, and the native events they  *)
(* are made from.                                                          *)
(***************************************************************************)
EventType(event, captured, bubbled, dependencies) ==
    [event |-> event, captured |-> captured, bubbled |-> bubbled,
     dependencies |-> dependencies]

SimpleEventTypes ==
    {EventType("click", "onClickCapture", "onClick", <<"topClick">>),
     EventType("input", "onInputCapture", "onInput", <<"topInput">>)}

ChangeEventTypes ==
    {EventType("change", "onChangeCapture", "onChange", <<"topClick", "topInput">>)}

DefaultEventPluginOrder ==
    <<"ResponderEventPlugin", "SimpleEventPlugin", "TapEventPlugin",
      "EnterLeaveEventPlugin", "ChangeEventPlugin", "SelectEventPlugin",
      "BeforeInputEventPlugin">>

InjectedPlugins ==
    {"SimpleEventPlugin", "EnterLeaveEventPlugin", "ChangeEventPlugin",
     "SelectEventPlugin", "BeforeInputEventPlugin"}

\* recomputePluginOrdering
Plugins == SelectSeq(DefaultEventPluginOrder, LAMBDA name : name \in InjectedPlugins)

EventTypes(plugin) ==
    CASE plugin = "SimpleEventPlugin" -> SimpleEventTypes
      [] plugin = "ChangeEventPlugin" -> ChangeEventTypes
      [] OTHER -> {}

Published == UNION {EventTypes(plugin) : plugin \in ToSet(Plugins)}

\* registrationNameDependencies
Dependencies(name) ==
    (CHOOSE t \in Published : name \in {t.captured, t.bubbled}).dependencies

PhasedRegistrationNames(event) == CHOOSE t \in Published : t.event = event

-----------------------------------------------------------------------------
(***************************************************************************)
(* Native listeners.  To listen twice would be to hear twice.              *)
(***************************************************************************)
TopEventMapping ==
    [topClick |-> "click", topInput |-> "input", topError |-> "error", topLoad |-> "load"]

Listen(w, node, event, top) ==
    [w EXCEPT !.listening = Append(@, [node |-> node, event |-> event, top |-> top])]

TrapBubbledEvent(w, top, event, node) == Listen(w, node, event, top)

GetListeningForDocument(w) ==
    {l.top : l \in {l \in ToSet(w.listening) : l.node = 0}}

ListenTo(w, name) ==
    LET trap(v, top) ==
            IF top \in GetListeningForDocument(v) THEN v
            ELSE TrapBubbledEvent(v, top, TopEventMapping[top], 0)
    IN  Each(trap, w, Dependencies(name))

-----------------------------------------------------------------------------
(***************************************************************************)
(* Listeners of components.                                                *)
(***************************************************************************)
DidPutListener(w, name, id) ==
    IF name # "onClick" THEN w
    ELSE WithNode(w, id, LAMBDA v, n : [v EXCEPT !.taps = @ \cup {id}])

PutListener(w, name, id, listener) ==
    DidPutListener([w EXCEPT !.bank = (<<name, id>> :> listener) @@ @], name, id)

GetListener(w, name, id) ==
    IF <<name, id>> \in DOMAIN w.bank THEN w.bank[<<name, id>>] ELSE 0

WillDeleteListener(w, name, id) ==
    IF name # "onClick" THEN w
    ELSE IF id \in w.taps THEN [w EXCEPT !.taps = @ \ {id}]
    ELSE Throw(w)

\* The names under which anyone may listen.
RegistrationNames == <<"onClick", "onClickCapture", "onChange">>

DeleteAllListeners(w, id) ==
    LET delete(v, name) ==
            AndThen(WillDeleteListener(v, name, id), LAMBDA u :
                [u EXCEPT !.bank = Restrict(@, DOMAIN @ \ {<<name, id>>})])
    IN  Each(delete, w,
             SelectSeq(RegistrationNames, LAMBDA name : <<name, id>> \in DOMAIN w.bank))
=============================================================================
