---------------------------- MODULE ReactRuntime ----------------------------
(***************************************************************************)
(* React 0.14 at run time (react/bundle.js) under the issue window: a      *)
(* component's setState, whether from an event handler, from a callback or *)
(* from an answer of the server, is batched, flushed in mount order inside *)
(* nested transactions, and reaches the page; events of the page reach the *)
(* handlers of the components.                                             *)
(*                                                                         *)
(* One step is one task of the browser: a window is opened, an answer      *)
(* arrives, the user clicks or types.  What the client's own code does in  *)
(* a task (which setState calls, with which callbacks, whether it stops    *)
(* the event or throws) is chosen with the step.                           *)
(*                                                                         *)
(* Fields of the world w, beside those of the other modules:               *)
(*   batching  isBatchingUpdates       asap     asapCallbackQueue          *)
(*   after     the callback queue of the flush transaction under way       *)
(*   enabled   ReactEventListener._enabled   events   eventQueue           *)
(*   list      the component of the window opened last, 0 before           *)
(*   windows, calls, tasks   how many there were                           *)
(* and the ghosts: hurt, the roots an exception has cost an update; ran    *)
(* and due, the handlers the last event ran and those it should have run;  *)
(* promised and called, the setState calls with a callback and those       *)
(* called back; early, a callback ran before its update was on the page;   *)
(* strayed, an update took the focus from a node that stayed, or moved its *)
(* caret.                                                                  *)
(***************************************************************************)
EXTENDS ReactReconcile

CONSTANTS RowLists,   \* what the rows of a window can be set to
          Bodies,     \* what a comment can be set to, or typed
          Thens,      \* what the callback of an answer's setState can do
          Programs,   \* what the client's event handlers can do
          MaxWindows, MaxTasks

VARIABLE w

-----------------------------------------------------------------------------
(***************************************************************************)
(* Transactions.  A closing wrapper runs whatever was thrown before it,    *)
(* and the first exception comes out in the end.                           *)
(***************************************************************************)
BeforeClosing(v) == [v EXCEPT !.err = FALSE]
Rethrow(thrown, v) == [v EXCEPT !.err = thrown \/ @]

Closing(v, Op(_)) == Rethrow(v.err, Op(BeforeClosing(v)))

HasSelectionCapabilities(v, n) == n # 0 /\ v.nodes[n].tag = "textarea"

GetSelection(v, n) == IF HasSelectionCapabilities(v, n) THEN v.caret ELSE ""
SetSelection(v, n, range) ==
    IF HasSelectionCapabilities(v, n) THEN [v EXCEPT !.caret = range] ELSE v

\* What the browser took the focus from gets it back, if it is still there.
RestoreSelection(v, prior, range) ==
    IF v.focus # prior /\ InPage(v, prior)
    THEN [SetSelection(v, prior, range) EXCEPT !.focus = prior] ELSE v

\* onDOMReady: listeners are put and refs attached, in the order of mounting.
NotifyMountReady(v) == Each(MountReady, [v EXCEPT !.ready = <<>>], v.ready)

\* CallbackQueue.reset
Reset(v) == [v EXCEPT !.ready = <<>>]

\* Transaction.perform, of one wrapper.
Perform(v, Op(_), Close(_)) == Closing(Op(v), Close)

SetEnabled(v, enabled) == [v EXCEPT !.enabled = enabled]

\* The focus is noted (as v.focus below), events are kept out.
InitializeAll(v) == Reset(SetEnabled(v, FALSE))

ReconcileTransaction(v, Op(_)) ==
    Closing(Closing(Closing(Op(InitializeAll(v)),
                            LAMBDA x : RestoreSelection(x, v.focus, GetSelection(v, v.focus))),
                    LAMBDA x : SetEnabled(x, v.enabled)),
            NotifyMountReady)

-----------------------------------------------------------------------------
(***************************************************************************)
(* The batch and its flush.                                                *)
(***************************************************************************)
RECURSIVE FlushBatchedUpdates(_), EnqueueUpdate(_, _)

OpenBatch(v) == [v EXCEPT !.batching = TRUE]

ResetBatchedUpdates(v) == [v EXCEPT !.batching = FALSE]

\* Within a batch the work just joins it.
BatchedUpdates(v, Op(_)) ==
    IF v.batching THEN Op(v)
    ELSE Closing(Perform(OpenBatch(v), Op, FlushBatchedUpdates),
                 ResetBatchedUpdates)

\* ReactUpdates.enqueueUpdate
EnqueueUpdate(v, i) ==
    IF ~v.batching THEN BatchedUpdates(v, LAMBDA x : EnqueueUpdate(x, i))
    ELSE MarkDirty(v, i)

GetInternalInstanceReadyForUpdate(v, i) == GetInstance(v, i)

\* Of a component that is not mounted nothing is taken note.
EnqueueSetState(v, i, fields, call) ==
    IF GetInternalInstanceReadyForUpdate(v, i) = 0 THEN v
    ELSE EnqueueUpdate([v EXCEPT !.insts[i].pending =
             Append(@, [fields |-> fields, call |-> call])], i)

EnqueueCallback(v, i, call, then) ==
    IF GetInternalInstanceReadyForUpdate(v, i) = 0 THEN v
    ELSE EnqueueUpdate([v EXCEPT
             !.insts[i].cbs = Append(@, [inst |-> i, call |-> call, then |-> then]),
             !.promised = @ \cup {[inst |-> i, call |-> call]}], i)

(***************************************************************************)
(* this.setState(fields, callback).  A call is a record [to, fields, then]: *)
(* then is <<>> without a callback, else <<calls>>, the calls the callback *)
(* makes.                                                                  *)
(***************************************************************************)
SetState(v, i, c) ==
    LET n == v.calls + 1
    IN  AndThen(EnqueueSetState([v EXCEPT !.calls = n], i, c.fields, n), LAMBDA u :
            IF c.then = <<>> THEN u ELSE EnqueueCallback(u, i, n, c.then[1]))

\* "list" is the window's component, "self" the one whose code is running.
RunCalls(v, self, calls) ==
    LET list == IF v.insts[self].el.type = "CommentList" THEN self
                ELSE v.insts[self].el.owner
    IN  Each(LAMBDA x, c : SetState(x, IF c.to = "list" THEN list ELSE self, c),
             v, calls)

RunCallback(v, cb) ==
    RunCalls([v EXCEPT !.called = Append(@, cb.call),
                       !.early = @ \/ cb.call \notin v.insts[cb.inst].merged],
             cb.inst, cb.then)

NotifyCallbacks(v) == Each(RunCallback, [v EXCEPT !.after = <<>>], v.after)

RootOf(v, i) == GetReactRootIDFromNodeID(v.insts[i].id)

(***************************************************************************)
(* ReactUpdates.runBatchedUpdates: parents before children.  The callbacks *)
(* are set aside before the update, which may ask for more.  An exception  *)
(* leaves the components behind it without their update.                   *)
(***************************************************************************)
RunBatchedUpdates(v) ==
    LET order == SortSeq(v.dirty, <)
    IN  Each(LAMBDA x, k :
                 LET i == order[k]
                 IN  Given(PerformUpdateIfNecessary([x EXCEPT !.insts[i].cbs = <<>>], i),
                           LAMBDA u :
                               IF u.err
                               THEN [u EXCEPT !.hurt = @ \cup
                                        {RootOf(x, order[j]) : j \in k..Len(order)}]
                               ELSE [u EXCEPT !.after = @ \o x.insts[i].cbs]),
             [v EXCEPT !.dirty = order], [k \in 1..Len(order) |-> k])

\* Mutant of CloseNestedUpdates: left for the next round of the flush.
LeaveNestedUpdates(v, len) == [v EXCEPT !.dirty = SubSeq(@, len + 1, Len(@))]

\* NESTED_UPDATES: what the updates asked for comes before the callbacks.
CloseNestedUpdates(v, len) ==
    IF Len(v.dirty) = len THEN [v EXCEPT !.dirty = <<>>]
    ELSE FlushBatchedUpdates([v EXCEPT !.dirty = SubSeq(@, len + 1, Len(@))])

\* Ghosts: an exception after the updates, as when refs are attached, has cost
\* them all; callbacks are due, and updates are still missing.
Hurting(v, x) ==
    IF ~x.err \/ x.hurt # v.hurt THEN x
    ELSE [x EXCEPT !.hurt = @ \cup {RootOf(v, i) : i \in ToSet(v.dirty)}]

Watched(x) == [x EXCEPT !.early = @ \/ (~x.err /\ x.after # <<>> /\ x.dirty # <<>>)]

FlushTransaction(v) ==
    [Closing(
         Watched(Closing(
             Hurting(v, ReconcileTransaction([v EXCEPT !.after = <<>>], RunBatchedUpdates)),
             LAMBDA x : CloseNestedUpdates(x, Len(v.dirty)))),
         NotifyCallbacks) EXCEPT !.after = v.after]

\* forceUpdateIfMounted: an input shows again what it was last rendered with.
ForceUpdateIfMounted(v, i) ==
    IF v.insts[i].id = <<>> THEN v ELSE UpdateWrapper(v, i)

NotifyAsap(v) == Each(ForceUpdateIfMounted, [v EXCEPT !.asap = <<>>], v.asap)

FlushBatchedUpdates(v) ==
    IF v.dirty = <<>> /\ v.asap = <<>> THEN v
    ELSE AndThen(AndThen(IF v.dirty = <<>> THEN v ELSE FlushTransaction(v), NotifyAsap),
                 FlushBatchedUpdates)

-----------------------------------------------------------------------------
(***************************************************************************)
(* Rendering into the container.  The page empties it first, so there is   *)
(* never a component to update there (ReactMount._renderSubtreeIntoContainer*)
(* takes its last branch), and nothing unmounts the one that was.          *)
(***************************************************************************)
EmptyContainer(v) ==
    [v EXCEPT !.page = 0,
              !.focus = IF InPage(v, @) THEN 0 ELSE @]

MountImageIntoNode(v, markup) ==
    [Build(v, markup, 0) EXCEPT !.page = Len(v.nodes) + 1]

MountComponentIntoNode(v, i, rootID) ==
    Given(MountComponent(v, i, rootID), LAMBDA m :
        AndThen(m.w, LAMBDA x : MountImageIntoNode(x, m.markup)))

BatchedMountComponentIntoNode(v, i, rootID) ==
    ReconcileTransaction(v, LAMBDA x : MountComponentIntoNode(x, i, rootID))

RegisterContainer(v, rootID) == [v EXCEPT !.containers = @ \cup {rootID}]

\* instancesByReactRootID
RegisterComponent(v, i, rootID) == [RegisterContainer(v, rootID) EXCEPT !.list = i]

RenderNewRootComponent(v, el) ==
    LET i == Len(v.insts) + 1
        shown == GetReactRootIDFromNodeID(GetReactRootID(v))
        rootID == IF shown = <<>> THEN CreateReactRootID(v.windows) ELSE shown
        made == RegisterComponent(Instantiate(v, el), i, rootID)
    IN  Given(BatchedUpdates(made, LAMBDA x : BatchedMountComponentIntoNode(x, i, rootID)),
              LAMBDA x : [x EXCEPT !.windows = @ + 1,
                                   !.hurt = IF x.err THEN @ \cup {rootID} ELSE @])

-----------------------------------------------------------------------------
(***************************************************************************)
(* Events.  An event is the sequence of its dispatches [name, id,          *)
(* listener].                                                              *)
(***************************************************************************)
AccumulateTwoPhaseDispatches(v, event, targetID) ==
    LET names == PhasedRegistrationNames(event)
        path == TraverseTwoPhase(targetID)
        at(name, ids) ==
            SelectSeq([k \in 1..Len(ids) |->
                          [name |-> name, id |-> ids[k],
                           listener |-> GetListener(v, name, ids[k])]],
                      LAMBDA d : d.listener # 0)
    IN  at(names.captured, path.captured) \o at(names.bubbled, path.bubbled)

TopLevelEventsToDispatchConfig(top) == IF top = "topClick" THEN "click" ELSE "input"

\* A text area is typed into, a checkbox is clicked.
ShouldUseInputEvent(top, tag) == top = "topInput" /\ tag = "textarea"
ShouldUseClickEvent(top, tag) == top = "topClick" /\ tag = "checkbox"

(***************************************************************************)
(* An event: what it dispatches, the node it happened in, and whether a    *)
(* handler has stopped it.  A native event becomes one of its own name and *)
(* perhaps a change.  tag is that of the node of React it happened in.     *)
(***************************************************************************)
SyntheticEvent(dispatches, target) ==
    [dispatches |-> dispatches, target |-> target, stopped |-> FALSE]

ExtractSimpleEvent(v, top, id, target) ==
    <<SyntheticEvent(AccumulateTwoPhaseDispatches(v, TopLevelEventsToDispatchConfig(top), id),
                     target)>>

ExtractChangeEvent(v, top, tag, id, target) ==
    IF ShouldUseInputEvent(top, tag) \/ ShouldUseClickEvent(top, tag)
    THEN <<SyntheticEvent(AccumulateTwoPhaseDispatches(v, "change", id), target)>>
    ELSE <<>>

AccumulateInto(current, next) == current \o next

\* EventPluginHub.extractEvents: the plugins in their order; id is <<>> outside.
ExtractEvents(v, top, id, target) ==
    LET tag == IF id = <<>> THEN "" ELSE v.nodes[v.cache[id]].tag
        extract(plugin) ==
            CASE plugin = "SimpleEventPlugin" -> ExtractSimpleEvent(v, top, id, target)
              [] plugin = "ChangeEventPlugin" -> ExtractChangeEvent(v, top, tag, id, target)
              [] OTHER -> <<>>
    IN  FoldLeft(LAMBDA events, plugin : AccumulateInto(events, extract(plugin)),
                 <<>>, Plugins)

Asap(v, i) == [v EXCEPT !.asap = Append(@, i)]

(***************************************************************************)
(* The change handlers of the client: handleTextChange takes the value of  *)
(* the event's target, Label's handleChange that of its ref, and fails     *)
(* without one.  keeps is FALSE when the handler sets no state.            *)
(***************************************************************************)
HandleTextChange(v, n) == [body |-> v.nodes[n].content]

HandleLabelChange(v, ref) == [checked |-> v.nodes[ref].content]

ExecuteOnChange(v, i, n, keeps) ==
    LET owner == v.insts[i].el.owner
        ref == v.insts[owner].ref
        typed == v.insts[i].el.type = "textarea"
    IN  IF ~keeps THEN v
        ELSE IF ~typed /\ ref = 0 THEN Throw(v)
        ELSE EnqueueSetState(v, owner, IF typed THEN HandleTextChange(v, n)
                                       ELSE HandleLabelChange(v, ref), 0)

HandleChange(v, i, n, keeps) ==
    AndThen(ExecuteOnChange(v, i, n, keeps), LAMBDA u : Asap(u, i))

\* The handlers the client gives the list and what is in it for clicks.
ScriptOf(program, name, tag) ==
    IF name = "onClickCapture" THEN program.capture
    ELSE IF tag = "list" THEN program.bubble
    ELSE program.own

\* Who answers a click: a button hands it to the component that renders it, an
\* assignee to the one that renders the list of assignees.
HandleClick(v, i) ==
    LET owner(j) == v.insts[j].el.owner
    IN  CASE v.insts[i].el.type = "Assignee" -> owner(owner(i))
          [] HandsOn(v.insts[i].el) -> owner(i)
          [] OTHER -> i

\* invokeGuardedCallback of a development build: the exception goes nowhere.
InvokeGuardedCallback(v, d, n, program) ==
    LET tag == v.nodes[v.cache[d.id]].tag
    IN  [IF d.name = "onChange" THEN HandleChange(v, d.listener, n, program.keeps)
         ELSE RunCalls(v, HandleClick(v, d.listener), ScriptOf(program, d.name, tag).calls)
         EXCEPT !.err = FALSE, !.ran = Append(@, <<d.name, d.id>>)]

Stops(v, d, program) ==
    d.name # "onChange" /\ ScriptOf(program, d.name, v.nodes[v.cache[d.id]].tag).stop

ExecuteDispatchesInOrder(v, event, program) ==
    Each(LAMBDA a, d :
             IF a.event.stopped THEN a
             ELSE Given(GetNode(a.w, d.id), LAMBDA found :
                      IF found.err THEN [a EXCEPT !.w = found, !.err = TRUE]
                      ELSE Given(InvokeGuardedCallback(found, d, event.target, program),
                                 LAMBDA u : [a EXCEPT !.w = u,
                                                 !.event.stopped = Stops(u, d, program)])),
         [w |-> v, event |-> event, err |-> FALSE], event.dispatches).w

EnqueueEvents(v, events) == [v EXCEPT !.events = AccumulateInto(@, events)]

\* The queue is emptied before the first event of it is handled.
ProcessEventQueue(v, program) ==
    AndThen(Each(LAMBDA x, event : ExecuteDispatchesInOrder(x, event, program),
                 [v EXCEPT !.events = <<>>], v.events),
            LAMBDA u : IF u.events = <<>> THEN u ELSE Throw(u))

RunEventQueueInBatch(v, events, program) ==
    ProcessEventQueue(EnqueueEvents(v, events), program)

\* All events are made before the first handler runs.
HandleTopLevel(v, top, id, target, program) ==
    RunEventQueueInBatch(v, ExtractEvents(v, top, id, target), program)

(***************************************************************************)
(* The nodes of React around the one an event happened in, of which there  *)
(* is one at most: the container is within no other.                       *)
(***************************************************************************)
HandleTopLevelWithoutPath(v, top, n, program) ==
    Given(FindFirstReactDOM(v, n), LAMBDA first :
        AndThen(IF first = 0 THEN v ELSE GetID(v, first), LAMBDA u :
            HandleTopLevel(u, top, IF first = 0 THEN <<>> ELSE u.nodes[first].id,
                           n, program)))

DispatchEvent(v, top, n, program) ==
    IF ~v.enabled THEN v
    ELSE BatchedUpdates(v, LAMBDA x : HandleTopLevelWithoutPath(x, top, n, program))

\* The browser tells those who listen on the document.
BrowserEvent(v, event, n, program) ==
    Each(LAMBDA x, l : DispatchEvent(x, l.top, n, program),
         v, SelectSeq(v.listening, LAMBDA l : l.node = 0 /\ l.event = event))

-----------------------------------------------------------------------------
(***************************************************************************)
(* Which handlers an event on a node should run, read off the page: down   *)
(* to the node for capture and up again, until one stops it; the change of *)
(* a checkbox is an event of its own.                                      *)
(***************************************************************************)
RECURSIVE PathTo(_, _)
PathTo(v, n) == IF n = 0 THEN <<>> ELSE Append(PathTo(v, v.nodes[n].up), n)

UpToStop(v, dispatches, program) ==
    LET stops == {k \in 1..Len(dispatches) :
                     ScriptOf(program, dispatches[k].name, dispatches[k].tag).stop}
        end == IF stops = {} THEN Len(dispatches)
               ELSE CHOOSE k \in stops : \A j \in stops : k <= j
    IN  [k \in 1..end |-> <<dispatches[k].name, dispatches[k].id>>]

Due(v, top, n, program) ==
    LET path == PathTo(v, n)
        at(name, nodes, tags) ==
            SelectSeq([k \in 1..Len(nodes) |->
                          [name |-> name, id |-> v.nodes[nodes[k]].id,
                           tag |-> v.nodes[nodes[k]].tag]],
                      LAMBDA d : d.tag \in tags)
        clicks == at("onClickCapture", path, {"list"})
                  \o at("onClick", Reverse(path), {"list", "textarea", "button", "a"})
        change == <<<<"onChange", v.nodes[n].id>>>>
    IN  IF top = "topInput" THEN change
        ELSE UpToStop(v, clicks, program)
             \o (IF v.nodes[n].tag = "checkbox" THEN change ELSE <<>>)

-----------------------------------------------------------------------------
(***************************************************************************)
(* Tasks.                                                                  *)
(***************************************************************************)
Nothing ==
    [insts |-> <<>>, nodes |-> <<>>, page |-> 0, focus |-> 0,
     cache |-> <<>>, containers |-> {}, bank |-> <<>>, taps |-> {},
     listening |-> <<>>, events |-> <<>>, queue |-> <<>>, markups |-> <<>>, depth |-> 0,
     ready |-> <<>>, dirty |-> <<>>, asap |-> <<>>, after |-> <<>>,
     batching |-> FALSE, enabled |-> TRUE, err |-> FALSE, list |-> 0,
     windows |-> 0, calls |-> 0, tasks |-> 0, hurt |-> {}, ran |-> <<>>,
     due |-> <<>>, promised |-> {}, called |-> <<>>, early |-> FALSE,
     strayed |-> FALSE, caret |-> ""]

Init == w = Nothing

\* The text is as the user left it and one setState at most was called, so
\* that no other text has been there in between, and yet the caret has moved.
CaretJumped(start, v) ==
    /\ v.focus = start.focus /\ HasSelectionCapabilities(v, v.focus)
    /\ v.nodes[v.focus].content = start.nodes[v.focus].content
    /\ v.calls <= start.calls + 1
    /\ v.caret # start.caret

\* An uncaught exception ends the task; what is left for later is late.
EndOfTask(start, v) ==
    [v EXCEPT !.err = FALSE, !.tasks = @ + 1, !.caret = "",
              !.hurt = @ \cup {RootOf(v, i) : i \in ToSet(v.dirty \o v.asap)},
              !.strayed = \/ start.focus # v.focus /\ InPage(v, start.focus)
                          \/ CaretJumped(start, v)]

Task == w.tasks < MaxTasks

BeforeTask == [w EXCEPT !.ran = <<>>, !.due = <<>>, !.caret = "inside"]

OpenWindow(rows) ==
    /\ Task
    /\ w.windows < MaxWindows
    /\ LET v == EmptyContainer(BeforeTask)
       IN  w' = EndOfTask(v, RenderNewRootComponent(v,
                    Element("CommentList", <<>>, "", FALSE, rows)))

\* The answer's own code may be long after its component is gone.
Answer(i, fields, then) ==
    /\ Task
    /\ w' = EndOfTask(BeforeTask, SetState(BeforeTask, i,
                [to |-> "self", fields |-> fields, then |-> then]))

\* The browser gives the focus, and changes the value or the mark, first.
UserClick(n, program) ==
    /\ Task
    /\ InPage(w, n)
    /\ LET node == w.nodes[n]
           v == [BeforeTask EXCEPT
                    !.focus = IF node.tag \in {"textarea", "checkbox", "box"} THEN n ELSE 0,
                    !.nodes[n].content =
                        IF node.tag \notin {"checkbox", "box"} THEN @
                        ELSE IF @ = "on" THEN "off" ELSE "on",
                    !.due = Due(w, "topClick", n, program)]
       IN  w' = EndOfTask(v, BrowserEvent(v, "click", n, program))

UserType(n, text, program) ==
    /\ Task
    /\ InPage(w, n) /\ w.nodes[n].tag = "textarea"
    /\ w.nodes[n].content # text
    /\ LET v == [BeforeTask EXCEPT !.focus = n, !.nodes[n].content = text,
                                   !.due = Due(w, "topInput", n, program)]
       IN  w' = EndOfTask(v, BrowserEvent(v, "input", n, program))

\* What an answer can set.
FieldsOf(type) ==
    IF type = "CommentList" THEN {[rows |-> rows] : rows \in RowLists}
    ELSE {[body |-> body] : body \in Bodies}

Instances(type) == {i \in 1..Len(w.insts) : w.insts[i].el.type = type}

Next ==
    \/ \E rows \in RowLists : OpenWindow(rows)
    \/ \E i \in Instances("CommentList") \cup Instances("Comment"), then \in Thens :
           \E fields \in FieldsOf(w.insts[i].el.type) : Answer(i, fields, then)
    \/ \E n \in 1..Len(w.nodes), program \in Programs : UserClick(n, program)
    \/ \E n \in 1..Len(w.nodes), text \in Bodies, program \in Programs :
           UserType(n, text, program)

Spec == Init /\ [][Next]_w

-----------------------------------------------------------------------------
(***************************************************************************)
(* Properties.  They speak of the windows whose root no exception has cost *)
(* an update; what an exception leaves behind is in the model all the same *)
(* (a comment that cannot be rendered, an answer for a window that was     *)
(* replaced), and the other windows must not suffer from it.               *)
(***************************************************************************)
Sound(id) == GetReactRootIDFromNodeID(id) \notin w.hurt

DomInstances ==
    {i \in 1..Len(w.insts) : ~IsComposite(w, i) /\ w.insts[i].id # <<>>}

(***************************************************************************)
(* Node n shows the component i as its states now, and those below it,     *)
(* would be rendered from nothing: with the element el, under id.          *)
(***************************************************************************)
RECURSIVE Shows(_, _, _, _)
Shows(i, el, n, id) ==
    LET inst == w.insts[i]
        node == w.nodes[n]
        children == FlattenChildren(el.kids)
    IN  /\ inst.id = id
        /\ inst.el.type = el.type
        /\ inst.pending = <<>>
        /\ IF IsComposite(w, i)
           THEN Shows(inst.kids[1].inst, Render([inst EXCEPT !.el = el]), n, id)
           ELSE /\ [id |-> node.id, tag |-> node.tag, content |-> node.content,
                    pale |-> node.pale]
                       = [id |-> id, tag |-> el.type, content |-> el.body, pale |-> el.pale]
                /\ el.type \in Parents =>
                       /\ Len(node.kids) = Len(children)
                       /\ Len(inst.kids) = Len(children)
                       /\ \A k \in 1..Len(children) :
                              Shows(inst.kids[k].inst, children[k].el, node.kids[k],
                                    CreateReactID(id, children[k].name))

(***************************************************************************)
(* Whatever was answered, clicked and typed, after a task the window is    *)
(* what its components would render from nothing with the state they have: *)
(* rows in their order and each once, a text area holds the text of its    *)
(* comment and not what was typed over it, no setState is left waiting;    *)
(* and a node that stayed did not lose the focus, nor its caret the place  *)
(* (ReactMultiChild._updateChildren, processUpdates, the asap queue of     *)
(* inputs, the selection wrapper).                                         *)
(***************************************************************************)
PageShowsState ==
    w.list # 0 /\ Sound(w.insts[w.list].id) =>
        LET list == w.insts[w.list]
        IN  Shows(w.list, list.el, w.page, list.id) /\ ~w.strayed

(***************************************************************************)
(* Between tasks nothing of a batch is under way: it is closed, events are *)
(* let in again, no component or input waits but one that an exception     *)
(* kept.  Listeners are kept for the mounted nodes and for no others, an   *)
(* image's on its node, the document is listened to once, and a node found *)
(* by id is the one with that id (DefaultBatchingStrategy,                 *)
(* Transaction.closeAll, mount-ready and unmount, ReactMount.isValid).     *)
(* Changes to children are left in the queue only by a window that was     *)
(* hurt.                                                                   *)
(***************************************************************************)
IdleIsClean ==
    /\ ~w.batching /\ w.enabled /\ w.depth = 0
    /\ w.ready = <<>> /\ w.after = <<>> /\ w.events = <<>>
    /\ \A i \in ToSet(w.dirty \o w.asap) : ~Sound(w.insts[i].id)
    /\ w.queue # <<>> => w.hurt # {}
    /\ LET entries == {e \in DOMAIN w.bank : Sound(e[2])}
           mounted == {i \in DomInstances : Sound(w.insts[i].id)}
           images == {i \in mounted : w.insts[i].el.type = "img"}
           local == SelectSeq(w.listening,
                        LAMBDA l : l.node # 0 /\ Sound(w.nodes[l.node].id))
       IN  /\ entries = UNION {{<<name, w.insts[i].id>> :
                                   name \in ToSet(Listeners(w.insts[i].el))} :
                               i \in mounted}
           /\ {id \in w.taps : Sound(id)} =
                  {e[2] : e \in {x \in entries : x[1] = "onClick"}}
           /\ {<<w.nodes[l.node].id, l.event>> : l \in ToSet(local)} =
                  {w.insts[i].id : i \in images} \X {"error", "load"}
           /\ Len(local) = 2 * Cardinality(images)
           /\ IsInjective(w.listening)
    /\ \A id \in DOMAIN w.cache :
          IsValid(w, id) => w.nodes[w.cache[id]].id = id

(***************************************************************************)
(* An event runs the handlers on the path from the window to its target,   *)
(* as the page nests the nodes, down and up again, each once, and ends at  *)
(* the first that stops it; no handler of a row of a similar key or of an  *)
(* old window runs (ReactInstanceHandles.traverseTwoPhase,                 *)
(* EventPropagators, EventPluginUtils).                                    *)
(***************************************************************************)
HandlersAsNested ==
    w.list # 0 /\ Sound(w.insts[w.list].id) => w.ran = w.due

(***************************************************************************)
(* A setState's callback is called once, with the state taken in and all   *)
(* updates of the batch on the page, and it is called unless its component *)
(* is gone or an exception came in between (ReactUpdates.runBatchedUpdates,*)
(* the nested updates and callback wrappers).                              *)
(***************************************************************************)
CalledAsPromised ==
    /\ ~w.early
    /\ IsInjective(w.called)
    /\ \A p \in w.promised :
          \/ p.call \in ToSet(w.called)
          \/ ~w.insts[p.inst].set
          \/ ~Sound(w.insts[p.inst].id)
=============================================================================
