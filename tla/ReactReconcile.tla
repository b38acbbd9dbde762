--------------------------- MODULE ReactReconcile ---------------------------
(***************************************************************************)
(* Mounting, updating and unmounting of components in React 0.14           *)
(* (react/bundle.js), with the client of ReactClient.                      *)
(*                                                                         *)
(* Fields of the world w, beside those of ReactDom and ReactListeners:     *)
(*   insts      the internal instances, in the order they were made, which *)
(*              is their mount order: el (_currentElement), id             *)
(*              (_rootNodeID), state, pending (_pendingStateQueue), cbs    *)
(*              (_pendingCallbacks), kids (_renderedChildren or            *)
(*              _renderedComponent), at (_mountIndex), set (in             *)
(*              ReactInstanceMap), node (_nodeWithLegacyProperties), ref   *)
(*              (the one ref the class has), initial and local (the        *)
(*              initialValue and the listeners of _wrapperState) and the   *)
(*              ghost merged, the setState calls its state has taken in    *)
(*   queue, markups, depth  updateQueue, markupQueue and updateDepth of    *)
(*              ReactMultiChild                                            *)
(*   ready      the mount-ready queue of the reconcile transaction         *)
(*   dirty      dirtyComponents of ReactUpdates                            *)
(***************************************************************************)
EXTENDS ReactListeners, ReactClient

Parents == {"list", "ul", "a"}

IsComposite(w, i) == w.insts[i].el.type \in Composites

\* What is rendered is owned by the component that renders it.
RenderValidatedComponent(w, i) ==
    LET el == Render(w.insts[i])
    IN  [el EXCEPT !.owner = i,
                   !.kids = [k \in 1..Len(el.kids) |-> [el.kids[k] EXCEPT !.owner = i]]]

ShouldUpdateReactComponent(prev, next) ==
    prev.type = next.type /\ prev.key = next.key

Construct(el) ==
    [el |-> el, id |-> <<>>, state |-> <<>>, pending |-> <<>>, cbs |-> <<>>,
     kids |-> <<>>, at |-> 0, set |-> FALSE, node |-> 0, ref |-> 0,
     initial |-> "", local |-> <<>>, merged |-> {}]

Instantiate(w, el) == [w EXCEPT !.insts = Append(@, Construct(el))]

\* ReactInstanceMap
SetInstance(w, i) == [w EXCEPT !.insts[i].set = TRUE]
RemoveInstance(w, i) == [w EXCEPT !.insts[i].set = FALSE]
GetInstance(w, i) == IF w.insts[i].set THEN i ELSE 0

-----------------------------------------------------------------------------
(***************************************************************************)
(* Refs: the owner's reference to a node of its own.                       *)
(***************************************************************************)
GetPublicInstance(w, i) ==
    IF w.insts[i].node # 0 THEN w
    ELSE WithNode(w, w.insts[i].id, LAMBDA v, n : [v EXCEPT !.insts[i].node = n])

AttachRef(w, owner, i) ==
    AndThen(GetPublicInstance(w, i), LAMBDA v :
        IF ~v.insts[owner].set THEN Throw(v)
        ELSE [v EXCEPT !.insts[owner].ref = v.insts[i].node])

DetachRef(w, owner) == [w EXCEPT !.insts[owner].ref = 0]

IsValidOwner(w, owner) == IsComposite(w, owner)

AddComponentAsRefTo(w, i, owner) ==
    IF IsValidOwner(w, owner) THEN AttachRef(w, owner, i) ELSE Throw(w)

\* Another component may have the ref by now.
RemoveComponentAsRefFrom(w, i, owner) ==
    IF ~w.insts[owner].set THEN Throw(w)
    ELSE AndThen(GetPublicInstance(w, i), LAMBDA v :
             IF v.insts[owner].ref # v.insts[i].node THEN v ELSE DetachRef(v, owner))

AttachRefs(w, i) ==
    IF HasRef(w.insts[i].el)
    THEN AddComponentAsRefTo(w, i, w.insts[i].el.owner)
    ELSE w

DetachRefs(w, i, el) ==
    IF HasRef(el) THEN RemoveComponentAsRefFrom(w, i, el.owner) ELSE w

ShouldUpdateRefs(prev, next) ==
    next.owner # prev.owner \/ HasRef(next) # HasRef(prev)

EnqueueReady(w, what, name, i) ==
    [w EXCEPT !.ready =
        Append(@, [what |-> what, name |-> name, inst |-> i, id |-> w.insts[i].id])]

\* The method that listens belongs to the owner, but onChange to the input.
EnqueuePutListener(w, i, name) ==
    EnqueueReady(IF FindReactContainerForID(w, w.insts[i].id)
                 THEN ListenTo(w, name) ELSE w,
                 "listener", name, i)

\* An image's own listeners, on its node: load and error do not bubble.
TrapBubbledEventsLocal(w, i) ==
    LET trap(v, top, n) == TrapBubbledEvent(v, top, TopEventMapping[top], n)
    IN  WithNode(w, w.insts[i].id, LAMBDA v, n :
            Given(trap(trap(v, "topError", n), "topLoad", n), LAMBDA u :
                [u EXCEPT !.insts[i].local =
                    SubSeq(u.listening, Len(v.listening) + 1, Len(u.listening))]))

\* listeners[i].remove()
RemoveLocal(w, i) ==
    [w EXCEPT !.listening = SelectSeq(@, LAMBDA l : l \notin ToSet(w.insts[i].local))]

\* A method is bound to the component that has it, whoever is given it.
BoundComponent(w, i) == w.insts[i].el.owner

MountReady(w, entry) ==
    CASE entry.what = "ref" -> AttachRefs(w, entry.inst)
      [] entry.what = "trap" -> TrapBubbledEventsLocal(w, entry.inst)
      [] entry.what = "listener" ->
             PutListener(w, entry.name, entry.id,
                 IF entry.name = "onChange" THEN entry.inst
                 ELSE BoundComponent(w, entry.inst))

-----------------------------------------------------------------------------
(***************************************************************************)
(* Mounting.  A mount gives the world after it and the markup.             *)
(***************************************************************************)
RECURSIVE MountComponent(_, _, _)

NoMarkup == [id |-> <<>>, tag |-> "", content |-> "", pale |-> FALSE, kids |-> <<>>]

Failed(w) == [w |-> Throw(w), markup |-> NoMarkup]

MountComposite(w, i, rootID) ==
    LET rendered == Len(w.insts) + 1
    IN  Given(SetInstance([w EXCEPT !.insts[i].id = rootID,
                                    !.insts[i].state = GetInitialState(w.insts[i].el)], i),
              LAMBDA v :
                  IF RenderThrows(v.insts[i]) THEN Failed(v)
                  ELSE MountComponent(
                           [Instantiate(v, RenderValidatedComponent(v, i)) EXCEPT
                               !.insts[i].kids = <<[name |-> <<>>, inst |-> rendered]>>],
                           rendered, rootID))

\* No two children have one name: FlattenChildren drops the later ones.
InstantiateChild(w, child) == Instantiate(w, child.el)

InstantiateChildren(w, children) == Each(InstantiateChild, w, children)

\* ReactMultiChild.mountChildren: all are made before the first is mounted.
MountFlattened(w, i, children) ==
    LET first == Len(w.insts)
        made == [InstantiateChildren(w, children) EXCEPT !.insts[i].kids =
                    [k \in 1..Len(children) |->
                        [name |-> children[k].name, inst |-> first + k]]]
    IN  Each(LAMBDA a, k :
                 Given(MountComponent(a.w, first + k,
                                      CreateReactID(w.insts[i].id, children[k].name)),
                       LAMBDA m : [w |-> [m.w EXCEPT !.insts[first + k].at = k - 1],
                                   kids |-> Append(a.kids, m.markup), err |-> m.w.err]),
             [w |-> made, kids |-> <<>>, err |-> FALSE],
             [k \in 1..Len(children) |-> k])

MountChildren(w, i, els) ==
    Given(FlattenChildren(els), LAMBDA children : MountFlattened(w, i, children))

\* The text a text area is first rendered with stays its content in the markup.
MountTextareaWrapper(w, i) == [w EXCEPT !.insts[i].initial = w.insts[i].el.body]

\* getNativeProps of ReactDOMTextarea, of ReactDOMInput and of the others.
TextareaContent(w, i) == w.insts[i].initial
InputChecked(w, i) == w.insts[i].el.body
NativeContent(w, i) ==
    CASE w.insts[i].el.type = "textarea" -> TextareaContent(w, i)
      [] w.insts[i].el.type = "checkbox" -> InputChecked(w, i)
      [] OTHER -> w.insts[i].el.body

\* createMarkupForStyles
Style(el) == el.pale

CreateOpenTagMarkup(w, i) ==
    [id |-> w.insts[i].id, tag |-> w.insts[i].el.type, content |-> NativeContent(w, i),
     pale |-> Style(w.insts[i].el), kids |-> <<>>]

PutListeners(w, i) ==
    Each(LAMBDA v, name : EnqueuePutListener(v, i, name), w, Listeners(w.insts[i].el))

CreateContentMarkup(w, i) ==
    LET el == w.insts[i].el
    IN  CASE el.type \in Parents -> MountChildren(w, i, el.kids)
          [] el.type = "html" -> [w |-> w, kids |-> InnerHTML(el.body)]
          [] OTHER -> [w |-> w, kids |-> <<>>]

MountDOM(w, i, rootID) ==
    LET type == w.insts[i].el.type
        v == [w EXCEPT !.insts[i].id = rootID]
        wrapped == CASE type = "img" -> EnqueueReady(v, "trap", "", i)
                     [] type = "textarea" -> MountTextareaWrapper(v, i)
                     [] OTHER -> v
    IN  Given(CreateContentMarkup(PutListeners(wrapped, i), i), LAMBDA m :
            [w |-> m.w,
             markup |-> [CreateOpenTagMarkup(wrapped, i) EXCEPT !.kids = m.kids]])

MountText(w, i, rootID) ==
    LET v == [w EXCEPT !.insts[i].id = rootID]
    IN  [w |-> v, markup |-> CreateOpenTagMarkup(v, i)]

\* ReactReconciler.mountComponent
MountComponent(w, i, rootID) ==
    Given(IF IsComposite(w, i) THEN MountComposite(w, i, rootID)
          ELSE IF w.insts[i].el.type = "#text" THEN MountText(w, i, rootID)
          ELSE MountDOM(w, i, rootID),
          LAMBDA m : IF m.w.err \/ ~HasRef(w.insts[i].el) THEN m
                     ELSE [m EXCEPT !.w = EnqueueReady(m.w, "ref", "", i)])

-----------------------------------------------------------------------------
(***************************************************************************)
(* Unmounting.                                                             *)
(***************************************************************************)
RECURSIVE UnmountComponent(_, _)

UnmountComposite(w, i) ==
    IF w.insts[i].kids = <<>> THEN Throw(w)
    ELSE AndThen(UnmountComponent(w, w.insts[i].kids[1].inst), LAMBDA v :
             RemoveInstance([v EXCEPT !.insts[i].kids = <<>>, !.insts[i].id = <<>>,
                                      !.insts[i].pending = <<>>, !.insts[i].cbs = <<>>], i))

\* ReactChildReconciler.unmountChildren
UnmountKids(w, kids) ==
    Each(LAMBDA v, kid : UnmountComponent(v, kid.inst), w, kids)

\* ReactMultiChild.unmountChildren
UnmountChildren(w, i) ==
    AndThen(UnmountKids(w, w.insts[i].kids),
            LAMBDA v : [v EXCEPT !.insts[i].kids = <<>>])

\* Mutant of UnmountDOM: the listeners stay.
UnmountButListeners(w, i) ==
    AndThen(UnmountChildren(w, i), LAMBDA v :
        [UnmountIDFromEnvironment(v, w.insts[i].id) EXCEPT !.insts[i].id = <<>>])

UnmountDOM(w, i) ==
    LET id == w.insts[i].id
    IN  AndThen(AndThen(UnmountChildren(RemoveLocal(w, i), i),
                        LAMBDA v : DeleteAllListeners(v, id)),
                LAMBDA v : [UnmountIDFromEnvironment(v, id) EXCEPT
                               !.insts[i].id = <<>>, !.insts[i].node = 0,
                               !.insts[i].initial = "", !.insts[i].local = <<>>])

UnmountText(w, i) == UnmountIDFromEnvironment(w, w.insts[i].id)

UnmountComponent(w, i) ==
    AndThen(DetachRefs(w, i, w.insts[i].el), LAMBDA v :
        IF IsComposite(v, i) THEN UnmountComposite(v, i)
        ELSE IF v.insts[i].el.type = "#text" THEN UnmountText(v, i)
        ELSE UnmountDOM(v, i))

-----------------------------------------------------------------------------
(***************************************************************************)
(* The queue of changes to children.  It is worked off when the outermost  *)
(* update of children is done, and forgotten when that throws; when        *)
(* working it off throws, it stays.                                        *)
(***************************************************************************)
Change(type, parentID, from, to, markup, content) ==
    [type |-> type, parentID |-> parentID, fromIndex |-> from, toIndex |-> to,
     markup |-> markup, content |-> content]

EnqueueInsertMarkup(w, parentID, markup, to) ==
    [w EXCEPT !.markups = Append(@, markup),
              !.queue = Append(@, Change("insert", parentID, 0, to,
                                         Len(w.markups) + 1, ""))]

EnqueueMove(w, parentID, from, to) ==
    [w EXCEPT !.queue = Append(@, Change("move", parentID, from, to, 0, ""))]

EnqueueRemove(w, parentID, from) ==
    [w EXCEPT !.queue = Append(@, Change("remove", parentID, from, 0, 0, ""))]

EnqueueSetMarkup(w, parentID, markup) ==
    [w EXCEPT !.queue = Append(@, Change("markup", parentID, 0, 0, 0, markup))]

EnqueueTextContent(w, parentID, text) ==
    [w EXCEPT !.queue = Append(@, Change("text", parentID, 0, 0, 0, text))]

ClearQueue(w) == [w EXCEPT !.queue = <<>>, !.markups = <<>>]

ProcessQueue(w) ==
    IF w.queue = <<>> THEN w
    ELSE AndThen(DangerouslyProcessChildrenUpdates(w, w.queue, w.markups), ClearQueue)

\* try { ... } finally of updateChildren, updateTextContent and updateMarkup.
Updating(w, Op(_)) ==
    Given([Op([w EXCEPT !.depth = @ + 1]) EXCEPT !.depth = @ - 1], LAMBDA v :
        IF v.depth > 0 THEN v
        ELSE IF v.err THEN ClearQueue(v)
        ELSE ProcessQueue(v))

UpdateTextContent(w, i, text) ==
    Updating(w, LAMBDA v : EnqueueTextContent(v, v.insts[i].id, text))

UpdateMarkup(w, i, markup) ==
    Updating(w, LAMBDA v : EnqueueSetMarkup(v, v.insts[i].id, markup))

-----------------------------------------------------------------------------
(***************************************************************************)
(* New children for old (ReactChildReconciler.updateChildren): a child of  *)
(* the same name, type and key is kept and updated, others are unmounted   *)
(* and new ones made, but not mounted yet.                                 *)
(***************************************************************************)
RECURSIVE ReceiveComponent(_, _, _)

NamedKid(kids, name) ==
    LET at == {k \in 1..Len(kids) : kids[k].name = name}
    IN  IF at = {} THEN 0 ELSE kids[CHOOSE k \in at : TRUE].inst

Without(prev, kids) == SelectSeq(prev, LAMBDA kid : NamedKid(kids, kid.name) = 0)

ReconcileChild(a, p, child) ==
    LET kept == p # 0 /\ ShouldUpdateReactComponent(a.w.insts[p].el, child.el)
    IN  Given(IF kept THEN ReceiveComponent(a.w, p, child.el)
              ELSE IF p # 0 THEN UnmountComponent(a.w, p)
              ELSE a.w,
              LAMBDA v :
                  IF v.err THEN [a EXCEPT !.w = v, !.err = TRUE]
                  ELSE [w |-> IF kept THEN v ELSE Instantiate(v, child.el),
                        kids |-> Append(a.kids,
                                        [name |-> child.name,
                                         inst |-> IF kept THEN p ELSE Len(v.insts) + 1]),
                        err |-> FALSE])

ReconcileChildren(w, prev, next) ==
    AndThen(Each(LAMBDA a, child : ReconcileChild(a, NamedKid(prev, child.name), child),
                 [w |-> w, kids |-> <<>>, err |-> FALSE], next),
            LAMBDA a : [a EXCEPT !.w = UnmountKids(@, Without(prev, a.kids))])

RemoveChild(w, i, child) ==
    EnqueueRemove(w, w.insts[i].id, w.insts[child].at)

\* Mutant of MoveChild: moved when its old index is below the new one.
MoveForward(w, i, child, to, lastIndex) ==
    IF w.insts[child].at < to
    THEN EnqueueMove(w, w.insts[i].id, w.insts[child].at, to)
    ELSE w

\* A kept child is only moved when one that stood behind it comes before it.
MoveChild(w, i, child, to, lastIndex) ==
    IF w.insts[child].at < lastIndex
    THEN EnqueueMove(w, w.insts[i].id, w.insts[child].at, to)
    ELSE w

CreateChild(w, i, child, markup) ==
    EnqueueInsertMarkup(w, w.insts[i].id, markup, w.insts[child].at)

MountChildAtIndex(w, i, kid, index) ==
    Given(MountComponent(w, kid.inst, CreateReactID(w.insts[i].id, kid.name)), LAMBDA m :
        AndThen(m.w, LAMBDA v :
            CreateChild([v EXCEPT !.insts[kid.inst].at = index], i, kid.inst, m.markup)))

UnmountChild(w, i, child) == [RemoveChild(w, i, child) EXCEPT !.insts[child].at = 0]

(***************************************************************************)
(* ReactMultiChild._updateChildren: lastIndex is the furthest old index    *)
(* seen so far, index that of the new child.                               *)
(***************************************************************************)
PlaceChild(a, i, p, kid) ==
    LET last == IF p # 0 /\ a.w.insts[p].at > a.last THEN a.w.insts[p].at ELSE a.last
    IN  Given(IF p = kid.inst
              THEN [MoveChild(a.w, i, p, a.index, a.last) EXCEPT !.insts[p].at = a.index]
              ELSE MountChildAtIndex(IF p = 0 THEN a.w ELSE UnmountChild(a.w, i, p),
                                     i, kid, a.index),
              LAMBDA v : [w |-> v, last |-> last, index |-> a.index + 1, err |-> v.err])

PlaceChildren(w, i, prev, kids) ==
    AndThen(Each(LAMBDA a, kid : PlaceChild(a, i, NamedKid(prev, kid.name), kid),
                 [w |-> w, last |-> 0, index |-> 0, err |-> FALSE], kids).w,
            LAMBDA v : Each(LAMBDA u, kid : UnmountChild(u, i, kid.inst),
                            v, Without(prev, kids)))

UpdateChildren(w, i, els) ==
    Updating(w, LAMBDA v :
        LET prev == v.insts[i].kids
        IN  Given(ReconcileChildren(v, prev, FlattenChildren(els)), LAMBDA a :
                AndThen(a.w, LAMBDA u :
                    PlaceChildren([u EXCEPT !.insts[i].kids = a.kids],
                                  i, prev, a.kids))))

-----------------------------------------------------------------------------
(***************************************************************************)
(* Updating.                                                               *)
(***************************************************************************)
\* _pendingStateQueue: the partial states, merged in the order of the calls.
ProcessPendingState(w, i) ==
    LET inst == w.insts[i]
        merged[k \in 0..Len(inst.pending)] ==
            IF k = 0 THEN inst.state ELSE inst.pending[k].fields @@ merged[k - 1]
    IN  [w EXCEPT !.insts[i].state = merged[Len(inst.pending)],
                  !.insts[i].pending = <<>>,
                  !.insts[i].merged =
                      @ \cup {p.call : p \in ToSet(inst.pending)}]

\* Within a batch: ReactUpdates.enqueueUpdate only takes note.
MarkDirty(w, i) == [w EXCEPT !.dirty = Append(@, i)]

\* componentWillReceiveProps may set state, in the middle of the update.
ReceiveProps(w, i, el) ==
    Each(LAMBDA v, fields :
             MarkDirty([v EXCEPT !.insts[i].pending =
                           Append(@, [fields |-> fields, call |-> 0])], i),
         w, WillReceiveProps(el, w.insts[i].state))

(***************************************************************************)
(* What is rendered now is of the same kind and takes the update, or       *)
(* another component takes its place, in the page at once.                 *)
(***************************************************************************)
ReplaceRendered(w, i, prev, next) ==
    AndThen(UnmountComponent(w, prev), LAMBDA v :
        LET rendered == Len(v.insts) + 1
        IN  Given(MountComponent(
                      [Instantiate(v, next) EXCEPT
                          !.insts[i].kids = <<[name |-> <<>>, inst |-> rendered]>>],
                      rendered, v.insts[i].id),
                  LAMBDA m : AndThen(m.w, LAMBDA u :
                      DangerouslyReplaceNodeWithMarkupByID(u, w.insts[prev].id, m.markup))))

UpdateRenderedComponent(w, i) ==
    LET prev == w.insts[i].kids[1].inst
    IN  IF w.insts[i].kids = <<>> \/ RenderThrows(w.insts[i]) THEN Throw(w)
        ELSE Given(RenderValidatedComponent(w, i), LAMBDA next :
                 IF ShouldUpdateReactComponent(w.insts[prev].el, next)
                 THEN ReceiveComponent(w, prev, next)
                 ELSE ReplaceRendered(w, i, prev, next))

\* The state is taken in before the rendering that may throw.
UpdateComponent(w, i, el) ==
    UpdateRenderedComponent(
        [ProcessPendingState(w, i) EXCEPT !.insts[i].el = el], i)

ReceiveComposite(w, i, el) ==
    IF ~w.insts[i].set THEN Throw(w)
    ELSE UpdateComponent(ReceiveProps(w, i, el), i, el)

PerformUpdateIfNecessary(w, i) ==
    IF w.insts[i].pending = <<>> THEN w
    ELSE UpdateComponent(w, i, w.insts[i].el)

\* The value and the mark are written at every update.
UpdateInputWrapper(w, i) == UpdatePropertyByID(w, w.insts[i].id, w.insts[i].el.body)
UpdateTextareaWrapper(w, i) == UpdatePropertyByID(w, w.insts[i].id, w.insts[i].el.body)

UpdateWrapper(w, i) ==
    CASE w.insts[i].el.type = "checkbox" -> UpdateInputWrapper(w, i)
      [] w.insts[i].el.type = "textarea" -> UpdateTextareaWrapper(w, i)
      [] OTHER -> w

SetValueForStyles(w, n, pale) == [w EXCEPT !.nodes[n].pale = pale]

\* The style, and an image's picture.
UpdateDOMProperties(w, i, prev) ==
    LET el == w.insts[i].el
        styled(v) ==
            IF prev.pale = el.pale THEN v
            ELSE WithNode(v, v.insts[i].id, LAMBDA u, n : SetValueForStyles(u, n, el.pale))
        pictured(v) ==
            IF el.type # "img" \/ prev.body = el.body THEN v
            ELSE WithNode(v, v.insts[i].id, LAMBDA u, n : SetValueForProperty(u, n, el.body))
    IN  AndThen(pictured(w), styled)

\* To React the content of a text area has not changed.
UpdateDOMChildren(w, i, prev) ==
    LET el == w.insts[i].el
    IN  CASE el.type \in {"div", "li", "span", "button"} ->
               IF prev.body = el.body THEN w ELSE UpdateTextContent(w, i, el.body)
          [] el.type = "html" ->
               IF prev.body = el.body THEN w ELSE UpdateMarkup(w, i, el.body)
          [] el.type \in Parents -> UpdateChildren(w, i, el.kids)
          [] OTHER -> w

ReceiveDOM(w, i, el) ==
    LET prev == w.insts[i].el
    IN  AndThen(AndThen(UpdateWrapper([w EXCEPT !.insts[i].el = el], i),
                        LAMBDA v : UpdateDOMProperties(v, i, prev)),
                LAMBDA v : UpdateDOMChildren(v, i, prev))

ReceiveText(w, i, el) ==
    LET v == [w EXCEPT !.insts[i].el = el]
    IN  IF w.insts[i].el.body = el.body THEN v
        ELSE WithNode(v, v.insts[i].id, LAMBDA u, n : SetTextContent(u, n, el.body))

ReceiveComponent(w, i, el) ==
    LET refsChanged == ShouldUpdateRefs(w.insts[i].el, el)
    IN  AndThen(AndThen(IF refsChanged THEN DetachRefs(w, i, w.insts[i].el) ELSE w,
                        LAMBDA v : IF IsComposite(v, i) THEN ReceiveComposite(v, i, el)
                                   ELSE IF el.type = "#text" THEN ReceiveText(v, i, el)
                                   ELSE ReceiveDOM(v, i, el)),
                LAMBDA v : IF refsChanged /\ HasRef(el) THEN EnqueueReady(v, "ref", "", i)
                           ELSE v)
=============================================================================
