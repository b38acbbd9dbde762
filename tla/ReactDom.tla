------------------------------ MODULE ReactDom ------------------------------
(***************************************************************************)
(* The page as React 0.14 (react/bundle.js) sees it: the DOM nodes, the    *)
(* cache of nodes by id with the search behind it (ReactMount.getNode),    *)
(* and the operations that change nodes and children.                      *)
(*                                                                         *)
(* JavaScript runs one task at a time, so the whole world is one record w  *)
(* and the runtime is operators from worlds to worlds, in the order of the *)
(* code:                                                                   *)
(*   nodes      the DOM nodes ever made: id (<<>> of what React did not    *)
(*              make), tag, content (text, value or checkedness), pale     *)
(*              (style.opacity), kids, and the parent up, 0 for none       *)
(*   page       the only child of the container #issue-modal, 0 when empty *)
(*   focus      document.activeElement, 0 for the body                     *)
(*   caret      where the caret of a text area with the focus is           *)
(*   cache      ReactMount's nodeCache, from ids to nodes                  *)
(*   containers the root ids of containersByReactRootID (one container)    *)
(*   err        an exception is under way: what follows does not run,      *)
(*              until a closing wrapper or the end of the task             *)
(* The other fields are those of the listeners (ReactListeners), of the    *)
(* reconciler (ReactReconcile) and of the run time (ReactRuntime).         *)
(***************************************************************************)
EXTENDS ReactIds, FiniteSets, TLC

\* for (...) over a sequence: an exception ends it.
Each(Op(_, _), w, items) ==
    LET after[i \in 0..Len(items)] ==
            IF i = 0 THEN w
            ELSE LET v == after[i - 1]
                 IN  IF v.err THEN v ELSE Op(v, items[i])
    IN  after[Len(items)]

Throw(w) == [w EXCEPT !.err = TRUE]

\* What comes next, unless an exception is under way.
AndThen(w, Op(_)) == IF w.err THEN w ELSE Op(w)

\* A result that is used more than once.
Given(result, Op(_)) == Op(result)

-----------------------------------------------------------------------------
(***************************************************************************)
(* Nodes of the page by id.                                                *)
(***************************************************************************)
RECURSIVE TopOf(_, _)
TopOf(w, n) == IF w.nodes[n].up = 0 THEN n ELSE TopOf(w, w.nodes[n].up)

\* containsNode(container, node)
InPage(w, n) == n # 0 /\ TopOf(w, n) = w.page

FindReactContainerForID(w, id) == GetReactRootIDFromNodeID(id) \in w.containers

IsValid(w, id) ==
    /\ id \in DOMAIN w.cache
    /\ FindReactContainerForID(w, id)
    /\ InPage(w, w.cache[id])

\* ReactMount.getID: to read a node's id is to cache the node.
GetID(w, n) ==
    LET id == w.nodes[n].id
    IN  IF id = <<>> THEN w
        ELSE IF IsValid(w, id) /\ w.cache[id] # n THEN Throw(w)
        ELSE [w EXCEPT !.cache = (id :> n) @@ @]

PurgeID(w, id) == [w EXCEPT !.cache = Restrict(@, DOMAIN @ \ {id})]

\* The deepest ancestor of an id that is in the cache like all above it, or 0.
FindDeepestCachedAncestor(w, targetID) ==
    Given(TraverseAncestors(targetID), LAMBDA path :
        LET cached == Cardinality({k \in 1..Len(path) :
                                      \A j \in 1..k : IsValid(w, path[j])})
        IN  IF cached = 0 THEN 0 ELSE w.cache[path[cached]])

(***************************************************************************)
(* The search for a node, level by level: the target among the nodes of    *)
(* the level, or else below the one that is its ancestor.  All nodes       *)
(* looked at are cached.                                                   *)
(***************************************************************************)
RECURSIVE FindBelow(_, _, _)
FindBelow(w, level, targetID) ==
    LET above == SelectSeq(level,
                     LAMBDA n : IsAncestorIDOf(w.nodes[n].id, targetID))
    IN  AndThen(Each(GetID, w, level), LAMBDA v :
            IF \E n \in ToSet(level) : w.nodes[n].id = targetID THEN v
            ELSE IF above = <<>> THEN Throw(v)
            ELSE FindBelow(v, v.nodes[Last(above)].kids, targetID))

\* The children of the deepest ancestor, or else of the container, are first.
FindComponentRoot(w, targetID) ==
    Given(FindDeepestCachedAncestor(w, targetID), LAMBDA deepest :
        IF deepest = 0 /\ (w.page = 0 \/ ~FindReactContainerForID(w, targetID))
        THEN Throw(w)
        ELSE FindBelow(w, IF deepest = 0 THEN <<w.page>> ELSE w.nodes[deepest].kids,
                       targetID))

(***************************************************************************)
(* ReactMount.getNode: afterwards the node is cache[id], or the search has *)
(* thrown.  The id of what is not mounted is never found.                  *)
(***************************************************************************)
GetNode(w, id) ==
    IF id = <<>> THEN Throw(w)
    ELSE IF IsValid(w, id) THEN w
    ELSE FindComponentRoot(w, id)

\* What is done with the node of an id.
WithNode(w, id, Op(_, _)) ==
    AndThen(GetNode(w, id), LAMBDA v : Op(v, v.cache[id]))

GetReactRootElementInContainer(w) == w.page

\* Of an empty container there is none.
GetReactRootID(w) ==
    LET root == GetReactRootElementInContainer(w)
    IN  IF root = 0 THEN <<>> ELSE w.nodes[root].id

(***************************************************************************)
(* The node of React an event happened in: the first above the target that *)
(* has an id and whose root is the one in the container, or 0.             *)
(***************************************************************************)
RECURSIVE RootAbove(_, _, _)
RootAbove(w, n, rootID) ==
    IF n = 0 \/ w.nodes[n].id = rootID THEN n
    ELSE RootAbove(w, w.nodes[n].up, rootID)

RECURSIVE FindFirstReactDOM(_, _)
FindFirstReactDOM(w, n) ==
    LET rootID == GetReactRootIDFromNodeID(w.nodes[n].id)
        root == RootAbove(w, n, rootID)
    IN  IF n = 0 THEN 0
        ELSE IF w.nodes[n].id = <<>> THEN FindFirstReactDOM(w, w.nodes[n].up)
        ELSE IF root = 0 THEN 0
        ELSE IF root = w.page /\ rootID \in w.containers THEN n
        ELSE FindFirstReactDOM(w, w.nodes[n].up)

-----------------------------------------------------------------------------
(***************************************************************************)
(* Changes to the page.  Markup is a tree of records [id, tag, content,    *)
(* pale, kids]; the parser makes nodes of it.  Markdown holds a box to     *)
(* tick, a node that React does not know.                                  *)
(***************************************************************************)
InnerHTML(html) ==
    <<[id |-> <<>>, tag |-> "box", content |-> "off", pale |-> FALSE, kids |-> <<>>]>>

RECURSIVE Build(_, _, _)
Build(w, markup, up) ==
    LET n == Len(w.nodes) + 1
        add(v, child) ==
            [Build(v, child, n) EXCEPT
                !.nodes[n].kids = Append(@, Len(v.nodes) + 1)]
    IN  Each(add, [w EXCEPT !.nodes = Append(@,
                      [id |-> markup.id, tag |-> markup.tag,
                       content |-> markup.content, pale |-> markup.pale,
                       kids |-> <<>>, up |-> up])], markup.kids)

RECURSIVE Inside(_, _, _)
Inside(w, n, top) == n = top \/ (n # 0 /\ Inside(w, w.nodes[n].up, top))

\* parentNode.removeChild: the browser takes the focus from what it removes.
RemoveNode(w, n) ==
    [w EXCEPT !.nodes[w.nodes[n].up].kids = SelectSeq(@, LAMBDA m : m # n),
              !.nodes[n].up = 0,
              !.focus = IF Inside(w, @, n) THEN 0 ELSE @]

\* At an index past the end the child is appended.
InsertChildAt(w, parent, child, index) ==
    [w EXCEPT !.nodes[parent].kids =
                  IF index >= Len(@) THEN Append(@, child)
                  ELSE InsertAt(@, index + 1, child),
              !.nodes[child].up = parent]

SetTextContent(w, n, text) == [w EXCEPT !.nodes[n].content = text]

\* Whatever was inside is gone, the focus in it too.
SetInnerHTML(w, n, html) ==
    LET emptied == Each(RemoveNode, w, w.nodes[n].kids)
        filled == Each(LAMBDA v, markup : Build(v, markup, n), emptied, InnerHTML(html))
    IN  [filled EXCEPT !.nodes[n].content = html,
                       !.nodes[n].kids = <<Len(w.nodes) + 1>>]

\* parentNode.replaceChild
DangerouslyReplaceNodeWithMarkup(w, oldChild, markup) ==
    LET parent == w.nodes[oldChild].up
        at == CHOOSE k \in 1..Len(w.nodes[parent].kids) :
                  w.nodes[parent].kids[k] = oldChild
        built == Build(w, markup, parent)
    IN  [built EXCEPT !.nodes[parent].kids[at] = Len(w.nodes) + 1,
                      !.nodes[oldChild].up = 0,
                      !.focus = IF Inside(w, @, oldChild) THEN 0 ELSE @]

\* Nodes of all the markup, unattached; they follow the nodes there were.
DangerouslyRenderMarkup(w, markups) ==
    Each(LAMBDA v, markup : Build(v, markup, 0), w, markups)

(***************************************************************************)
(* DOMChildrenOperations.processUpdates: the children to move or remove    *)
(* are found at the indexes they had, all are taken out, and then each     *)
(* update puts its child in at the index it is to have.                    *)
(***************************************************************************)
ProcessUpdates(w, updates, markups) ==
    LET parent(u) == w.cache[u.parentID]
        kids(u) == w.nodes[parent(u)].kids
        old(u) == kids(u)[u.fromIndex + 1]
        taken == SelectSeq(updates, LAMBDA u : u.type \in {"move", "remove"})
        made(k) == Len(DangerouslyRenderMarkup(w, SubSeq(markups, 1, k - 1)).nodes) + 1
        put(v, u) ==
            CASE u.type = "insert" ->
                     InsertChildAt(v, parent(u), made(u.markup), u.toIndex)
              [] u.type = "move" ->
                     InsertChildAt(v, parent(u), old(u), u.toIndex)
              [] u.type = "text" -> SetTextContent(v, parent(u), u.content)
              [] u.type = "markup" -> SetInnerHTML(v, parent(u), u.content)
              [] u.type = "remove" -> v
    IN  IF \E u \in ToSet(taken) : u.fromIndex >= Len(kids(u)) THEN Throw(w)
        ELSE Each(put,
                  Each(LAMBDA v, u : RemoveNode(v, old(u)),
                       DangerouslyRenderMarkup(w, markups), taken),
                  updates)

(***************************************************************************)
(* ReactDOMIDOperations: all parents are looked up before any is changed.  *)
(***************************************************************************)
DangerouslyProcessChildrenUpdates(w, updates, markups) ==
    AndThen(Each(LAMBDA v, u : GetNode(v, u.parentID), w, updates),
            LAMBDA v : ProcessUpdates(v, updates, markups))

-----------------------------------------------------------------------------
(***************************************************************************)
(* Properties.  The content of a text area, a checkbox and an image is one *)
(* property of its node each.                                              *)
(***************************************************************************)
HTMLProperties ==
    [value |-> {"MUST_USE_PROPERTY", "HAS_SIDE_EFFECTS"},
     checked |-> {"MUST_USE_PROPERTY", "HAS_BOOLEAN_VALUE"},
     src |-> {}]

CheckMask(config, flag) == flag \in config

InjectDOMPropertyConfig(properties) ==
    [name \in DOMAIN properties |->
        [hasSideEffects |-> CheckMask(properties[name], "HAS_SIDE_EFFECTS"),
         hasBooleanValue |-> CheckMask(properties[name], "HAS_BOOLEAN_VALUE")]]

PropertyInfo(tag) ==
    InjectDOMPropertyConfig(HTMLProperties)[CASE tag = "textarea" -> "value"
                                              [] tag = "checkbox" -> "checked"
                                              [] tag = "img" -> "src"]

\* node[propName] = value: the caret of a text area goes to the end.
Assign(w, n, value) ==
    [w EXCEPT !.nodes[n].content = value, !.caret = IF w.focus = n THEN "end" ELSE @]

\* A property with side effects (value) is only written when it differs.
AssignProperty(w, n, info, value) ==
    IF info.hasSideEffects /\ w.nodes[n].content = value THEN w ELSE Assign(w, n, value)

ShouldIgnoreValue(info, value) == info.hasBooleanValue /\ value = "off"

\* A checkbox is not checked by default.
DeleteValueForProperty(w, n, info) == AssignProperty(w, n, info, "off")

SetValueForProperty(w, n, value) ==
    LET info == PropertyInfo(w.nodes[n].tag)
    IN  IF ShouldIgnoreValue(info, value) THEN DeleteValueForProperty(w, n, info)
        ELSE AssignProperty(w, n, info, value)

UpdatePropertyByID(w, id, value) ==
    WithNode(w, id, LAMBDA v, n : SetValueForProperty(v, n, value))

DangerouslyReplaceNodeWithMarkupByID(w, id, markup) ==
    WithNode(w, id, LAMBDA v, n : DangerouslyReplaceNodeWithMarkup(v, n, markup))

\* ReactComponentBrowserEnvironment.unmountIDFromEnvironment
UnmountIDFromEnvironment(w, rootNodeID) == PurgeID(w, rootNodeID)
=============================================================================
