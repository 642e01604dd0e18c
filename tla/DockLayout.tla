----------------------------- MODULE DockLayout -----------------------------
(***************************************************************************)
(* Where the panels of a workspace window are: the tabs and regions of      *)
(* components/DockWorkspace.tsx, the layouts, focus mode and undo of        *)
(* App.tsx, and the book of arrangements that every window of the account   *)
(* on this device shares (lib/layout-presets.ts, in the browser's storage). *)
(* Sizes and the sidebar are left out.                                      *)
(***************************************************************************)
EXTENDS Naturals, Sequences, FiniteSets

CONSTANTS None,
          Names, MaxNamed,  \* names of saved layouts, and how many are kept
          MaxUndo,          \* steps kept for undo, tabs kept for reopening
          MaxActs           \* bound: commands

VARIABLES
    now,            \* this window's arrangement (a LayoutSnapshot)
    undo, focusRestore,
    view,           \* DockWorkspace: tabs selected, full view, closed tabs
    book,           \* the shared book
    named,          \* the saved layouts that this window lists
    acts

vars == <<now, undo, focusRestore, view, book, named, acts>>

\* Three of the panels of docking.ts, in its order.
Order == <<"editor", "conversation", "browser">>
Panels == {Order[i] : i \in DOMAIN Order}
Regions == {"left", "main", "split", "right", "bottom", "hidden"}
Persistent == {"chat", "workbench", "browser"}
Snapshots == [layout : Persistent \cup {"focus"}, dock : [Panels -> Regions], right : BOOLEAN, bottom : BOOLEAN]
\* The first of a set of panels.
Earliest(S) == Order[CHOOSE i \in DOMAIN Order : Order[i] \in S /\ \A j \in 1..(i - 1) : Order[j] \notin S]

\* layouts and defaultLayout.
Center == [chat |-> "conversation", workbench |-> "editor", browser |-> "browser"]
defaultLayout(l) ==
    [layout |-> l, right |-> TRUE, bottom |-> TRUE,
     dock |-> [p \in Panels |-> CASE p = Center[l] -> "main"
                                  [] p # Center[l] /\ p = "conversation" -> "right"
                                  [] OTHER -> "hidden"]]
focusDockMap(p) == [q \in Panels |-> IF q = p THEN "main" ELSE "hidden"]
HasMain(dock) == \E p \in Panels : dock[p] = "main"

TypeOK ==
    /\ now \in Snapshots /\ focusRestore \in Snapshots \cup {None}
    /\ Len(undo) <= MaxUndo /\ \A i \in DOMAIN undo : undo[i] \in Snapshots
    /\ view.active \in [Regions -> Panels \cup {None}] /\ view.expanded \in Panels \cup {None}
    /\ Len(view.closed) <= MaxUndo
    /\ \A l \in Persistent : book.arrangements[l] \in Snapshots \cup {None}
    /\ Cardinality(book.named) <= MaxNamed
    /\ \A n, m \in book.named : n.name = m.name => n = m

Init ==
    /\ now = defaultLayout("chat") /\ undo = <<>> /\ focusRestore = None
    /\ view \in [active : {[r \in Regions |-> None]}, expanded : {None}, floatingChat : {TRUE},
                 chatExpanded : {FALSE}, narrow : BOOLEAN, closed : {<<>>}]
    /\ book = [arrangements |-> [l \in Persistent |-> IF l = "chat" THEN now ELSE None], last |-> "chat", named |-> {}, ids |-> 0]
    /\ named = {} /\ acts = 0

-----------------------------------------------------------------------------
(* What DockWorkspace shows. *)

effective(s) == [p \in Panels |-> IF (s.dock[p] = "right" /\ ~s.right) \/ (s.dock[p] = "bottom" /\ ~s.bottom)
                                    THEN "hidden" ELSE s.dock[p]]
opened(s) == {p \in Panels : effective(s)[p] # "hidden"}
Slot(v, region) == IF v.narrow THEN "main" ELSE region
selectedFor(s, v, region) ==
    LET group == {p \in opened(s) : v.narrow \/ effective(s)[p] = region}
        center == {p \in group : effective(s)[p] = "main"}
        tab == v.active[Slot(v, region)]
    IN  CASE tab \in group -> tab
          [] tab \notin group /\ center # {} -> Earliest(center)
          [] OTHER -> Earliest(group)
canFloat(s, v) == v.expanded \notin {None, "conversation"} /\ "conversation" \in opened(s)
visiblePanels(s, v) ==
    {p \in opened(s) :
       IF v.expanded = None THEN p = selectedFor(s, v, effective(s)[p])
       ELSE p = v.expanded \/ (canFloat(s, v) /\ v.floatingChat /\ p = "conversation")}

activate(s, v, p) ==
    LET region == Slot(v, effective(s)[p])
        selected == [v EXCEPT !.active[region] = p]
    IN  CASE region = "hidden" -> v
          [] region # "hidden" /\ v.expanded \in {None, p} -> selected
          [] region # "hidden" /\ v.expanded \notin {None, p} /\ p = "conversation" ->
               [selected EXCEPT !.floatingChat = TRUE, !.chatExpanded = TRUE]
          [] OTHER -> [selected EXCEPT !.expanded = p]

-----------------------------------------------------------------------------
(* The book.  Each call reads it from the storage and writes it at once. *)

arrangement(b, l) == IF b.arrangements[l] = None THEN defaultLayout(l) ELSE b.arrangements[l]

\* Mutant: what the window once read is written back.
rememberCached(b, s) ==
    IF s.layout = "focus" THEN b
    ELSE [b EXCEPT !.arrangements[s.layout] = s, !.last = s.layout, !.named = named]

remember(b, s) ==
    IF s.layout = "focus" THEN b ELSE [b EXCEPT !.arrangements[s.layout] = s, !.last = s.layout]

CanSave(b, name, s) == s.layout # "focus" /\ ((\E n \in b.named : n.name = name) \/ Cardinality(b.named) < MaxNamed)
save(b, name, s) ==
    LET old == {n \in b.named : n.name = name}
        id == IF old = {} THEN b.ids + 1 ELSE (CHOOSE n \in old : TRUE).id
    IN  [b EXCEPT !.named = (@ \ old) \cup {[id |-> id, name |-> name, snapshot |-> s]},
                  !.ids = IF old = {} THEN @ + 1 ELSE @]
remove(b, id) == [b EXCEPT !.named = {n \in @ : n.id # id}]
reset(b, l) == [b EXCEPT !.arrangements[l] = defaultLayout(l)]

-----------------------------------------------------------------------------
(* Every command ends with the window's effects: a panel that is no longer   *)
(* open is not in full view, and the arrangement is remembered. *)

Acts == acts < MaxActs /\ acts' = acts + 1
Become(s, v, b) ==
    /\ now' = s
    /\ view' = IF v.expanded \in opened(s) THEN v ELSE [v EXCEPT !.expanded = None]
    /\ book' = IF s = now THEN b ELSE remember(b, s)

rememberLayout == undo' = Append(SubSeq(undo, IF Len(undo) = MaxUndo THEN 2 ELSE 1, Len(undo)), now)

\* changeDock.
Docked(dock) ==
    [now EXCEPT !.dock = dock,
                !.right = @ \/ \E p \in Panels : dock[p] = "right" /\ now.dock[p] # "right",
                !.bottom = @ \/ \E p \in Panels : dock[p] = "bottom" /\ now.dock[p] # "bottom"]

\* move: something stays in the center.
Moved(p, region) ==
    LET next == [now.dock EXCEPT ![p] = region]
        siblings == opened(now) \ {p}
        sibling == CASE "conversation" \in siblings -> "conversation"
                     [] "conversation" \notin siblings /\ siblings # {} -> Earliest(siblings)
                     [] OTHER -> p
    IN  IF HasMain(next) THEN next ELSE [next EXCEPT ![sibling] = "main"]
MovedView(p, dock) == [view EXCEPT !.expanded = None, !.active[Slot(view, dock[p])] = p]

move ==
    /\ Acts /\ rememberLayout
    /\ \E p \in opened(now), region \in Regions \ {"hidden"} :
         LET dock == Moved(p, region) IN Become(Docked(dock), MovedView(p, dock), book)
    /\ UNCHANGED <<focusRestore, named>>

\* A tab is chosen, in a strip or in the menu of new tabs of a visible panel.
Reopened(p, v) == [v EXCEPT !.expanded = IF view.expanded = None THEN @ ELSE p,
                            !.closed = SelectSeq(@, LAMBDA c : c.panel # p)]
openTab ==
    /\ Acts
    /\ \E p \in Panels, pane \in visiblePanels(now, view) :
         IF p \in opened(now) THEN Become(now, Reopened(p, activate(now, view, p)), book) /\ UNCHANGED undo
         ELSE LET dock == Moved(p, effective(now)[pane])
              IN  Become(Docked(dock), Reopened(p, MovedView(p, dock)), book) /\ rememberLayout
    /\ UNCHANGED <<focusRestore, named>>

selectTab ==
    /\ Acts
    /\ \E p \in opened(now) : Become(now, activate(now, view, p), book)
    /\ UNCHANGED <<undo, focusRestore, named>>

\* Mutant: the center may stay empty.
RefilledNot(next, successor) == next
Refilled(next, successor) == IF HasMain(next) THEN next ELSE [next EXCEPT ![successor] = "main"]

closeTab ==
    /\ Acts /\ rememberLayout
    /\ \E p \in opened(now) :
         LET rest == opened(now) \ {p}
             Like(region) == {q \in rest : now.dock[q] = region}
             successor == CASE Like(now.dock[p]) # {} -> Earliest(Like(now.dock[p]))
                            [] Like(now.dock[p]) = {} /\ Like("main") # {} -> Earliest(Like("main"))
                            [] OTHER -> Earliest(rest)
             next == Refilled([now.dock EXCEPT ![p] = "hidden"], successor)
             kept == SelectSeq(view.closed, LAMBDA c : c.panel # p)
         IN  /\ rest # {}
             /\ Become(Docked(next),
                    [view EXCEPT !.active[Slot(view, next[successor])] = successor,
                                 !.expanded = IF @ = p THEN None ELSE @,
                                 !.closed = Append(SubSeq(kept, IF Len(kept) = MaxUndo THEN 2 ELSE 1, Len(kept)),
                                                   [panel |-> p, region |-> now.dock[p]])], book)
    /\ UNCHANGED <<focusRestore, named>>

reopen ==
    /\ Acts /\ view.closed # <<>> /\ rememberLayout
    /\ LET last == view.closed[Len(view.closed)]
           dock == Moved(last.panel, IF last.region = "hidden" THEN "main" ELSE last.region)
       IN  Become(Docked(dock), [MovedView(last.panel, dock) EXCEPT !.closed = SubSeq(@, 1, Len(@) - 1)], book)
    /\ UNCHANGED <<focusRestore, named>>

\* Full view and the floating chat over it; Escape ends full view.
expand ==
    /\ Acts
    /\ \E v \in {[view EXCEPT !.expanded = IF @ = p THEN None ELSE p, !.floatingChat = TRUE, !.chatExpanded = FALSE]
                   : p \in visiblePanels(now, view)}
                \cup {[view EXCEPT !.floatingChat = ~@], [view EXCEPT !.chatExpanded = ~@], [view EXCEPT !.expanded = None]} :
         (v.expanded = view.expanded => canFloat(now, view)) /\ Become(now, v, book)
    /\ UNCHANGED <<undo, focusRestore, named>>

\* The window becomes narrow, or wide.
resizeWindow ==
    /\ Acts /\ Become(now, [view EXCEPT !.narrow = ~@], book)
    /\ UNCHANGED <<undo, focusRestore, named>>

-----------------------------------------------------------------------------
(* The commands of App. *)

\* chooseLayout; a panel to reveal gets a place if it has none.
chooseLayout ==
    /\ Acts /\ rememberLayout /\ focusRestore' = None
    /\ \E l \in Persistent, reveal \in {None, "editor"} :
         LET b == remember(book, now)
             s == arrangement(b, l)
             region == CASE s.dock[reveal] # "hidden" -> s.dock[reveal]
                         [] s.dock[reveal] = "hidden" /\ HasMain(s.dock) -> "split"
                         [] OTHER -> "main"
             shown == IF reveal = None THEN s
                      ELSE [s EXCEPT !.dock[reveal] = region, !.right = @ \/ region = "right", !.bottom = @ \/ region = "bottom"]
         IN  /\ reveal # None => l = "workbench"
             /\ Become(shown, IF reveal = None THEN view ELSE activate(shown, view, reveal), b)
    /\ UNCHANGED named

\* openSurface, for a panel other than the editor.
openSurface ==
    /\ Acts /\ rememberLayout
    /\ \E p \in Panels \ {"editor", "conversation"} :
         LET centered == IF HasMain(now.dock) THEN now.dock ELSE [now.dock EXCEPT !["conversation"] = "main"]
             dock == IF centered[p] = "hidden" THEN [centered EXCEPT ![p] = "right"] ELSE centered
             s == [now EXCEPT !.dock = dock, !.right = @ \/ dock[p] = "right", !.bottom = @ \/ dock[p] = "bottom"]
         IN  Become(s, activate(s, view, p), book)
    /\ UNCHANGED <<focusRestore, named>>

focusPanel ==
    /\ Acts
    /\ \E p \in Panels :
         LET region == CASE p = "conversation" -> "right"
                         [] p # "conversation" /\ HasMain(now.dock) -> "split"
                         [] OTHER -> "main"
             s == CASE now.dock[p] = "hidden" -> Docked([now.dock EXCEPT ![p] = region])
                    [] now.dock[p] = "right" -> [now EXCEPT !.right = TRUE]
                    [] now.dock[p] = "bottom" -> [now EXCEPT !.bottom = TRUE]
                    [] OTHER -> now
         IN  /\ Become(s, activate(s, view, p), book)
             /\ IF now.dock[p] = "hidden" THEN rememberLayout ELSE UNCHANGED undo
    /\ UNCHANGED <<focusRestore, named>>

toggleFocus ==
    /\ Acts
    /\ IF focusRestore # None
         THEN Become(focusRestore, view, book) /\ focusRestore' = None /\ UNCHANGED undo
         ELSE /\ focusRestore' = now /\ rememberLayout
              /\ \E p \in visiblePanels(now, view) :
                   Become([layout |-> "focus", dock |-> focusDockMap(p), right |-> FALSE, bottom |-> FALSE], view, book)
    /\ UNCHANGED named

undoLayout ==
    /\ Acts /\ undo # <<>> /\ focusRestore' = None
    /\ undo' = SubSeq(undo, 1, Len(undo) - 1) /\ Become(undo[Len(undo)], view, book)
    /\ UNCHANGED named

resetLayout ==
    /\ Acts /\ rememberLayout /\ focusRestore' = None
    /\ LET under == CASE now.layout # "focus" -> now.layout
                      [] now.layout = "focus" /\ focusRestore # None -> focusRestore.layout
                      [] OTHER -> "chat"
           l == IF under = "focus" THEN "chat" ELSE under
       IN  Become(defaultLayout(l), view, reset(book, l))
    /\ UNCHANGED named

\* The panels of the right or of the bottom are hidden, or shown again.
toggleRegion ==
    /\ Acts /\ rememberLayout
    /\ \E s \in {[now EXCEPT !.right = ~@], [now EXCEPT !.bottom = ~@]} : Become(s, view, book)
    /\ UNCHANGED <<focusRestore, named>>

saveLayout(name) ==
    /\ Acts /\ CanSave(book, name, now)
    /\ book' = save(book, name, now) /\ named' = book'.named
    /\ UNCHANGED <<now, undo, focusRestore, view>>

\* A listed layout is restored from the book, or removed.
restoreNamed ==
    /\ Acts /\ rememberLayout /\ focusRestore' = None
    /\ \E n \in named, m \in book.named : m.id = n.id /\ Become(m.snapshot, view, book)
    /\ UNCHANGED named
removeNamed(id) ==
    /\ Acts /\ (\E n \in named : n.id = id)
    /\ book' = remove(book, id) /\ named' = book'.named
    /\ UNCHANGED <<now, undo, focusRestore, view>>

\* Another window of the account uses the same book.
otherWindow ==
    /\ Acts
    /\ \E l \in Persistent :
         LET s == [defaultLayout(l) EXCEPT !.bottom = FALSE]
         IN  book' \in {remember(book, s)} \cup {save(book, name, s) : name \in {n \in Names : CanSave(book, n, s)}}
    /\ UNCHANGED <<now, undo, focusRestore, view, named>>
otherRemoves(id) ==
    /\ Acts /\ book' = remove(book, id)
    /\ UNCHANGED <<now, undo, focusRestore, view, named>>

-----------------------------------------------------------------------------
Removes == \E n \in book.named : removeNamed(n.id) \/ otherRemoves(n.id)
Next ==
    \/ move \/ openTab \/ selectTab \/ closeTab \/ reopen \/ expand \/ resizeWindow
    \/ chooseLayout \/ openSurface \/ focusPanel \/ toggleFocus \/ undoLayout \/ resetLayout \/ toggleRegion
    \/ restoreNamed \/ otherWindow \/ Removes
    \/ \E name \in Names : saveLayout(name)

Spec == Init /\ [][Next]_vars

-----------------------------------------------------------------------------
(* Properties. *)

\* Whatever is closed, moved, hidden, undone or restored, the center keeps a
\* panel, so that the window shows something, and a region shows one panel
\* ("closes to the adjacent tab", "keeps chat in the center",
\* workspace-tabs.test.tsx:10-13; DockWorkspace.tsx:28-34).
NeverBlank ==
    /\ HasMain(now.dock) /\ visiblePanels(now, view) # {}
    /\ view.expanded = None =>
         \A p, q \in visiblePanels(now, view) : effective(now)[p] = effective(now)[q] => p = q

\* "merges different-window layout writes without clobbering other presets"
\* (layout-presets.test.ts:6): a named layout stays until someone removes it, and
\* what a window does leaves the arrangements of the layouts it is not in alone.
BookKept ==
    [][/\ Removes \/ \A n \in book.named : \E m \in book'.named : m.id = n.id
       /\ \A l \in Persistent : book'.arrangements[l] # book.arrangements[l] =>
            l \in {now.layout, now'.layout} \/ otherWindow]_vars

=============================================================================
