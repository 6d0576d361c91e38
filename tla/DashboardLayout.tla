--------------------------- MODULE DashboardLayout --------------------------
(* The dashboard page and its grid: which widgets are shown, at which       *)
(* breakpoint, and what localStorage keeps of them.                         *)
(*                                                                          *)
(* An item is its widget; positions and sizes are left out, but an item of  *)
(* the stored value may lack them (sound). The grid library is modelled by  *)
(* what it calls back with: the widgets that are its children, at the       *)
(* breakpoint of the viewport.                                              *)
EXTENDS Naturals, Sequences, Positions

CONSTANTS
    WidgetId,       \* the ids of WIDGET_REGISTRY
    StrayId,        \* ids of widgets that no longer exist
    DefaultIds,     \* DEFAULT_WIDGET_IDS
    Breakpoints,    \* BREAKPOINT_ORDER, the widest first
    ColCounts, DefaultCols,
    StoredValues    \* what a browser may hold at first

VARIABLES
    dlPage,         \* checking, ready, or login
    storage,        \* works, full (no writes) or blocked
    storedLayouts,  \* the value under LAYOUT_STORAGE_KEY
    cols, storedCols,
    layouts,        \* the grid's state
    viewport,       \* the breakpoint that applies
    removedIds      \* widgets whose removal was stored and not undone

dlVars == <<dlPage, storage, storedLayouts, cols, storedCols, layouts, viewport, removedIds>>
gridVars == <<storedLayouts, layouts, removedIds>>

Bp == Range(Breakpoints)
Widest == Breakpoints[1]
Item == [id : WidgetId \cup StrayId, sound : BOOLEAN]
NoValue == [format |-> "none"]
Broken == [format |-> "broken"]
Layouts(of) == [format |-> "layouts", of |-> of]
Legacy(items) == [format |-> "legacy", items |-> items]

(* What a browser may hold: no text, no JSON, layouts by breakpoint, or one *)
(* array of the old format.                                                 *)
IsStored(value) ==
    \/ value.format \in {"none", "broken"}
    \/ value.format = "layouts" /\ \A bp \in DOMAIN value.of : value.of[bp] \in Seq(Item)
    \/ value.format = "legacy" /\ value.items \in Seq(Item)

ASSUME LayoutAssumption ==
    /\ WidgetId \cap StrayId = {}
    /\ DefaultIds \in Seq(WidgetId) \ {<<>>} /\ IsInjective(DefaultIds)
    /\ Breakpoints \in Seq(Bp) \ {<<>>} /\ DefaultCols \in ColCounts
    /\ \A value \in StoredValues : IsStored(value)

IsLayouts(f) == DOMAIN f \subseteq Bp /\ \A bp \in DOMAIN f : f[bp] \in Seq(WidgetId)

DlTypeOK ==
    /\ dlPage \in {"checking", "ready", "login"}
    /\ storage \in {"works", "full", "blocked"}
    /\ IsStored(storedLayouts)
    /\ cols \in ColCounts /\ storedCols \in ColCounts \cup {0}
    /\ IsLayouts(layouts) /\ \A bp \in DOMAIN layouts : IsInjective(layouts[bp])
    /\ viewport \in Bp
    /\ removedIds \subseteq WidgetId

-----------------------------------------------------------------------------
(* Mutants: definitions named ..._Mutant are faults that the properties      *)
(* below must tell from the code; no other definition uses them.            *)

Usable(items) == {i \in DOMAIN items : items[i].sound /\ items[i].id \in WidgetId}
IdsAt(items, I) == SubsequenceAt([i \in DOMAIN items |-> items[i].id], I)

(* Mutant: a widget that is stored twice is shown twice.                    *)
CleanItems_Mutant(items) == IdsAt(items, Usable(items))

(* cleanItems: known widgets with a place, each one once.                   *)
CleanItems(items) ==
    IdsAt(items, {i \in Usable(items) :
                    \A j \in Usable(items) : j < i => items[j].id # items[i].id})

(* parseStoredLayouts: no breakpoint is kept empty, and nothing usable is   *)
(* null, here the empty function.                                           *)
ParseStoredLayouts(raw) ==
    LET source == CASE raw.format = "layouts" -> raw.of
                    [] raw.format = "legacy" -> [bp \in {Widest} |-> raw.items]
                    [] OTHER -> <<>>
        usable == {bp \in DOMAIN source \cap Bp : CleanItems(source[bp]) # <<>>}
    IN [bp \in usable |-> CleanItems(source[bp])]

LoadLayouts == IF storage = "blocked" THEN <<>> ELSE ParseStoredLayouts(storedLayouts)

DefaultLayouts == [bp \in {Widest} |-> DefaultIds]

Items(ids) == [i \in DOMAIN ids |-> [id |-> ids[i], sound |-> TRUE]]
Saved(l) == IF storage = "works" THEN Layouts([bp \in DOMAIN l |-> Items(l[bp])]) ELSE storedLayouts

WidgetIdsOf(l) ==
    LET filled == SubsequenceAt(Breakpoints, {i \in DOMAIN Breakpoints :
                      Breakpoints[i] \in DOMAIN l /\ l[Breakpoints[i]] # <<>>})
    IN IF filled = <<>> THEN <<>> ELSE l[filled[1]]

(* Mutant: the removal reaches the breakpoint of the viewport only.         *)
RemoveWidget_Mutant(l, w) ==
    [bp \in DOMAIN l |-> IF bp = viewport THEN Without(l[bp], w) ELSE l[bp]]

RemoveWidget(l, w) == [bp \in DOMAIN l |-> Without(l[bp], w)]

AddWidget(l, w) ==
    LET at(bp) == IF bp \in DOMAIN l THEN l[bp] ELSE <<>>
    IN [bp \in (IF DOMAIN l = {} THEN {Widest} ELSE DOMAIN l) |->
          IF w \in Range(at(bp)) THEN at(bp) ELSE Append(at(bp), w)]

(* The grid's effect on mounting, and when the columns change.              *)
GridLoads(raw, removed) ==
    LET loaded == IF storage = "blocked" THEN <<>> ELSE ParseStoredLayouts(raw)
        usable == DOMAIN loaded # {}
    IN /\ storedLayouts' = raw
       /\ layouts' = IF usable THEN loaded ELSE DefaultLayouts
       /\ removedIds' = IF usable THEN removed ELSE {}

Ready == dlPage = "ready"

-----------------------------------------------------------------------------
(* checkAuth: the answer to GET /api/auth. The grid mounts once the page is *)
(* ready, with the columns that were saved; storage that throws leads to    *)
(* the login page like a session that is over.                              *)
AuthChecked(signedIn) ==
    /\ dlPage = "checking"
    /\ IF signedIn /\ storage # "blocked"
       THEN /\ dlPage' = "ready"
            /\ cols' = IF storedCols \in ColCounts THEN storedCols ELSE cols
            /\ GridLoads(storedLayouts, removedIds)
       ELSE dlPage' = "login" /\ UNCHANGED <<cols, gridVars>>
    /\ UNCHANGED <<storage, storedCols, viewport>>

(* The minute's revalidation answers 401. (Other answers are ignored.)      *)
SessionExpired ==
    /\ Ready /\ dlPage' = "login"
    /\ UNCHANGED <<storage, cols, storedCols, viewport, gridVars>>

(* The page is loaded anew, after a login or a reload.                      *)
PageLoads ==
    /\ dlPage # "checking" /\ dlPage' = "checking"
    /\ cols' = DefaultCols
    /\ UNCHANGED <<storage, storedCols, viewport, gridVars>>

(* The grid calls back: the breakpoint of the viewport has its children.    *)
HandleLayoutChange ==
    LET all == [b \in DOMAIN layouts \cup {viewport} |->
                   IF b = viewport THEN WidgetIdsOf(layouts) ELSE layouts[b]]
    IN /\ Ready
       /\ layouts' = all /\ storedLayouts' = Saved(all)
       /\ UNCHANGED <<dlPage, storage, cols, storedCols, viewport, removedIds>>

(* The window is resized across a breakpoint.                               *)
BreakpointChanges(bp) ==
    LET all == [b \in DOMAIN layouts \cup {bp, viewport} |->
                   IF b = bp \/ b \notin DOMAIN layouts THEN WidgetIdsOf(layouts)
                   ELSE layouts[b]]
    IN /\ Ready /\ bp # viewport
       /\ viewport' = bp
       /\ layouts' = all /\ storedLayouts' = Saved(all)
       /\ UNCHANGED <<dlPage, storage, cols, storedCols, removedIds>>

(* The remove button of a widget.                                           *)
OnRemove(w) ==
    LET next == RemoveWidget(layouts, w)
    IN /\ Ready /\ w \in Range(WidgetIdsOf(layouts))
       /\ layouts' = next /\ storedLayouts' = Saved(next)
       /\ removedIds' = IF storage = "works" THEN removedIds \cup {w} ELSE removedIds
       /\ UNCHANGED <<dlPage, storage, cols, storedCols, viewport>>

(* addWidgetToStorage, and the grid mounts anew.                            *)
HandleAddWidget(w) ==
    LET current == IF DOMAIN LoadLayouts = {} THEN DefaultLayouts ELSE LoadLayouts
        undone == IF DOMAIN LoadLayouts = {} THEN {} ELSE removedIds \ {w}
    IN /\ Ready
       /\ GridLoads(Saved(AddWidget(current, w)), undone)
       /\ UNCHANGED <<dlPage, storage, cols, storedCols, viewport>>

HandleResetLayout ==
    /\ Ready
    /\ GridLoads(IF storage = "blocked" THEN storedLayouts ELSE NoValue, {})
    /\ UNCHANGED <<dlPage, storage, cols, storedCols, viewport>>

HandleRefresh ==
    /\ Ready
    /\ GridLoads(storedLayouts, removedIds)
    /\ UNCHANGED <<dlPage, storage, cols, storedCols, viewport>>

(* A new number of columns loads the layouts again. With storage that       *)
(* cannot be written the setter throws after the state was set.             *)
HandleColsChange(n) ==
    /\ Ready /\ n # cols
    /\ cols' = n
    /\ storedCols' = IF storage = "works" THEN n ELSE storedCols
    /\ GridLoads(storedLayouts, removedIds)
    /\ UNCHANGED <<dlPage, storage, viewport>>

(* The browser's quota, or its settings.                                    *)
StorageBecomes(s) ==
    /\ storage # s /\ storage' = s
    /\ UNCHANGED <<dlPage, cols, storedCols, viewport, gridVars>>

DlInit ==
    /\ dlPage = "checking" /\ storage = "works"
    /\ storedLayouts \in StoredValues
    /\ cols = DefaultCols /\ storedCols = 0
    /\ layouts = <<>> /\ viewport = Widest
    /\ removedIds = {}

DlNext ==
    \/ \E signedIn \in BOOLEAN : AuthChecked(signedIn)
    \/ SessionExpired
    \/ PageLoads
    \/ HandleLayoutChange
    \/ \E bp \in Bp : BreakpointChanges(bp)
    \/ \E w \in WidgetId : OnRemove(w) \/ HandleAddWidget(w)
    \/ HandleResetLayout
    \/ HandleRefresh
    \/ \E n \in ColCounts : HandleColsChange(n)
    \/ \E s \in {"works", "full", "blocked"} : StorageBecomes(s)

DlSpec == DlInit /\ [][DlNext]_dlVars

-----------------------------------------------------------------------------
(* Properties.                                                              *)

(* A widget whose removal was stored is not shown again, on any breakpoint, *)
(* after any reload, resize or change of the columns, until it is added or  *)
(* the default layout is loaded (on a reset, and when nothing usable is     *)
(* stored, which is the case once every widget has been removed).           *)
RemovedStaysRemoved ==
    Ready => \A w \in Range(WidgetIdsOf(layouts)) : w \notin removedIds
=============================================================================
