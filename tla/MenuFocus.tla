------------------------------ MODULE MenuFocus -----------------------------
(* The keyboard focus of a menu of the navigation bar (useMenuA11y), at the *)
(* agent switcher, whose rows come and go with the polls and whose remove   *)
(* button leaves the page together with the row it removes.                 *)
(*                                                                          *)
(* An element that leaves the page or is disabled while it has the focus    *)
(* loses it to the page (for a disabled one browsers differ). Rows are      *)
(* keyed by their agent, so one that stays keeps its elements.              *)
EXTENDS Naturals, Sequences, Positions

CONSTANTS
    RowLists,       \* lists of agents the registry can answer with
    AgentInMenu     \* their agents

VARIABLES
    menuOpen,
    rows,           \* the agents listed, and whether each one is offline
    focus,          \* the element that has the focus
    beingRemoved,   \* removing: its button is disabled
    clicked         \* the remove button of the request in flight

mfVars == <<menuOpen, rows, focus, beingRemoved, clicked>>

AllAgents == <<"all">>
SelectItem(a) == <<"select", a>>
RemoveItem(a) == <<"remove", a>>
Trigger == <<"trigger">>
Page == <<"page">>
NoRow == <<>>
NoClick == [row |-> NoRow, place |-> "none", selected |-> FALSE]

MenuRow == [peer : AgentInMenu, offline : BOOLEAN]

ASSUME MenuAssumption == RowLists \subseteq Seq(MenuRow) /\ <<>> \in RowLists

MfTypeOK ==
    /\ menuOpen \in BOOLEAN
    /\ rows \in Seq(MenuRow)
    /\ focus \in {AllAgents, Trigger, Page} \cup {SelectItem(a) : a \in AgentInMenu}
                    \cup {RemoveItem(a) : a \in AgentInMenu}
    /\ beingRemoved \in {NoRow} \cup {<<a>> : a \in AgentInMenu}
    /\ clicked \in [row : {NoRow} \cup {<<a>> : a \in AgentInMenu}, selected : BOOLEAN,
                    place : {"none", "in its row", "row gone", "alone"}]

-----------------------------------------------------------------------------
(* Mutants: definitions named ..._Mutant are faults that the properties      *)
(* below must tell from the code; no other definition uses them.            *)

(* Two buttons for a row; the second one is there for an offline agent.     *)
RowButtons(list) ==
    [n \in 1 .. 2 * Len(list) |->
        IF n % 2 = 1 THEN SelectItem(list[(n + 1) \div 2].peer)
        ELSE RemoveItem(list[n \div 2].peer)]

(* The elements of the menu, and those that querySelectorAll finds.         *)
MenuElements(list) ==
    <<AllAgents>> \o SubsequenceAt(RowButtons(list),
        {n \in 1 .. 2 * Len(list) : n % 2 = 1 \/ list[n \div 2].offline})
Enabled(list, disabled) ==
    IF disabled = NoRow THEN MenuElements(list)
    ELSE Without(MenuElements(list), RemoveItem(disabled[1]))

InMenu(e, list) == e \in Range(MenuElements(list))

(* Where the focus is once the page shows these rows.                       *)
AfterRender(e, list) == IF e \in {Trigger, Page} \/ InMenu(e, list) THEN e ELSE Page

(* The button of the request is taken off its row when the agent is online, *)
(* and the row off the menu when the agent is not listed.                   *)
PlaceAfter(list) ==
    LET of == {row \in Range(list) : <<row.peer>> = clicked.row}
    IN IF clicked.place # "in its row" THEN clicked.place
       ELSE IF of = {} THEN "row gone"
       ELSE IF \E row \in of : row.offline THEN "in its row" ELSE "alone"

(* close(): every way to close hands the focus to the trigger, and the rows *)
(* leave the page.                                                          *)
Closed(e) ==
    /\ menuOpen' = FALSE
    /\ focus' = e
    /\ clicked' = [clicked EXCEPT !.place = PlaceAfter(<<>>)]

Next1(item, items) ==
    items[(IndexOf(items, item) % Len(items)) + 1]
Previous1(item, items) ==
    LET at == IndexOf(items, item)
    IN IF at <= 1 THEN items[Len(items)] ELSE items[at - 1]

(* Mutant: only the button itself is left out, not its row.                 *)
Neighbours_Mutant(a, items) ==
    LET at == IndexOf(items, SelectItem(a))
        others == Without(items, RemoveItem(a))
    IN IF at = 0 THEN <<others[1]>> ELSE SubSeq(others, at, Len(others))

(* focusNeighbour: the first item behind the row, else the last one.        *)
Neighbours(a, items) ==
    LET at == IndexOf(items, SelectItem(a))
        others == Without(Without(items, SelectItem(a)), RemoveItem(a))
        behind == SubSeq(others, at, Len(others))
    IN IF behind = <<>> THEN <<others[Len(others)]>> ELSE behind

-----------------------------------------------------------------------------
(* The trigger; opening moves the focus to the first item.                  *)
ToggleMenu ==
    \/ /\ menuOpen /\ Closed(Trigger)
       /\ UNCHANGED <<rows, beingRemoved>>
    \/ /\ ~menuOpen /\ menuOpen' = TRUE
       /\ focus' = AllAgents
       /\ UNCHANGED <<rows, beingRemoved, clicked>>

(* Escape, while the focus is in the menu or on the trigger; a click on an  *)
(* item that selects, or on the backdrop.                                   *)
CloseMenu ==
    /\ menuOpen
    /\ Closed(Trigger)
    /\ UNCHANGED <<rows, beingRemoved>>

(* Tab: the browser moves on from the trigger.                              *)
TabOut ==
    /\ menuOpen /\ focus # Page
    /\ Closed(Page)
    /\ UNCHANGED <<rows, beingRemoved>>

(* The other keys: an element that is no enabled item counts as index -1.   *)
ArrowKey(key) ==
    LET items == Enabled(rows, beingRemoved)
    IN /\ menuOpen /\ focus # Page
       /\ focus' = CASE key = "down" -> Next1(focus, items)
                     [] key = "up" -> Previous1(focus, items)
                     [] key = "home" -> items[1]
                     [] key = "end" -> items[Len(items)]
       /\ UNCHANGED <<menuOpen, rows, beingRemoved, clicked>>

(* A poll's answer.                                                         *)
RowsChange(list) ==
    /\ rows' = list
    /\ focus' = IF menuOpen THEN AfterRender(focus, list) ELSE focus
    /\ clicked' = [clicked EXCEPT !.place = PlaceAfter(list)]
    /\ UNCHANGED <<menuOpen, beingRemoved>>

ClickRemove(a, selected) ==
    /\ menuOpen /\ clicked = NoClick
    /\ RemoveItem(a) \in Range(Enabled(rows, beingRemoved))
    /\ clicked' = [row |-> <<a>>, place |-> "in its row", selected |-> selected]
    /\ beingRemoved' = <<a>>
    /\ focus' \in {RemoveItem(a), Page}
    /\ UNCHANGED <<menuOpen, rows>>

RemoveRefused ==
    /\ clicked # NoClick
    /\ clicked' = NoClick /\ beingRemoved' = NoRow
    /\ UNCHANGED <<menuOpen, rows, focus>>

(* The removal is confirmed. The selected agent's closes the menu; another  *)
(* one hands the focus on first. A button without a row finds no item       *)
(* behind it; one whose row has left the page compares with the items in an *)
(* order of the browser's own.                                              *)
RemoveConfirmed ==
    LET a == clicked.row[1]
        items == Enabled(rows, beingRemoved)
        left == SubsequenceAt(rows, {i \in DOMAIN rows : rows[i].peer # a})
        targets == CASE clicked.place = "in its row" -> {Neighbours(a, items)[1]}
                     [] clicked.place = "row gone" -> {items[1], items[Len(items)]}
                     [] clicked.place = "alone" -> {items[Len(items)]}
    IN /\ clicked # NoClick
       /\ rows' = left
       /\ clicked' = NoClick /\ beingRemoved' = NoRow
       /\ IF clicked.selected
          THEN menuOpen' = FALSE /\ focus' = Trigger
          ELSE /\ UNCHANGED menuOpen
               /\ IF menuOpen THEN \E e \in targets : focus' = AfterRender(e, left)
                  ELSE UNCHANGED focus

MfInit ==
    /\ menuOpen = FALSE /\ rows = <<>> /\ focus = Page
    /\ beingRemoved = NoRow /\ clicked = NoClick

MfNext ==
    \/ ToggleMenu
    \/ CloseMenu
    \/ TabOut
    \/ \E key \in {"down", "up", "home", "end"} : ArrowKey(key)
    \/ \E list \in RowLists : RowsChange(list)
    \/ \E a \in AgentInMenu, selected \in BOOLEAN : ClickRemove(a, selected)
    \/ RemoveRefused
    \/ RemoveConfirmed

MfSpec == MfInit /\ [][MfNext]_mfVars

-----------------------------------------------------------------------------
(* Properties.                                                              *)

HandOverStep ==
    /\ clicked.place = "in its row" /\ clicked' = NoClick /\ Len(rows') < Len(rows)
    => IF menuOpen' THEN InMenu(focus', rows') ELSE focus' \in {Trigger, Page}

(* A confirmed removal whose button still stands in its row leaves the      *)
(* focus on an item of the open menu that stays, wherever the row was and   *)
(* whatever polls have changed around it, so that the keys keep working.    *)
(* (When the menu was opened anew, or the agent was listed as online in     *)
(* between, the focus can still be lost.)                                   *)
RemovalHandsFocusOn == [][HandOverStep]_mfVars
=============================================================================
