----------------------------- MODULE PopoverMenu -----------------------------
(***************************************************************************)
(* What the overflow menus of a panel header promise, abstractly: a set of *)
(* menus whose buttons are on screen (offered) and the one menu whose      *)
(* popover is open, if any.  A popover opens only on a click of its own    *)
(* button while no popover is open (the popover is modal: its backdrop    *)
(* takes every other click), it closes back to no popover, and no popover *)
(* ever passes directly to another menu or opens without a click.          *)
(* Renders change which buttons are offered and may close the open        *)
(* popover.                                                                *)
(***************************************************************************)
CONSTANTS
  Menus,    \* the overflow menus of the header
  NoMenu    \* no popover open

VARIABLES
  open,     \* the menu whose popover is on screen, or NoMenu
  offered   \* the menus whose button is on screen

menuVars == <<open, offered>>

Init ==
  /\ open = NoMenu
  /\ offered \in SUBSET Menus

\* handleClick on the button of menu m.
Open(m) ==
  /\ open = NoMenu /\ m \in offered
  /\ open' = m
  /\ offered' = offered

\* handleClose (backdrop, Escape, a click in the popover), or a render that
\* takes the popover away.
Close ==
  /\ open # NoMenu
  /\ open' = NoMenu
  /\ offered' \in SUBSET Menus

\* A render that leaves the popover as it is.
Render ==
  /\ open' = open
  /\ offered' \in SUBSET Menus

Next == (\E m \in Menus : Open(m)) \/ Close \/ Render

Spec == Init /\ [][Next]_menuVars

=============================================================================
