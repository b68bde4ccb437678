----------------------------- MODULE DisplayLayout -----------------------------
(****************************************************************************)
(* The layout of the tactical display's window: where the panels and        *)
(* buttons of a mode lie, and the test that ends the display with an error  *)
(* when two of them overlap or a button lies outside its panel.  The layout *)
(* is built anew for every frame, so that a window too small for one mode   *)
(* ends the display when a snapshot changes the phase, which may be hours   *)
(* after it was opened.                                                     *)
(*                                                                          *)
(* Abstractions.  The panels that are only painted over others (content,    *)
(* rail, phase strip) and the labels are left out.                          *)
(*                                                                          *)
(* Source: clients/tactical-viewer-gui/src/app_layout.cpp, main.cpp         *)
(****************************************************************************)
EXTENDS Integers

CONSTANTS Widths, Heights   \* the sizes a window may be opened with

ASSUME WindowSizes == Widths \subseteq Int /\ Heights \subseteq Int

VARIABLES
    width, height,  \* options.width and options.height
    mode,           \* the mode of the last frame, "none" before the first
    everStandby,    \* whether a frame was painted in standby
    running         \* whether the display runs

layoutVars == <<width, height, mode, everStandby, running>>

LayoutMode == {"StandbySetup", "LiveTactical", "ReviewTactical"}

Rect(x, y, w, h) == [x |-> x, y |-> y, w |-> w, h |-> h]
NoRect == Rect(0, 0, 0, 0)

Right(r) == r.x + r.w
Bottom(r) == r.y + r.h

RectsOverlap(a, b) ==
    a.x < Right(b) /\ Right(a) > b.x /\ a.y < Bottom(b) /\ Bottom(a) > b.y

Inside(a, b) == a.x >= b.x /\ a.y >= b.y /\ Right(a) <= Right(b) /\ Bottom(a) <= Bottom(b)

--------------------------------------------------------------------------------
(****************************************************************************)
(* The panels                                                               *)
(****************************************************************************)

Margin == 24
ContentY == 106   \* header_y + header_h + gap_after_header

RailW(m) == IF m = "StandbySetup" THEN 340 ELSE 300

EventH(m) ==
    CASE m = "ReviewTactical" -> 176
      [] m = "StandbySetup" -> 146
      [] m = "LiveTactical" -> 118

DecisionH(m) == IF m = "ReviewTactical" THEN 150 ELSE 144

ControlH(m) ==
    CASE m = "ReviewTactical" -> 154
      [] m = "LiveTactical" -> 180
      [] m = "StandbySetup" -> 140

MapW(m, w) == w - 2 * Margin - 18 - RailW(m)

EventY(m, h) == h - Margin - EventH(m)
PanelX(m, w) == Margin + MapW(m, w) + 18
ControlY(m) == ContentY + DecisionH(m) + 12
LowerY(m) == ControlY(m) + ControlH(m) + 12

LowerH(m, h) == IF h - Margin - LowerY(m) > 0 THEN h - Margin - LowerY(m) ELSE 0

PanelName == {"header", "map", "decision", "control", "resilience", "setup", "event"}

\* build_layout's panels in a window of w by h.
Panel(p, m, w, h) ==
    CASE p = "header" -> Rect(Margin, 18, w - 2 * Margin, 64)
      [] p = "map" -> Rect(Margin, ContentY, MapW(m, w), EventY(m, h) - 14 - ContentY)
      [] p = "decision" -> Rect(PanelX(m, w), ContentY, RailW(m), DecisionH(m))
      [] p = "control" -> Rect(PanelX(m, w), ControlY(m), RailW(m), ControlH(m))
      [] p = "resilience" ->
            IF m = "LiveTactical"
            THEN Rect(PanelX(m, w), LowerY(m), RailW(m),
                      IF LowerH(m, h) < 148 THEN LowerH(m, h) ELSE 148)
            ELSE NoRect
      [] p = "setup" ->
            IF m = "StandbySetup" THEN Rect(PanelX(m, w), LowerY(m), RailW(m), LowerH(m, h))
            ELSE NoRect
      [] p = "event" -> Rect(Margin, EventY(m, h), MapW(m, w), EventH(m))

Visible(p, m, w, h) == Panel(p, m, w, h).w > 0 /\ Panel(p, m, w, h).h > 0

PanelsOverlap(m, w, h) ==
    \E p, q \in PanelName :
        /\ p # q /\ Visible(p, m, w, h) /\ Visible(q, m, w, h)
        /\ RectsOverlap(Panel(p, m, w, h), Panel(q, m, w, h))

--------------------------------------------------------------------------------
(****************************************************************************)
(* The buttons                                                              *)
(****************************************************************************)

\* make_live_control_buttons in control panel c: one button as wide as the
\* panel, two side by side, or rows of three.
LiveButtons(m, c) ==
    CASE m = "StandbySetup" -> {Rect(c.x + 12, c.y + 102, c.w - 24, 30)}
      [] m = "ReviewTactical" ->
            {Rect(c.x + 12 + k * ((c.w - 34) \div 2 + 10), c.y + 102, (c.w - 34) \div 2, 30) :
                k \in 0..1}
      [] m = "LiveTactical" ->
            {Rect(c.x + 12 + (k % 3) * ((c.w - 44) \div 3 + 10), c.y + 102 + 36 * (k \div 3),
                  (c.w - 44) \div 3, 30) : k \in 0..3}

\* Mutant: the rows of the setup start one row further down.
SetupButtonsLower(s) ==
    {Rect(Right(s) - 12 - 32 * k + 4, s.y + 64 + 26 * row, 28, 18) : k \in 1..4, row \in 1..4}

\* make_setup_buttons: four rows of four, counted from the right; the third,
\* the launch angle's, has two.
SetupButtons(s) ==
    {Rect(Right(s) - 12 - 32 * k + 4, s.y + 64 + 26 * row, 28, 18) :
        k \in 1..4, row \in {0, 1, 3}}
    \cup {Rect(Right(s) - 12 - 32 * k + 4, s.y + 64 + 26 * 2, 28, 18) : k \in 1..2}

Buttons(m, w, h) ==
    LiveButtons(m, Panel("control", m, w, h))
    \cup IF m = "StandbySetup" THEN SetupButtons(Panel("setup", m, w, h)) ELSE {}

ButtonOutside(m, w, h) ==
    \E b \in Buttons(m, w, h) :
        ~Inside(b, Panel("control", m, w, h)) /\ ~Inside(b, Panel("setup", m, w, h))

ButtonsOverlap(m, w, h) ==
    \E a, b \in Buttons(m, w, h) : a # b /\ RectsOverlap(a, b)

\* What build_layout throws on.
LayoutRefused(m, w, h) == PanelsOverlap(m, w, h) \/ ButtonOutside(m, w, h) \/ ButtonsOverlap(m, w, h)

--------------------------------------------------------------------------------

LayoutInit ==
    /\ width \in Widths /\ height \in Heights
    /\ mode = "none" /\ everStandby = FALSE /\ running = TRUE

\* A frame in the mode that phase and review call for; the first one may already
\* be of a run another console started.
Frame(m) ==
    /\ running
    /\ mode' = m
    /\ running' = ~LayoutRefused(m, width, height)
    /\ everStandby' = (everStandby \/ (m = "StandbySetup" /\ running'))
    /\ UNCHANGED <<width, height>>

LayoutNext == \E m \in LayoutMode : Frame(m)

LayoutSpec == LayoutInit /\ [][LayoutNext]_layoutVars
--------------------------------------------------------------------------------

\* A window of 598 rows, and every window in which standby could be painted, is
\* large enough for all modes: no change of the phase ends the display.
WindowLargeEnough == everStandby \/ height >= 598 => running

\* Once standby was painted, and if it leaves the map any width, all that is ever
\* painted lies in the window.
PanelsInWindow ==
    mode # "none" /\ everStandby /\ MapW("StandbySetup", width) > 0 =>
        \A p \in PanelName : Visible(p, mode, width, height) =>
            Inside(Panel(p, mode, width, height), Rect(0, 0, width, height))

\* A window that was large enough once is large enough for every mode, and what
\* is painted in it can be seen.
LayoutSound == WindowLargeEnough /\ PanelsInWindow
================================================================================
