---------------------------- MODULE CaptureTable ----------------------------
(***************************************************************************)
(* The capture table of the browser page (gui/public/js/capture.js): the   *)
(* log of all events, the filtered view, the virtual scroller that keeps   *)
(* DOM rows only around the viewport, the selection and the detail panel.  *)
(*                                                                         *)
(* One action per handler: JavaScript runs each to its end.  Between two   *)
(* handlers the browser may still owe the page a scroll event, which it    *)
(* delivers later than the scrollTop assignment that caused it.  Heights   *)
(* are in rows (ROW_HEIGHT = 1); indices are those of TLA+ sequences, one  *)
(* more than the code's, so that 0 stands for the code's -1.               *)
(***************************************************************************)
EXTENDS Integers, Sequences, SequencesExt, FiniteSetsExt

CONSTANTS
  MaxEvents,   \* MAX_EVENTS
  TrimCount,   \* floor(MAX_EVENTS * 0.1)
  Height,      \* rows that fit in the container
  Overscan,    \* OVERSCAN
  Kinds,       \* what a filter can tell events apart by
  MaxReceived  \* bound of the model: events between two clears

ASSUME TableAssumption ==
  /\ MaxEvents \in Nat \ {0}
  /\ TrimCount \in 1 .. MaxEvents
  /\ Height \in Nat \ {0}
  /\ Overscan \in Nat
  /\ MaxReceived \in Nat

VARIABLES
  received,          \* events that arrived since the table was cleared
  allEvents,         \* the log
  filteredEvents,    \* the view
  viewIsLog,         \* both names stand for one and the same array
  filterConditions,  \* set of conditions
  selectedIndex,     \* index in the view, 0 when nothing is selected
  detail,            \* event of the detail panel, <<>> when there is none
  rows,              \* the DOM rows: index -> what was drawn there
  renderedRange,     \* _renderedRange
  scrollTop,         \* first visible row, 0-based like the DOM's
  scrollPending,     \* the browser has a scroll event to deliver
  autoScroll

vars == <<received, allEvents, filteredEvents, viewIsLog, filterConditions,
          selectedIndex, detail, rows, renderedRange, scrollTop,
          scrollPending, autoScroll>>
dataVars   == <<received, allEvents, filteredEvents, viewIsLog, filterConditions>>
scrollVars == <<rows, renderedRange, scrollTop, scrollPending>>

Event == [id : 1 .. MaxReceived, kind : Kinds]

\* A condition is the set of kinds it lets pass; all conditions must match.
\* No condition at all is not the same as one that lets everything pass.
Filters == {{}} \cup {{c} : c \in SUBSET Kinds}
Matches(e, conditions) == \A c \in conditions : e.kind \in c

\* The events that match, in their order (a recursive function, which the
\* proofs can reason about).
Passing(events, conditions) ==
  LET upTo[i \in 0 .. Len(events)] ==
        IF i = 0 THEN <<>>
        ELSE IF Matches(events[i], conditions) THEN Append(upTo[i - 1], events[i])
        ELSE upTo[i - 1]
  IN  upTo[Len(events)]

NoRows  == [i \in {} |-> 0]
NoRange == <<-1, -1>>

\* The browser keeps scrollTop between 0 and scrollHeight - clientHeight.
\* (mutant of Clamp: the container's height is forgotten)
ClampNoHeight(top, n) == Max({0, Min({top, n})})
Clamp(top, n) == Max({0, Min({top, n - Height})})
Bottom(n)     == Clamp(n, n)

FirstRow(top)   == Max({1, top - Overscan + 1})
\* (mutant of LastRow: one row short of the viewport)
LastRowShort(top, n) == Min({top + Height - 1, n})
LastRow(top, n) == Min({top + Height + Overscan + 1, n})

\* _renderVisible over the given view: rows already there are kept as they
\* are, and nothing at all is done when the range has not moved.
Render(view, top, sel, drawn, range) ==
  LET new    == <<FirstRow(top), LastRow(top, Len(view))>>
      row(i) == [event |-> view[i], selected |-> i = sel]
  IN  /\ renderedRange' = new
      /\ rows' = IF new = range THEN drawn
                 ELSE [i \in new[1] .. new[2] |->
                         IF i \in DOMAIN drawn THEN drawn[i] ELSE row(i)]

\* An assignment to scrollTop, and the scroll event it makes the browser owe.
ScrollTo(top) == /\ scrollTop' = top
                 /\ scrollPending' = (scrollPending \/ top # scrollTop)

Init ==
  /\ received = 0
  /\ allEvents = <<>> /\ filteredEvents = <<>>
  /\ viewIsLog = FALSE
  /\ filterConditions = {}
  /\ selectedIndex = 0 /\ detail = <<>>
  /\ rows = NoRows /\ renderedRange = NoRange
  /\ scrollTop = 0 /\ scrollPending = FALSE
  /\ autoScroll = TRUE

(***************************************************************************)
(* Adding events.                                                          *)
(***************************************************************************)
Drop(s, n) == SubSeq(s, n + 1, Len(s))

TrimForOne == IF Len(allEvents) >= MaxEvents
              THEN Drop(allEvents, TrimCount) ELSE allEvents
TrimForBatch(n) == Drop(allEvents, Max({0, Len(allEvents) + n - MaxEvents}))

\* What both arrays hold once `trimmed` is in place of the log and the new
\* events have been pushed.  One array under two names gets them twice.
Push(trimmed, new) ==
  LET passing == Passing(new, filterConditions)
  IN  /\ allEvents' = trimmed \o new \o (IF viewIsLog THEN passing ELSE <<>>)
      /\ filteredEvents' = IF viewIsLog THEN allEvents'
                           ELSE filteredEvents \o passing
      /\ IF passing = <<>> THEN UNCHANGED scrollVars
         ELSE LET n   == Len(filteredEvents')
                  top == IF autoScroll THEN Bottom(n) ELSE Clamp(scrollTop, n)
              IN  /\ ScrollTo(top)
                  /\ Render(filteredEvents', top, selectedIndex, rows, renderedRange)
      /\ received' = received + Len(new)
      /\ UNCHANGED <<viewIsLog, filterConditions, selectedIndex, detail, autoScroll>>

NewEvents(n) == {s \in [1 .. n -> Event] : \A i \in 1 .. n : s[i].id = received + i}

AddEvent == /\ received < MaxReceived
            /\ \E new \in NewEvents(1) : Push(TrimForOne, new)

\* addEvents of an empty batch returns at once; MaxBatch bounds the batches.
MaxBatch == 2
AddEvents == \E n \in 1 .. MaxBatch :
               /\ received + n <= MaxReceived
               /\ \E new \in NewEvents(n) : Push(TrimForBatch(n), new)

(***************************************************************************)
(* Clearing and filtering.                                                 *)
(***************************************************************************)
Clear ==
  /\ received' = 0
  /\ allEvents' = <<>> /\ filteredEvents' = <<>> /\ viewIsLog' = FALSE
  /\ selectedIndex' = 0 /\ detail' = <<>>
  /\ rows' = NoRows /\ renderedRange' = NoRange
  /\ ScrollTo(0)
  /\ UNCHANGED <<filterConditions, autoScroll>>

\* (mutants of Apply: the view is filtered again, not the log; the selected
\* index outlives the view it belongs to)
ApplyToView(conditions) ==
  /\ viewIsLog' = (conditions = {})
  /\ filteredEvents' = Passing(filteredEvents, conditions)
  /\ selectedIndex' = 0
ApplyKeepsSelection(conditions) ==
  /\ viewIsLog' = (conditions = {})
  /\ filteredEvents' = Passing(allEvents, conditions)
  /\ selectedIndex' = Min({selectedIndex, Len(filteredEvents')})

\* _refilter.  FilterEngine.apply returns the very array it was given when
\* there is no condition: from then on the view and the log are one array.
Apply(conditions) ==
  /\ viewIsLog' = (conditions = {})
  /\ filteredEvents' = Passing(allEvents, conditions)
  /\ selectedIndex' = 0

\* The detail panel keeps showing the event it showed.
SetFilter(conditions) ==
  /\ filterConditions' = conditions
  /\ Apply(conditions)
  /\ LET top == Clamp(scrollTop, Len(filteredEvents'))
     IN  /\ ScrollTo(top)
         /\ Render(filteredEvents', top, selectedIndex', NoRows, NoRange)
  /\ UNCHANGED <<received, allEvents, detail, autoScroll>>

(***************************************************************************)
(* Selecting and scrolling.                                                *)
(***************************************************************************)
TopShowing(i) == CASE i - 1 < scrollTop      -> i - 1
                   [] i > scrollTop + Height -> i - Height
                   [] OTHER                  -> scrollTop

\* (mutant of Mark: the row selected before keeps its highlight)
MarkOnly(drawn, i) == [k \in DOMAIN drawn |->
                         [drawn[k] EXCEPT !.selected = @ \/ k = i]]

Mark(drawn, i) == [k \in DOMAIN drawn |->
                     [drawn[k] EXCEPT !.selected = k = i \/ (k # selectedIndex /\ @)]]

SelectRow(i) ==
  /\ i \in 1 .. Len(filteredEvents)
  /\ selectedIndex' = i
  /\ LET top == Clamp(TopShowing(i), Len(filteredEvents))
     IN  /\ ScrollTo(top)
         /\ Render(filteredEvents, top, i, Mark(rows, i), renderedRange)
  /\ detail' = filteredEvents[i]
  /\ UNCHANGED <<dataVars, autoScroll>>

MoveSelection(delta) ==
  SelectRow(Max({1, Min({selectedIndex + delta, Len(filteredEvents)})}))

Click == \E i \in DOMAIN rows : SelectRow(i)
KeyDown == \/ \E delta \in {1, -1, Height, -Height} : MoveSelection(delta)
           \/ SelectRow(1)
           \/ SelectRow(Len(filteredEvents))

UserScroll ==
  \E top \in 0 .. Bottom(Len(filteredEvents)) :
    /\ top # scrollTop
    /\ ScrollTo(top)
    /\ UNCHANGED <<dataVars, selectedIndex, detail, rows, renderedRange, autoScroll>>

\* The scroll event: following the end is given up, and taken up again when
\* the viewport turns out to be at the bottom.
OnScroll ==
  /\ scrollPending /\ scrollPending' = FALSE
  /\ Render(filteredEvents, scrollTop, selectedIndex, rows, renderedRange)
  /\ autoScroll' = (scrollTop + Height >= Len(filteredEvents))
  /\ UNCHANGED <<dataVars, selectedIndex, detail, scrollTop>>

\* The toolbar button (app.js).
ToggleAutoScroll ==
  /\ autoScroll' = ~autoScroll
  /\ UNCHANGED <<dataVars, selectedIndex, detail, scrollVars>>

Next == \/ AddEvent \/ AddEvents
        \/ Clear
        \/ \E conditions \in Filters : SetFilter(conditions)
        \/ Click \/ KeyDown
        \/ UserScroll \/ OnScroll
        \/ ToggleAutoScroll

Spec == Init /\ [][Next]_vars

(***************************************************************************)
(* Properties.                                                             *)
(***************************************************************************)
TableTypeOK ==
  /\ received \in 0 .. MaxReceived
  /\ allEvents \in Seq(Event) /\ filteredEvents \in Seq(Event)
  /\ viewIsLog \in BOOLEAN /\ scrollPending \in BOOLEAN /\ autoScroll \in BOOLEAN
  /\ filterConditions \in Filters
  /\ selectedIndex \in Nat
  /\ detail = <<>> \/ detail \in Event
  /\ scrollTop \in Nat
  /\ scrollTop = 0 \/ scrollTop + Height <= Len(filteredEvents)

\* The view lags nothing: the events of the log that pass the filter are the
\* last events of the view, in order.  (Older ones may precede them: trimming
\* the log leaves the view alone.)
ViewComplete ==
  IsSuffix(Passing(allEvents, filterConditions), filteredEvents)

\* While view and log are two arrays, which they are but from the clearing of
\* a filter to the next filter or clear, every DOM row shows the event its
\* index stands for, and only the selected one is highlighted, so that a click
\* selects the event the user clicked on.
RowsTrue ==
  ~viewIsLog =>
    \A i \in DOMAIN rows :
      /\ i <= Len(filteredEvents)
      /\ rows[i] = [event |-> filteredEvents[i], selected |-> i = selectedIndex]

\* Whatever lies in the viewport is drawn, unless the browser still owes the
\* scroll event that will draw it.
VisibleRendered ==
  scrollPending \/ \A i \in 1 .. Len(filteredEvents) :
                     i \in scrollTop + 1 .. scrollTop + Height => i \in DOMAIN rows

\* While view and log are two arrays, the detail panel shows the selected
\* event for as long as there is a selection.
DetailIsSelected ==
  ~viewIsLog /\ selectedIndex # 0 => detail = filteredEvents[selectedIndex]

\* The same two without that condition: the table "only renders visible rows"
\* of its "filtered view" (capture.js:7-8), the selection is an "index in
\* filteredEvents" (capture.js:21), and its event is the one the panel got.
TableShowsView ==
  /\ \A i \in DOMAIN rows : /\ i <= Len(filteredEvents)
                            /\ rows[i].event = filteredEvents[i]
  /\ selectedIndex # 0 => /\ selectedIndex <= Len(filteredEvents)
                          /\ detail = filteredEvents[selectedIndex]

\* Each event is held once, in the order of arrival ("a flat array of ALL
\* capture events", capture.js:6).
EachOnce == \A i, j \in 1 .. Len(allEvents) :
              i < j => allEvents[i].id < allEvents[j].id
=============================================================================
