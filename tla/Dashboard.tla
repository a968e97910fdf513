------------------------------- MODULE Dashboard -------------------------------
(***************************************************************************)
(* The HawkEye terminal dashboard (openhawk-ui): a loop that draws the     *)
(* application's state and applies one key at a time.  The lists it shows  *)
(* are public fields that whoever embeds the application fills in, and it  *)
(* shows as much of each as the terminal has room for, from the top.       *)
(***************************************************************************)
EXTENDS Naturals, Sequences, Functions, Filters

CONSTANTS
    Agents,       \* the lists of agents it may be fed: sequences of [pid, name]
    AlertLists,   \* the lists of alerts: sequences of timestamps
    Queries,      \* search queries; a query finds the names in Matches(q)
    Matches(_),
    Heights,      \* how many rows of a list the terminal may have room for
    MaxKeys       \* bound: keys pressed and lists fed

VARIABLES
    agents, alerts,    \* what it has been fed
    selected_agent,    \* 0: None, i + 1: Some(i)
    view,              \* "dashboard", "alerts", "graph" or the pid of a detail view
    search_query,      \* "": none
    status_message,
    loop,              \* "draw", "poll", "quit" or "error"
    raw,               \* the terminal is in raw mode, on the alternate screen
    screen,            \* what the last draw showed
    rolled,            \* history: the agents rolled back, in order
    keys               \* how much of MaxKeys is used up

vars == <<agents, alerts, selected_agent, view, search_query, status_message, loop,
          raw, screen, rolled, keys>>

Blank == [view |-> "none", rows |-> <<>>, bold |-> 0, alerts |-> <<>>, fed |-> FALSE]

HawkEyeApp ==
    /\ agents = <<>> /\ alerts = <<>>
    /\ selected_agent = 0 /\ view = "dashboard" /\ search_query = ""
    /\ status_message = "none"

(* run: raw mode, the alternate screen, HawkEyeApp::new. *)
Init ==
    /\ HawkEyeApp
    /\ loop = "draw" /\ raw = TRUE
    /\ screen = Blank /\ rolled = <<>> /\ keys = 0

--------------------------------------------------------------------------------
filtered_agents ==
    IF search_query = "" THEN agents
    ELSE Only(agents, {a \in Range(agents) : a.name \in Matches(search_query)})

(* Mutant: oldest first. *)
sorted_alerts_Ascending ==
    Sorted(alerts, {p \in Range(alerts) \X Range(alerts) : p[1] <= p[2]})

sorted_alerts == Sorted(alerts, {p \in Range(alerts) \X Range(alerts) : p[1] >= p[2]})

(* A widget that is drawn without a state starts at the top and is cut off at the
   bottom of its area. *)
Least(m, n) == IF m < n THEN m ELSE n
Fitting(list, height) == SubSeq(list, 1, Least(Len(list), height))

(* The selected row is set off, if the filtered list has it and it fits. *)
draw_agent_list(height) ==
    LET fitting == 1 .. Least(Len(filtered_agents), height)
    IN  [pids |-> [i \in fitting |-> filtered_agents[i].pid],
         bold |-> IF selected_agent \in fitting THEN selected_agent ELSE 0]

draw_alerts_summary(height) == Fitting(sorted_alerts, Least(5, height))

(* A detail view looks its agent up again by pid. *)
draw_agent_detail ==
    Only([i \in DOMAIN agents |-> agents[i].pid], {view})

draw_alerts_panel(height) == Fitting(sorted_alerts, height)

Shown(height, below) ==
    CASE view = "dashboard" ->
            [Blank EXCEPT !.view = view, !.rows = draw_agent_list(height).pids,
                          !.bold = draw_agent_list(height).bold,
                          !.alerts = draw_alerts_summary(below)]
      [] view = "alerts" -> [Blank EXCEPT !.view = view, !.alerts = draw_alerts_panel(height)]
      [] view = "graph" -> [Blank EXCEPT !.view = view]
      [] OTHER -> [Blank EXCEPT !.view = "detail", !.rows = draw_agent_detail]

(* The terminal's size is asked for at every draw: it may have changed. *)
draw ==
    /\ loop = "draw"
    /\ \E height, below \in Heights : screen' = Shown(height, below)
    /\ loop' = "poll"
    /\ UNCHANGED <<agents, alerts, selected_agent, view, search_query, status_message,
                   raw, rolled, keys>>

(* A draw, a poll or a read that fails returns through `?`, past the calls that
   would leave raw mode and the alternate screen. *)
TerminalFails ==
    /\ loop \in {"draw", "poll"}
    /\ loop' = "error"
    /\ UNCHANGED <<agents, alerts, selected_agent, view, search_query, status_message,
                   raw, screen, rolled, keys>>

(* A second without a key, a key that stands for no action, another event. *)
Redraw ==
    /\ loop = "poll"
    /\ loop' = "draw"
    /\ UNCHANGED <<agents, alerts, selected_agent, view, search_query, status_message,
                   raw, screen, rolled, keys>>

--------------------------------------------------------------------------------
(* handle_key and apply_action: the loop draws again after each. *)

Key ==
    /\ loop = "poll" /\ keys < MaxKeys
    /\ keys' = keys + 1
    /\ loop' = "draw"
    /\ UNCHANGED <<agents, alerts, search_query, raw, screen>>

SelectNext ==
    /\ Key
    /\ LET len == Len(filtered_agents)
       IN  selected_agent' = IF len = 0 THEN selected_agent
                             ELSE IF selected_agent + 1 < len THEN selected_agent + 1
                             ELSE len
    /\ UNCHANGED <<view, status_message, rolled>>

SelectPrev ==
    /\ Key
    /\ selected_agent' = IF filtered_agents = <<>> THEN selected_agent
                         ELSE IF selected_agent <= 1 THEN 1 ELSE selected_agent - 1
    /\ UNCHANGED <<view, status_message, rolled>>

OpenDetail ==
    /\ Key
    /\ view' = IF selected_agent \in DOMAIN filtered_agents
               THEN filtered_agents[selected_agent].pid ELSE view
    /\ UNCHANGED <<selected_agent, status_message, rolled>>

CloseDetail ==
    /\ Key
    /\ view' = "dashboard"
    /\ UNCHANGED <<selected_agent, status_message, rolled>>

SwitchPanel ==
    /\ Key
    /\ view' = CASE view = "dashboard" -> "alerts" [] view = "alerts" -> "graph"
                 [] OTHER -> "dashboard"
    /\ UNCHANGED <<selected_agent, status_message, rolled>>

StartSearch ==
    /\ Key
    /\ status_message' = "search"
    /\ UNCHANGED <<selected_agent, view, rolled>>

(* It opens the database and calls rollback_latest. *)
try_rollback(pid) ==
    /\ rolled' = Append(rolled, pid)
    /\ status_message' \in {"rolled back", "failed"}

(* Mutant: the index is taken in the whole list. *)
UndoSelected_Unfiltered ==
    /\ Key
    /\ IF selected_agent \in DOMAIN agents
       THEN try_rollback(agents[selected_agent].pid)
       ELSE status_message' = "no agent" /\ UNCHANGED rolled
    /\ UNCHANGED <<selected_agent, view>>

(* In any view. *)
UndoSelected ==
    /\ Key
    /\ IF selected_agent \in DOMAIN filtered_agents
       THEN try_rollback(filtered_agents[selected_agent].pid)
       ELSE status_message' = "no agent" /\ UNCHANGED rolled
    /\ UNCHANGED <<selected_agent, view>>

Quit ==
    /\ loop = "poll"
    /\ loop' = "quit" /\ raw' = FALSE
    /\ UNCHANGED <<agents, alerts, selected_agent, view, search_query, status_message,
                   screen, rolled, keys>>

(* Whoever embeds it fills the fields in; what is on the screen is then old. *)
Feed ==
    /\ keys < MaxKeys /\ loop \in {"draw", "poll"}
    /\ keys' = keys + 1
    /\ \/ agents' \in Agents /\ UNCHANGED <<alerts, search_query>>
       \/ alerts' \in AlertLists /\ UNCHANGED <<agents, search_query>>
       \/ search_query' \in Queries /\ UNCHANGED <<agents, alerts>>
    /\ screen' = [screen EXCEPT !.fed = TRUE]
    /\ UNCHANGED <<selected_agent, view, status_message, loop, raw, rolled>>

Next ==
    \/ draw \/ Redraw \/ TerminalFails \/ SelectNext \/ SelectPrev \/ OpenDetail \/ CloseDetail
    \/ SwitchPanel \/ StartSearch \/ UndoSelected \/ Quit \/ Feed

Spec == Init /\ [][Next]_vars

--------------------------------------------------------------------------------
(* Properties *)

UndoHighlighted ==
    rolled' # rolled /\ screen.view = "dashboard" /\ ~screen.fed =>
        IF screen.bold # 0 THEN rolled' = Append(rolled, screen.rows[screen.bold])
        ELSE \E i \in DOMAIN filtered_agents :
                i > Len(screen.rows) /\ rolled' = Append(rolled, filtered_agents[i].pid)

(* An undo pressed on a dashboard that shows the lists as they are rolls back the
   agent set off on it; when none is set off, one of a row that the terminal had
   no room for, and never another one of those it shows, whatever selections,
   filters and new lists came before (apply_action, filtered_agents,
   draw_agent_list). *)
UndoesHighlighted == [][UndoHighlighted]_vars

(* The summary never hides an alert newer than one it shows. *)
NewestShown ==
    (screen.view = "dashboard" /\ ~screen.fed) =>
        \A i \in DOMAIN alerts :
            \/ alerts[i] \in Range(screen.alerts)
            \/ \A j \in DOMAIN screen.alerts : screen.alerts[j] >= alerts[i]
================================================================================
