------------------------- MODULE MatterProperties --------------------------
(***************************************************************************)
(* The properties of a matter on its page (MatterPropertiesPanel): the list*)
(* of links, the search with its delay, and the click that links a result. *)
(* Nothing is cancelled when the page moves to another matter or the search*)
(* text changes, and a request whose caller gave up may still be served.   *)
(***************************************************************************)
EXTENDS Naturals, FiniteSets

CONSTANTS
    Matter, Property,
    Text,        \* search texts of three characters and more
    matching,    \* the properties of the institution that each of them finds
    Short,       \* a text too short to be searched for, or none
    NoProperty, NoRows,
    MaxCalls,    \* bound: calls under way
    MaxMoves     \* bound: visits of another matter, and changes of status

VARIABLES
    matter,      \* the matter on the page
    panel,       \* the state of the panel
    timer,       \* the text a search waits for, or Short
    calls,       \* its calls under way
    linked,      \* matter_properties
    active,      \* the properties with status 'active'
    reported,    \* the links whose search was closed as done
    moves

vars == <<matter, panel, timer, calls, linked, active, reported, moves>>

Link == [matter: Matter, property: Property]
Result == [property: Property, active: BOOLEAN]

\* after: the property that the click behind a load has linked.
Load   == [kind: {"load"}, matter: Matter, after: Property \cup {NoProperty},
           rows: (SUBSET Link) \cup {NoRows}]
Attach == [kind: {"attach"}, matter: Matter, property: Property, stored: BOOLEAN, awaited: BOOLEAN]
Search == [kind: {"search"}, text: Text]

TypeOK ==
    /\ matter \in Matter
    /\ panel \in [links: SUBSET Link, loading: BOOLEAN, failed: BOOLEAN, attaching: BOOLEAN,
                  text: Text \cup {Short}, results: SUBSET Result, searching: BOOLEAN,
                  pending: Property \cup {NoProperty}]
    /\ timer \in Text \cup {Short}
    /\ calls \subseteq Load \cup Attach \cup Search
    /\ linked \subseteq Link /\ active \subseteq Property /\ reported \subseteq Link
    /\ moves \in 0 .. MaxMoves

LoadOf(m, p) == [kind |-> "load", matter |-> m, after |-> p, rows |-> NoRows]

Init ==
    /\ matter \in Matter
    /\ panel = [links |-> {}, loading |-> TRUE, failed |-> FALSE, attaching |-> FALSE,
                text |-> Short, results |-> {}, searching |-> FALSE, pending |-> NoProperty]
    /\ timer = Short
    /\ calls = {LoadOf(matter, NoProperty)}
    /\ linked = {} /\ active = Property /\ reported = {} /\ moves = 0

Room == Cardinality(calls) < MaxCalls

-----------------------------------------------------------------------------
(* The user.                                                                *)

\* The effect of the search: a change of the text or of the mode clears the
\* timer, and short of three characters the results, but not isSearching.
Searching(attaching, text) ==
    LET p == [panel EXCEPT !.attaching = attaching, !.text = text]
    IN  IF attaching /\ text # Short
        THEN panel' = [p EXCEPT !.searching = TRUE] /\ timer' = text
        ELSE panel' = [p EXCEPT !.results = {}] /\ timer' = Short

Open ==
    /\ ~panel.attaching
    /\ Searching(TRUE, panel.text)
    /\ UNCHANGED <<matter, calls, linked, active, reported, moves>>

Cancel ==
    /\ panel.attaching
    /\ Searching(FALSE, Short)
    /\ UNCHANGED <<matter, calls, linked, active, reported, moves>>

Type(t) ==
    /\ panel.attaching /\ t # panel.text
    /\ Searching(TRUE, t)
    /\ UNCHANGED <<matter, calls, linked, active, reported, moves>>

TimerFires ==
    /\ timer # Short /\ Room
    /\ timer' = Short
    /\ calls' = calls \cup {[kind |-> "search", text |-> timer]}
    /\ UNCHANGED <<matter, panel, linked, active, reported, moves>>

\* The other matter's links stay until the load answers.
Move(m) ==
    /\ m # matter /\ moves < MaxMoves /\ Room
    /\ moves' = moves + 1
    /\ matter' = m /\ panel' = [panel EXCEPT !.loading = TRUE, !.failed = FALSE]
    /\ calls' = calls \cup {LoadOf(m, NoProperty)}
    /\ UNCHANGED <<timer, linked, active, reported>>

Idle == panel.pending = NoProperty

\* A click on an active result, with a request key of its own.
attach(r) ==
    /\ panel.attaching /\ r \in panel.results /\ r.active /\ Idle /\ Room
    /\ panel' = [panel EXCEPT !.pending = r.property]
    /\ calls' = calls \cup {[kind |-> "attach", matter |-> matter, property |-> r.property,
                             stored |-> FALSE, awaited |-> TRUE]}
    /\ UNCHANGED <<matter, timer, linked, active, reported, moves>>

-----------------------------------------------------------------------------
(* The server.                                                              *)

\* link_existing_property_to_matter: a link that is there is the answer too.
Serve(c) ==
    /\ c \in calls /\ c.kind = "attach" /\ ~c.stored /\ c.property \in active
    /\ linked' = linked \cup {[matter |-> c.matter, property |-> c.property]}
    /\ calls' = (calls \ {c}) \cup (IF c.awaited THEN {[c EXCEPT !.stored = TRUE]} ELSE {})
    /\ UNCHANGED <<matter, panel, timer, active, reported, moves>>

ReadLinks(c) ==
    /\ c \in calls /\ c.kind = "load" /\ c.rows = NoRows
    /\ calls' = (calls \ {c}) \cup {[c EXCEPT !.rows = {l \in linked : l.matter = c.matter}]}
    /\ UNCHANGED <<matter, panel, timer, linked, active, reported, moves>>

Deactivate(p) ==
    /\ p \in active /\ moves < MaxMoves /\ moves' = moves + 1
    /\ active' = active \ {p}
    /\ UNCHANGED <<matter, panel, timer, calls, linked, reported>>

-----------------------------------------------------------------------------
(* The answers.                                                             *)

SearchAnswers(c) ==
    /\ c \in calls /\ c.kind = "search" /\ calls' = calls \ {c}
    /\ panel' = [panel EXCEPT !.searching = FALSE,
                              !.results = {[property |-> p, active |-> p \in active] : p \in matching[c.text]}]
    /\ UNCHANGED <<matter, timer, linked, active, reported, moves>>

SearchFails(c) ==
    /\ c \in calls /\ c.kind = "search" /\ calls' = calls \ {c}
    /\ panel' = [panel EXCEPT !.searching = FALSE, !.results = {}]
    /\ UNCHANGED <<matter, timer, linked, active, reported, moves>>

\* The handler goes on with the load of the matter it was clicked on.
AttachAnswers(c) ==
    /\ c \in calls /\ c.kind = "attach" /\ c.awaited /\ c.stored
    /\ calls' = (calls \ {c}) \cup {LoadOf(c.matter, c.property)}
    /\ panel' = [panel EXCEPT !.failed = FALSE]
    /\ UNCHANGED <<matter, timer, linked, active, reported, moves>>

\* Refused, or the reply is lost; the request may still reach the server.
AttachFails(c) ==
    /\ c \in calls /\ c.kind = "attach" /\ c.awaited
    /\ panel' = [panel EXCEPT !.pending = NoProperty]
    /\ \/ calls' = calls \ {c}
       \/ ~c.stored /\ calls' = (calls \ {c}) \cup {[c EXCEPT !.awaited = FALSE]}
    /\ UNCHANGED <<matter, timer, linked, active, reported, moves>>

NeverServed(c) ==
    /\ c \in calls /\ c.kind = "attach" /\ ~c.awaited /\ calls' = calls \ {c}
    /\ UNCHANGED <<matter, panel, timer, linked, active, reported, moves>>

\* load() keeps its error to itself: the click behind it closes as done.
Conclude(c, p) ==
    /\ calls' = calls \ {c}
    /\ IF c.after = NoProperty
       THEN panel' = [p EXCEPT !.loading = FALSE] /\ UNCHANGED <<timer, reported>>
       ELSE /\ panel' = [p EXCEPT !.loading = FALSE, !.attaching = FALSE, !.text = Short,
                                  !.results = {}, !.pending = NoProperty]
            /\ timer' = Short
            /\ reported' = reported \cup {[matter |-> c.matter, property |-> c.after]}
    /\ UNCHANGED <<matter, linked, active, moves>>

LoadAnswers(c) ==
    /\ c \in calls /\ c.kind = "load" /\ c.rows # NoRows
    /\ Conclude(c, [panel EXCEPT !.links = c.rows])

LoadFails(c) ==
    /\ c \in calls /\ c.kind = "load"
    /\ Conclude(c, [panel EXCEPT !.failed = TRUE])

Next ==
    \/ Open \/ Cancel \/ TimerFires
    \/ \E t \in Text \cup {Short} : Type(t)
    \/ \E m \in Matter : Move(m)
    \/ \E r \in Result : attach(r)
    \/ \E p \in Property : Deactivate(p)
    \/ \E c \in calls : \/ Serve(c) \/ ReadLinks(c) \/ SearchAnswers(c) \/ SearchFails(c)
                        \/ AttachAnswers(c) \/ AttachFails(c) \/ NeverServed(c)
                        \/ LoadAnswers(c) \/ LoadFails(c)

Spec == Init /\ [][Next]_vars

-----------------------------------------------------------------------------
(* Properties.                                                              *)

\* The list renders what was read back, and a click that ends without an error
\* has stored its link, though its own read may have failed.
ReportedIsStored == panel.links \cup reported \subseteq linked

\* One click at a time: the results are blocked exactly while an attach or the
\* load behind it is under way, whatever else the page does meanwhile.
PendingIsOneClick ==
    LET chain == {c \in calls : \/ c.kind = "attach" /\ c.awaited
                                \/ c.kind = "load" /\ c.after # NoProperty}
    IN  /\ panel.pending # NoProperty <=> chain # {}
        /\ Cardinality(chain) <= 1
=============================================================================
