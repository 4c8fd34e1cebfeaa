----------------------------- MODULE StepGroupFold -----------------------------
(***************************************************************************)
(* The controller that folds tool rows into step groups                    *)
(* (src/extensions/pi-tool-render/src/step-group-fold.ts), between the     *)
(* events of a session and the rows of the host.                           *)
(*                                                                         *)
(* The host is external.  It mounts a row for every tool call once the     *)
(* extension has heard of it (on a resumed session before), tells the      *)
(* controller of results, and draws a row again some time after its        *)
(* invalidate was called: what a row is changes only when it is drawn,     *)
(* what a group lists is read from the controller at every frame.          *)
(***************************************************************************)
EXTENDS StepGroups

CONSTANTS
  Tools,        \* tool calls, in the order in which they are made
  Name,         \* the tool of each call
  Foreign,      \* tools whose renderer does not draw its own shell
  Sessions      \* what a behaviour may resume: a log, and two bounds of the model,
                \* the events that come yet and how many of them the user may cause

VARIABLES
  session,    \* the host's: [up, log, calls, clicked, expanded], events and steps left
  transcript, \* entries, the message that streams, the next message id
  segments,   \* what the last reconciliation derived; the placements follow
  signatures, \* previousSignaturesByToolId
  records,    \* toolsById: [known, drawn, image] per tool
  results,    \* resultsByToolId: "none", "plain" or "image"
  renderers,  \* [wrapped, unwrapped]: the tools seen with either renderer
  expansion,  \* [group, host, steps]: groupExpanded, lastHostExpanded, expandedSteps
  rows,       \* what each row is: "absent", "base", "single", "group", "empty"
  dirty,      \* rows invalidated since they were drawn
  finished    \* the host's results: [value, unheard]

vars == <<session, transcript, segments, signatures, records, results, renderers,
          expansion, rows, dirty, finished>>

ToolSet == ToSet(Tools)

NoRecord == [known |-> FALSE, drawn |-> FALSE, image |-> FALSE]
Unknown  == "unknown"

-----------------------------------------------------------------------------
(* Reconciliation, over the state x that a handler has reached so far.     *)

State == [entries |-> transcript.entries, streaming |-> transcript.streaming, seq |-> transcript.seq,
          segments |-> segments, signatures |-> signatures, records |-> records,
          results |-> results, expansion |-> expansion, renderers |-> renderers, dirty |-> dirty]

HasImage(x, t) ==
  IF x.results[t] # "none" THEN x.results[t] = "image" ELSE x.records[t].image

CanInclude(x, t) ==
  /\ Name[t] \notin x.renderers.unwrapped
  /\ x.renderers.wrapped # {} /\ Name[t] \notin x.renderers.wrapped => x.records[t].known
  /\ ~ HasImage(x, t)

Listed(x, steps) ==
  [k \in DOMAIN steps |->
    LET open == steps[k].id \in x.expansion.steps IN
    IF open /\ steps[k].kind = "thought" THEN <<steps[k].id, TRUE, steps[k].text>>
    ELSE <<steps[k].id, open>>]

(* A thought that only stands beside a tool counts with its text once it   *)
(* is open.                                                                *)
Signature(x, t) ==
  LET segment == SegmentOf(x.segments, t) IN
  CASE t \notin Placed(x.segments) -> <<"unplaced">>
    [] IsFolded(segment) /\ Anchor(segment) # t -> <<"absorbed", Anchor(segment)>>
    [] IsFolded(segment) -> <<"anchor", t, Listed(x, segment.steps)>>
    [] OTHER -> <<"unsettled", Listed(x, LeadingThoughts(segment, t)),
                               Listed(x, TrailingThoughts(segment, t))>>

ReconciledPlaced(x) ==
  LET derived == [x EXCEPT !.segments =
                    DeriveSegments(x.entries \o x.streaming,
                                   { t \in ToolSet \cap GroupTools : CanInclude(x, t) })]
      next == [t \in ToolSet |->
                IF t \in Placed(derived.segments) THEN Signature(derived, t) ELSE Unknown]
      told == { t \in Placed(derived.segments) :
                  next[t] # x.signatures[t] /\ x.records[t].drawn }
  IN [derived EXCEPT !.signatures = next, !.dirty = @ \cup told]

(* Invalidates every row whose signature has changed; a record without a   *)
(* row has nobody to tell.                                                 *)
Reconciled(x) ==
  LET derived == [x EXCEPT !.segments =
                    DeriveSegments(x.entries \o x.streaming,
                                   { t \in ToolSet \cap GroupTools : CanInclude(x, t) })]
      candidates == { t \in ToolSet : \/ x.signatures[t] # Unknown
                                      \/ t \in Placed(derived.segments)
                                      \/ x.records[t].known }
      next == [t \in ToolSet |-> IF t \in candidates THEN Signature(derived, t) ELSE Unknown]
      told == { t \in candidates : next[t] # x.signatures[t] /\ x.records[t].drawn }
  IN [derived EXCEPT !.signatures = next, !.dirty = @ \cup told]

Becomes(x) ==
  /\ transcript' = [entries |-> x.entries, streaming |-> x.streaming, seq |-> x.seq]
  /\ segments' = x.segments
  /\ signatures' = x.signatures
  /\ records' = x.records
  /\ results' = x.results
  /\ expansion' = x.expansion
  /\ renderers' = x.renderers
  /\ dirty' = x.dirty

-----------------------------------------------------------------------------
(* Drawing a row.                                                          *)

Folded(x, t) == t \in Placed(x.segments) /\ IsFolded(SegmentOf(x.segments, t))
AnchorOf(x, t) == Anchor(SegmentOf(x.segments, t))

Kind(x, t) ==
  CASE ~ Folded(x, t) -> "single"
    [] AnchorOf(x, t) = t -> "group"
    [] OTHER -> "empty"

StepIds(segment) == { s.id : s \in ToSet(segment.steps) }

SyncAgainstFirst(x, anchor, hostExpanded) ==  \* mutant: the value seen first is never replaced
  LET value == IF hostExpanded THEN "open" ELSE "closed"
  IN CASE x.expansion.host[anchor] = "none" ->
            [x.expansion EXCEPT !.host[anchor] = value,
                                !.group[anchor] = IF hostExpanded /\ @ = "none" THEN "open" ELSE @]
       [] x.expansion.host[anchor] = value -> x.expansion
       [] OTHER -> [x.expansion EXCEPT !.group[anchor] = value]

(* The host's own expansion reaches a group when its anchor is drawn; a    *)
(* group it collapses forgets which of its steps were open.                *)
SyncHostExpansion(x, anchor, hostExpanded) ==
  LET value == IF hostExpanded THEN "open" ELSE "closed"
      seen  == [x.expansion EXCEPT !.host[anchor] = value]
  IN CASE x.expansion.host[anchor] = "none" ->
            IF hostExpanded /\ x.expansion.group[anchor] = "none"
            THEN [seen EXCEPT !.group[anchor] = "open"] ELSE seen
       [] x.expansion.host[anchor] = value -> x.expansion
       [] OTHER -> [seen EXCEPT !.group[anchor] = value,
                                !.steps = IF hostExpanded THEN @
                                          ELSE @ \ StepIds(SegmentOf(x.segments, anchor))]

(* Calls recorded for the steps of an open group, though their own rows    *)
(* may not exist yet (renderChildToolLines).                               *)
DrawnChildren(x, anchor) ==
  IF x.expansion.group[anchor] # "open" THEN x
  ELSE [x EXCEPT !.records =
         [t \in ToolSet |->
           IF t \in ToolsOf(SegmentOf(x.segments, anchor)) /\ Name[t] \in x.renderers.wrapped
           THEN [@[t] EXCEPT !.known = TRUE,
                             !.image = IF @ \/ x.records[t].known THEN @ ELSE x.results[t] = "image"]
           ELSE @[t]]]

RenderToolCall(x, t) ==
  LET recorded == [x EXCEPT !.records[t] =
                     [known |-> TRUE, drawn |-> TRUE,
                      image |-> IF @.known THEN @.image ELSE x.results[t] = "image"]]
  IN IF Kind(x, t) = "group"
     THEN DrawnChildren([recorded EXCEPT
            !.expansion = SyncHostExpansion(recorded, t, session.expanded)], t)
     ELSE recorded

(* The anchor of an open group is told of the result of an absorbed call.  *)
AnchorTold(x, t) ==
  IF /\ Folded(x, t)
     /\ x.expansion.group[AnchorOf(x, t)] = "open"
     /\ x.records[AnchorOf(x, t)].drawn
  THEN [x EXCEPT !.dirty = @ \cup {AnchorOf(x, t)}] ELSE x

RenderToolResult(x, t, value) ==
  LET stored == [x EXCEPT !.records[t].image = (value = "image"), !.results[t] = value]
      after  == IF x.records[t].image # (value = "image") THEN Reconciled(stored) ELSE stored
  IN IF Folded(after, t) /\ AnchorOf(after, t) # t THEN AnchorTold(after, t) ELSE after

(* The host draws the call and, when it has one, the result.               *)
Drawn(x, t) ==
  LET called == RenderToolCall([x EXCEPT !.dirty = @ \ {t}], t)
  IN IF finished.value[t] = "none" THEN called
     ELSE RenderToolResult(called, t, finished.value[t])

-----------------------------------------------------------------------------
(* The host's side of a row.                                               *)

(* The session's log holds messages and the results of calls.              *)
Result(t, value) == [kind |-> "result", tool |-> t, value |-> value]

IsMessage(e) == e.kind # "result"

CallsIn(entries) == UNION { CallsOf(e) : e \in ToSet(SelectSeq(entries, IsMessage)) }

InSession == CallsIn(session.log \o transcript.streaming)

Controlled(t) == t \in GroupTools /\ Name[t] \notin Foreign

Resolved(x, t) ==
  CASE t \notin GroupTools -> x
    [] Name[t] \in Foreign -> [x EXCEPT !.renderers.unwrapped = @ \cup {Name[t]},
                                        !.renderers.wrapped = @ \ {Name[t]}]
    [] OTHER -> [x EXCEPT !.renderers.unwrapped = @ \ {Name[t]},
                          !.renderers.wrapped = @ \cup {Name[t]}]

Missing == { k \in DOMAIN Tools : Tools[k] \in InSession /\ rows[Tools[k]] = "absent" }

(* A row is mounted: its renderer is resolved, and it is drawn.            *)
Mount(t) ==
  /\ Missing # {}
  /\ t = Tools[Min(Missing)]
  /\ LET x == Resolved(State, t) IN
       IF Controlled(t)
       THEN Becomes(Drawn(x, t)) /\ rows' = [rows EXCEPT ![t] = Kind(x, t)]
       ELSE Becomes(x) /\ rows' = [rows EXCEPT ![t] = "base"]
  /\ UNCHANGED <<session, finished>>

(* The host draws from the top.                                            *)
Redraw(t) ==
  /\ dirty # {}
  /\ t = Tools[Min({ k \in DOMAIN Tools : Tools[k] \in dirty })]
  /\ IF Controlled(t) /\ rows[t] # "absent"
     THEN Becomes(Drawn(State, t)) /\ rows' = [rows EXCEPT ![t] = Kind(State, t)]
     ELSE Becomes([State EXCEPT !.dirty = @ \ {t}]) /\ UNCHANGED rows
  /\ UNCHANGED <<session, finished>>

(* The host mounts and draws what it was told of before it goes on.        *)
CaughtUp == Missing = {} /\ dirty = {}

MayAct == session.events > 0 /\ session.steps > 0
Acted == [session EXCEPT !.events = @ - 1, !.steps = @ - 1]

-----------------------------------------------------------------------------
(* The events of a run.  The host sends them in order: one message streams *)
(* at a time, and ends before the next one starts.                         *)

Streams == transcript.streaming # <<>>

Handle(entries, streaming) ==
  Becomes(Reconciled([State EXCEPT !.entries = entries, !.streaming = streaming]))

Receiving == session.up /\ CaughtUp /\ session.events > 0

HandleUserMessage ==
  /\ Receiving
  /\ ~ Streams
  /\ Handle(Append(transcript.entries, User), <<>>)
  /\ session' = [session EXCEPT !.log = Append(@, User), !.events = @ - 1]
  /\ UNCHANGED <<rows, finished>>

HandleMessageStart ==
  /\ Receiving
  /\ ~ Streams
  /\ Becomes(Reconciled([State EXCEPT
       !.streaming = <<Assistant(<<"live", transcript.seq>>, <<>>, FALSE)>>,
       !.seq = @ + 1]))
  /\ session' = [session EXCEPT !.events = @ - 1]
  /\ UNCHANGED <<rows, finished>>

NextBlocks == {Thinking, Text} \cup (IF session.calls < Len(Tools) THEN {Call(Tools[session.calls + 1])} ELSE {})

HandleMessageUpdate(block) ==
  /\ Receiving
  /\ Streams
  /\ Handle(transcript.entries, [transcript.streaming EXCEPT ![1].content = Append(@, block)])
  /\ session' = [session EXCEPT !.events = @ - 1, !.calls = @ + (IF block.kind = "tool" THEN 1 ELSE 0)]
  /\ UNCHANGED <<rows, finished>>

HandleMessageEnd(aborted) ==
  /\ session.up /\ CaughtUp
  /\ Streams
  /\ LET message == [transcript.streaming[1] EXCEPT !.aborted = aborted] IN
       /\ Handle(Append(transcript.entries, message), <<>>)
       /\ session' = [session EXCEPT !.log = Append(@, message)]
  /\ UNCHANGED <<rows, finished>>

Settled(entries) ==
  IF entries = <<>> \/ Last(entries).kind = "settle" THEN entries ELSE Append(entries, Settlement)

HandleAgentEnd ==
  /\ session.up /\ CaughtUp
  /\ Handle(Settled(transcript.entries \o transcript.streaming), <<>>)
  /\ session' = [session EXCEPT !.log = @ \o transcript.streaming]
  /\ UNCHANGED <<rows, finished>>

(* A call gets its result, maybe an image; the extension and the row hear  *)
(* of it in either order.  The results of rows that are not the            *)
(* controller's change nothing here.                                       *)
ToolResult(t, value) ==
  /\ session.up /\ CaughtUp
  /\ ~ Streams
  /\ Controlled(t) /\ t \in CallsIn(session.log)
  /\ finished.value[t] = "none"
  /\ finished' = [value |-> [finished.value EXCEPT ![t] = value], unheard |-> finished.unheard \cup {t}]
  /\ session' = [session EXCEPT !.log = Append(@, Result(t, value))]
  /\ dirty' = dirty \cup {t}
  /\ UNCHANGED <<transcript, segments, signatures, records, results, renderers, expansion, rows>>

RecordToolResult(t) ==
  /\ t \in finished.unheard /\ (dirty = {} \/ t \in dirty)
  /\ LET value  == finished.value[t]
         stored == [State EXCEPT !.results[t] = value,
                                 !.records[t].image = IF records[t].known THEN value = "image" ELSE @]
     IN Becomes(IF (results[t] = "image") # (value = "image") THEN Reconciled(stored)
                ELSE AnchorTold(stored, t))
  /\ finished' = [finished EXCEPT !.unheard = @ \ {t}]
  /\ UNCHANGED <<session, rows>>

-----------------------------------------------------------------------------
(* Sessions and branches.                                                  *)

NoExpansion == [group |-> [t \in ToolSet |-> "none"], host |-> [t \in ToolSet |-> "none"], steps |-> {}]

ResultsIn(log, t) == { k \in DOMAIN log : log[k].kind = "result" /\ log[k].tool = t }

ResultIn(log) ==
  [t \in ToolSet |-> IF ResultsIn(log, t) = {} THEN "none" ELSE log[Max(ResultsIn(log, t))].value]

BranchEntries(log) ==
  SelectSeq([k \in DOMAIN log |->
              IF log[k].kind = "assistant" THEN [log[k] EXCEPT !.id = <<"entry", k>>] ELSE log[k]],
            IsMessage)

(* A record whose call is not in the branch is dropped after the rows have *)
(* been told; one whose result is not there keeps the result it had.       *)
ResetFromBranch(x, log) ==
  LET found == ResultIn(log)
      active == CallsIn(log) \cup { t \in ToolSet : found[t] # "none" }
      reset == Reconciled([x EXCEPT
        !.entries = Settled(BranchEntries(log)), !.streaming = <<>>,
        !.results = found, !.expansion = NoExpansion,
        !.records = [t \in ToolSet |-> IF @[t].known /\ found[t] # "none"
                                       THEN [@[t] EXCEPT !.image = (found[t] = "image")] ELSE @[t]]])
      dropped == { t \in ToolSet : reset.records[t].known /\ t \notin active }
  IN [reset EXCEPT
       !.records = [t \in ToolSet |-> IF t \in active THEN @[t] ELSE NoRecord],
       !.signatures = [t \in ToolSet |-> IF log = <<>> \/ t \in dropped THEN Unknown ELSE @[t]]]

(* A resumed session's rows are mounted before session_start runs.         *)
HandleSessionStart ==
  /\ ~ session.up
  /\ CaughtUp
  /\ Becomes(ResetFromBranch(State, session.log))
  /\ session' = [session EXCEPT !.up = TRUE]
  /\ UNCHANGED <<rows, finished>>

(* The user goes back to an earlier entry: the rows are mounted anew.      *)
HandleSessionTree(n) ==
  /\ session.up /\ CaughtUp /\ ~ Streams
  /\ MayAct
  /\ finished.unheard = {}
  /\ LET log == SubSeq(session.log, 1, n) IN
       /\ Becomes([ResetFromBranch(State, log) EXCEPT !.dirty = {}])
       /\ session' = [Acted EXCEPT !.log = log, !.clicked = FALSE]
       /\ finished' = [value |-> ResultIn(log), unheard |-> {}]
  /\ rows' = [t \in ToolSet |-> "absent"]

HandleSessionShutdown ==
  /\ session.up /\ CaughtUp /\ ~ Streams
  /\ MayAct
  /\ Becomes([State EXCEPT !.entries = <<>>, !.streaming = <<>>, !.seq = 1,
                           !.segments = <<>>,
                           !.signatures = [t \in ToolSet |-> Unknown],
                           !.records = [t \in ToolSet |-> NoRecord],
                           !.results = [t \in ToolSet |-> "none"],
                           !.expansion = NoExpansion, !.dirty = {}])
  /\ session' = [Acted EXCEPT !.up = FALSE, !.clicked = FALSE]
  /\ finished' = [finished EXCEPT !.unheard = {}]
  /\ rows' = [t \in ToolSet |-> "absent"]

-----------------------------------------------------------------------------
(* The user.                                                               *)

ToggleHostExpansion ==
  /\ CaughtUp
  /\ MayAct
  /\ session' = [Acted EXCEPT !.expanded = ~ @, !.clicked = FALSE]
  /\ dirty' = dirty \cup { t \in ToolSet : rows[t] \in {"single", "group", "empty"} }
  /\ UNCHANGED <<transcript, segments, signatures, records, results, renderers, expansion, rows, finished>>

Toggled(steps, id) == IF id \in steps THEN steps \ {id} ELSE steps \cup {id}

Clicked(x, t) ==
  /\ CaughtUp
  /\ MayAct
  /\ Becomes([x EXCEPT !.dirty = @ \cup (IF records[t].drawn THEN {t} ELSE {})])
  /\ session' = [Acted EXCEPT !.clicked = TRUE]
  /\ UNCHANGED <<rows, finished>>

ClickHeader(t) ==
  /\ rows[t] = "group"
  /\ LET open == expansion.group[t] # "open" IN
       Clicked([State EXCEPT
                 !.expansion.group[t] = IF open THEN "open" ELSE "closed",
                 !.expansion.steps = IF open \/ t \notin Placed(segments) THEN @
                                     ELSE @ \ StepIds(SegmentOf(segments, t))], t)

(* The lines of a row are those of its last frame.                         *)
ClickableSteps(t) ==
  CASE t \notin Placed(segments) -> {}
    [] rows[t] = "group" /\ expansion.group[t] = "open" -> StepIds(SegmentOf(segments, t))
    [] rows[t] = "single" /\ ~ Folded(State, t) ->
         { s.id : s \in ToSet(LeadingThoughts(SegmentOf(segments, t), t)
                                \o TrailingThoughts(SegmentOf(segments, t), t)) }
    [] OTHER -> {}

ClickStep(t) ==
  \E id \in ClickableSteps(t) :
    Clicked([State EXCEPT !.expansion.steps = Toggled(@, id)], t)

-----------------------------------------------------------------------------
Init ==
  /\ \E s \in Sessions :
       /\ session = [up |-> FALSE, log |-> s.log, calls |-> Cardinality(CallsIn(s.log)),
                     events |-> s.events, steps |-> s.steps, clicked |-> FALSE, expanded |-> FALSE]
       /\ finished = [value |-> ResultIn(s.log), unheard |-> {}]
  /\ transcript = [entries |-> <<>>, streaming |-> <<>>, seq |-> 1]
  /\ segments = <<>>
  /\ signatures = [t \in ToolSet |-> Unknown]
  /\ records = [t \in ToolSet |-> NoRecord]
  /\ results = [t \in ToolSet |-> "none"]
  /\ renderers = [wrapped |-> {}, unwrapped |-> {}]
  /\ expansion = NoExpansion
  /\ rows = [t \in ToolSet |-> "absent"]
  /\ dirty = {}

Next ==
  \/ \E t \in ToolSet : Mount(t) \/ Redraw(t)
  \/ HandleUserMessage \/ HandleMessageStart
  \/ \E block \in NextBlocks : HandleMessageUpdate(block)
  \/ \E aborted \in BOOLEAN : HandleMessageEnd(aborted)
  \/ HandleAgentEnd
  \/ \E t \in ToolSet, value \in {"plain", "image"} : ToolResult(t, value)
  \/ \E t \in ToolSet : RecordToolResult(t)
  \/ HandleSessionStart \/ HandleSessionShutdown
  \/ \E n \in 0 .. Len(session.log) : HandleSessionTree(n)
  \/ ToggleHostExpansion
  \/ \E t \in ToolSet : ClickHeader(t) \/ ClickStep(t)

Spec == Init /\ [][Next]_vars

-----------------------------------------------------------------------------
(* Once the rows that were invalidated are drawn, every row is what its    *)
(* place in the transcript says: whatever regroups the rows (a text, a     *)
(* user message, an abort, an image, a resumed or rewound session) has     *)
(* told every row that changes by it (step-group-fold.ts 897-954).         *)
RowsAreFresh ==
  dirty = {} =>
    \A t \in ToolSet : rows[t] \in {"single", "group", "empty"} => rows[t] = Kind(State, t)

(* Folding hides nothing: while nothing streams or is on its way, a row    *)
(* drawn empty is listed by a group that is on the screen, and every       *)
(* thought of a segment with a tool is shown at one row exactly, although  *)
(* the host's own thinking lines are off (step-group-fold.ts 281-323).     *)
NothingVanishes ==
  session.up /\ CaughtUp /\ ~ Streams /\ finished.unheard = {} =>
    /\ \A t \in InSession : rows[t] = "empty" => rows[AnchorOf(State, t)] = "group"
    /\ \A k \in DOMAIN segments :
         LET segment == segments[k]
             shown(id) == { t \in ToolsOf(segment) :
               /\ rows[t] = "single"
               /\ \E s \in ToSet(LeadingThoughts(segment, t) \o TrailingThoughts(segment, t)) : s.id = id }
         IN ToolsOf(segment) # {} /\ ~ IsFolded(segment) =>
              \A s \in ToSet(segment.steps) : s.kind = "thought" => Cardinality(shown(s.id)) = 1

(* The host's expansion reaches every group whenever it changes, opened or *)
(* closed, one formed or remounted since included, and whatever was        *)
(* clicked before; only a click after it may say otherwise                 *)
(* (step-group-fold.ts 705-727).                                           *)
GroupsFollowTheHost ==
  dirty = {} /\ ~ session.clicked =>
    \A t \in ToolSet : rows[t] = "group" => (expansion.group[t] = "open") = session.expanded
=============================================================================
