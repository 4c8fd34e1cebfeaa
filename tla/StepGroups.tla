------------------------------ MODULE StepGroups ------------------------------
(***************************************************************************)
(* How a transcript falls into step groups                                 *)
(* (src/extensions/pi-tool-render/src/step-group-fold.ts): consecutive     *)
(* thoughts and tool calls form a segment, a text or the end of a turn     *)
(* settles the segments before it, and a settled segment of two steps or   *)
(* more is drawn as one group at the row of its first tool.                *)
(***************************************************************************)
EXTENDS Naturals, Sequences, SequencesExt, FiniteSetsExt

CONSTANT GroupTools   \* the tool calls whose tool may be part of a group

Thinking == [kind |-> "thinking"]
Text     == [kind |-> "text"]
Call(t)  == [kind |-> "tool", tool |-> t]

User       == [kind |-> "user", id |-> <<>>, content |-> <<>>, aborted |-> FALSE]
Settlement == [User EXCEPT !.kind = "settle"]
Assistant(id, content, aborted) ==
  [kind |-> "assistant", id |-> id, content |-> content, aborted |-> aborted]

CallsOf(entry) == { b.tool : b \in { c \in ToSet(entry.content) : c.kind = "tool" } }

(* A step is a tool call, or a run of thinking blocks of one message.      *)
Thought(id, run) == [kind |-> "thought", id |-> <<id, run>>, text |-> 1]
ToolStep(t)      == [kind |-> "tool", id |-> <<t>>]

IsToolStep(step) == step.kind = "tool"

(* The reading of a transcript: the segments so far, whether the last one  *)
(* is still open, and where the reading is in a run of thinking blocks.    *)
NothingRead == [segments |-> <<>>, open |-> FALSE, runs |-> 0, inRun |-> FALSE]

Extended(read, step) ==
  LET n == Len(read.segments) IN
  IF read.open THEN [read EXCEPT !.segments[n].steps = Append(@, step)]
  ELSE [read EXCEPT !.open = TRUE,
                    !.segments = Append(@, [steps |-> <<step>>, settled |-> FALSE])]

SettleTurn(read) ==
  [read EXCEPT !.open = FALSE,
               !.segments = [n \in DOMAIN @ |-> [@[n] EXCEPT !.settled = TRUE]]]

ReadThinking(read, id) ==
  LET n == Len(read.segments) IN
  IF read.inRun
  THEN [read EXCEPT !.segments[n].steps[Len(read.segments[n].steps)].text = @ + 1]
  ELSE [Extended(read, Thought(id, read.runs)) EXCEPT !.runs = @ + 1, !.inRun = TRUE]

ReadBlock(read, block, id, included) ==
  LET next == [read EXCEPT !.inRun = FALSE] IN
  CASE block.kind = "thinking" -> ReadThinking(read, id)
    [] block.kind = "tool" /\ block.tool \in included -> Extended(next, ToolStep(block.tool))
    [] block.kind = "tool" -> [next EXCEPT !.open = FALSE]
    [] block.kind = "text" -> SettleTurn(next)

RECURSIVE ReadBlocks(_, _, _, _)
ReadBlocks(read, blocks, id, included) ==
  IF blocks = <<>> THEN read
  ELSE ReadBlocks(ReadBlock(read, Head(blocks), id, included), Tail(blocks), id, included)

ReadEntry(read, entry, included) ==
  LET body == ReadBlocks([read EXCEPT !.runs = 0, !.inRun = FALSE], entry.content, entry.id, included)
  IN IF entry.kind # "assistant" \/ entry.aborted THEN SettleTurn(body) ELSE body

RECURSIVE ReadEntries(_, _, _)
ReadEntries(read, entries, included) ==
  IF entries = <<>> THEN read
  ELSE ReadEntries(ReadEntry(read, Head(entries), included), Tail(entries), included)

DeriveSegments(entries, included) == ReadEntries(NothingRead, entries, included).segments

-----------------------------------------------------------------------------
(* Where a tool call is placed.                                            *)

ToolsOf(segment) == { s.id[1] : s \in { q \in ToSet(segment.steps) : IsToolStep(q) } }

AnchorIndex(segment) == SelectInSeq(segment.steps, IsToolStep)
Anchor(segment)      == segment.steps[AnchorIndex(segment)].id[1]

IsFolded(segment) == segment.settled /\ Len(segment.steps) >= 2 /\ AnchorIndex(segment) # 0

Placed(segments) == UNION { ToolsOf(s) : s \in ToSet(segments) }

SegmentOf(segments, t) == CHOOSE s \in ToSet(segments) : t \in ToolsOf(s)

StepIndex(segment, t) == CHOOSE k \in DOMAIN segment.steps : segment.steps[k] = ToolStep(t)

LeadingThoughts(segment, t) ==
  IF Anchor(segment) = t THEN SubSeq(segment.steps, 1, AnchorIndex(segment) - 1) ELSE <<>>

ThoughtsToTheEnd(segment, t) ==
  SubSeq(segment.steps, StepIndex(segment, t) + 1, Len(segment.steps))

TrailingThoughts(segment, t) ==
  LET from == StepIndex(segment, t)
      tools == { k \in (from + 1) .. Len(segment.steps) : IsToolStep(segment.steps[k]) }
  IN SubSeq(segment.steps, from + 1, Min(tools \cup {Len(segment.steps) + 1}) - 1)
=============================================================================
