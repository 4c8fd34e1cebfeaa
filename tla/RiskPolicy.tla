----------------------------- MODULE RiskPolicy ------------------------------
(***************************************************************************)
(* The static evaluation of one tool call                                  *)
(* (src/extensions/pi-safety/src/risk-policy.ts evaluateRiskRequest) over  *)
(* the parser it reads the line with (src/tree-sitter/shell-backend.ts)    *)
(* and the memo of parsed lines (permissions/shell-segment.ts).            *)
(*                                                                         *)
(* The evaluation waits three times: for the repository's metadata, for    *)
(* the requested write roots and for the paths of the call.  In between,   *)
(* other evaluations of the same process parse their own lines: they fill  *)
(* the memo, and one of their parses may throw and break the parser.       *)
(***************************************************************************)
EXTENDS CommandRisk

CONSTANTS
  Requests,        \* the calls a behaviour may evaluate
  OtherLine,       \* the line another evaluation parses
  MemoCapacity,    \* shell-segment.ts [866]
  MaxGeneration    \* bound of the model on parser transitions

VARIABLES
  request,     \* the call under evaluation; never changes
  bridge,      \* the parser's life: "cold", "loading", "ready", "failed"
  broken,      \* a parse has thrown since
  generation,  \* parserGeneration
  memo,        \* parsed lines, oldest first
  call         \* the evaluation: where it is, what it has read so far

vars == <<request, bridge, broken, generation, memo, call>>

(* The slot of the pure layer holds the parser from its activation on:     *)
(* nothing takes it out again [shell-backend.ts 269-280].                  *)
Installed == bridge = "ready"

-----------------------------------------------------------------------------
(* parseCommandSegments [866-890].  What the parses of one step find and   *)
(* leave: the memo, the generation, and the depths at which the next of    *)
(* them throw, or never do.  A parse that throws makes a new generation    *)
(* (markBroken) and its entry keeps the one read before it; the parser     *)
(* stays in its slot, to throw again or to work.                           *)

Reader(throws) == [memo |-> memo, generation |-> generation, throws |-> throws]

Remembered(reader, line, segments) ==
  LET entry == [line |-> line, generation |-> reader.generation, segments |-> segments]
      old   == { k \in DOMAIN reader.memo : reader.memo[k].line = line }
      kept  == IF old # {} THEN [reader.memo EXCEPT ![CHOOSE k \in old : TRUE] = entry]
               ELSE Append(reader.memo, entry)
  IN IF Len(kept) > MemoCapacity THEN Tail(kept) ELSE kept

(* A parse throws only where the memo has no entry, and at a depth the     *)
(* text has.                                                               *)
Read(reader, line) ==
  LET hits == { k \in DOMAIN reader.memo : /\ reader.memo[k].line = line
                                           /\ reader.memo[k].generation = reader.generation }
      depth == IF reader.throws = <<>> THEN Never ELSE Head(reader.throws)
      read(parsed) ==
        [segments |-> parsed[depth],
         reader   |-> [memo       |-> Remembered(reader, line, parsed[depth]),
                       generation |-> reader.generation + (IF parsed[depth] # parsed[Never] THEN 1 ELSE 0),
                       throws     |-> Drop(reader.throws, 1)]]
  IN IF hits # {} THEN [segments |-> reader.memo[CHOOSE k \in hits : TRUE].segments, reader |-> reader]
     ELSE read([d \in {depth, Never} |-> ParseSegments(Parser(Installed, d), line)])

(* There must be a parser to throw.                                        *)
Quiet(n)  == [k \in 1 .. n |-> Never]
Throws(n) == IF Installed THEN [1 .. n -> {Never, 0, 1}] ELSE {Quiet(n)}

Leaves(reader) ==
  /\ reader.generation <= MaxGeneration
  /\ memo' = reader.memo
  /\ generation' = reader.generation
  /\ broken' = (broken \/ reader.generation > generation)

(* isDangerousSegment [187-203], over the segments in order and up to the  *)
(* first that is dangerous.  The text of a trap is parsed here, by the     *)
(* parser and the memo of this moment; "deaf" is a text not read through,  *)
(* whose segment names no program and so holds no danger.                  *)
Undecided(reader) == [reader |-> reader, danger |-> FALSE, deaf |-> FALSE]

RECURSIVE Judged(_, _, _)
Judged(found, segment, depth) ==
  LET text == TrapText(segment)
      one(acc, nested) == IF acc.danger THEN acc ELSE Judged(acc, nested, depth + 1)
      behind(parsed) ==
        FoldLeft(one, [found EXCEPT !.reader = parsed.reader, !.deaf = @ \/ IsUnread(parsed.segments)],
                 parsed.segments)
  IN CASE depth > MaxWrapperDepth       -> [found EXCEPT !.danger = TRUE]
       [] segment.executable # "trap"   -> [found EXCEPT !.danger = IsDangerousArgv(segment)]
       [] text = <<>>                   -> found
       [] OTHER                         -> behind(Read(found.reader, text[1]))

Danger(reader, segments) ==
  LET one(acc, segment) ==
        IF acc.danger THEN acc
        ELSE [Judged(acc, segment, 0) EXCEPT !.danger = @ /\ ~ RmForceOnlySafeTargets(segment)]
  IN FoldLeft(one, Undecided(reader), segments)

-----------------------------------------------------------------------------
(* Paths [paths.ts 108-153]: where a path lies by its spelling and where   *)
(* it lies once its links are resolved.                                    *)

PathDecision(path, operation) ==
  LET zones == {path.lexical, path.canonical} IN
  CASE operation = "write" /\ "control" \in zones -> "control"
    [] "denied" \in zones -> "denied"
    [] operation = "write" /\ zones # {"inside"} -> "outside"
    [] OTHER -> "allowed"

(* The write roots a call asks for [shell-permissions.ts 115-220]: a path  *)
(* already allowed grants nothing, one outside is a grant, any other is    *)
(* refused.                                                                *)
ResolvedRoots ==
  LET roots == { r \in request.roots : TRUE }
      refused == \E r \in roots :
                   \/ "root" \in {r.lexical, r.canonical}
                   \/ PathDecision(r, "write") \notin {"allowed", "outside"}
  IN IF request.malformed \/ refused THEN [ok |-> FALSE, grants |-> {}]
     ELSE [ok |-> TRUE, grants |-> { r.canonical : r \in { q \in roots : PathDecision(q, "write") = "outside" } }]

-----------------------------------------------------------------------------
(* The verdict [222-240, 379-479].                                         *)

Idle == [at |-> "idle", segments |-> <<>>, blind |-> FALSE, deaf |-> FALSE,
         git |-> None, risk |-> "Skip", grants |-> {}, action |-> None]

Outcome(action) == [call EXCEPT !.at = "settled", !.action = action]

(* writeRisk looks at the spelling only [risk.ts 161-177]; a fetch of a    *)
(* host that is not public is forbidden [146-159].                         *)
Classification(danger, parser) ==
  CASE request.tool = "bash"  -> ClassifyCommand(danger, parser, call.segments)
    [] request.tool = "write" -> IF request.path.lexical = "control" THEN "Forbidden" ELSE "Skip"
    [] request.tool = "webfetch" -> IF request.publicHost THEN "Skip" ELSE "Forbidden"
    [] OTHER -> "Skip"

DecideByRuleFirst(pathReason, rule, risk, grants) ==
  CASE rule = "allow" /\ risk # "Forbidden" -> "allow"
    [] pathReason \notin {"allowed", "outside"} -> "block"
    [] risk = "Skip" /\ grants = {} -> "allow"
    [] OTHER -> "prompt"

(* Deny is checked before allow, an asking rule in between, and no gate    *)
(* firing is a review.                                                     *)
Decide(pathReason, rule, risk, grants) ==
  CASE pathReason \notin {"allowed", "outside"} -> "block"
    [] rule = "ask" -> "prompt"
    [] rule = "allow" /\ risk # "Forbidden" /\ grants = {} -> "allow"
    [] risk = "Skip" /\ grants = {} -> "allow"
    [] OTHER -> "prompt"

-----------------------------------------------------------------------------
Init ==
  /\ request \in Requests
  /\ bridge = "cold"
  /\ broken = FALSE
  /\ generation = 0
  /\ memo = <<>>
  /\ call = Idle

(* Every engine call awaits the one activation, whatever it comes to       *)
(* [register.ts 1192-1196]; a failed one is never tried again.             *)
StartActivation ==
  /\ bridge = "cold"
  /\ bridge' = "loading"
  /\ UNCHANGED <<request, broken, generation, memo, call>>

FinishSilently(outcome) ==
  /\ bridge = "loading"
  /\ bridge' = outcome
  /\ UNCHANGED <<request, broken, generation, memo, call>>

FinishActivation(outcome) ==
  /\ bridge = "loading"
  /\ bridge' = outcome
  /\ generation' = generation + 1
  /\ UNCHANGED <<request, broken, memo, call>>

(* normalizeToolCall and the check of the line's Git commands [275-327],   *)
(* up to the first wait.  They parse the line twice over; the second parse *)
(* is served from the memo unless the first one threw, and then what it    *)
(* reads takes the place of the entry.                                     *)
AfterGitCheck(read, git) ==
  CASE git.unsafe   -> [read EXCEPT !.at = "settled", !.action = "block"]
    [] git.implicit -> [read EXCEPT !.at = "metadata", !.git = IF git.push THEN "push" ELSE "fetch"]
    [] OTHER        -> [read EXCEPT !.at = "roots"]

Begin(throws) ==
  /\ bridge \in {"ready", "failed"}
  /\ call.at = "idle"
  /\ request.tool = "bash"
  /\ \E own \in {Read(Reader(throws), request.line)} :
     \E again \in {Read(own.reader, request.line)} :
       /\ Leaves(again.reader)
       /\ call' = AfterGitCheck(
                    [call EXCEPT !.segments = NormalizeKnownCwd(own.segments),
                                 !.blind = ~ Installed \/ own.reader.generation > generation],
                    AnalyzeGitNetwork(again.segments))
  /\ UNCHANGED <<request, bridge>>

BeginOther ==
  /\ bridge \in {"ready", "failed"}
  /\ call.at = "idle"
  /\ request.tool # "bash"
  /\ call' = [call EXCEPT !.at = "roots"]
  /\ UNCHANGED <<request, bridge, memo, broken, generation>>

(* The repository's metadata and its remotes [300-327].                    *)
InspectRepository(readable) ==
  /\ call.at = "metadata"
  /\ call' = IF readable THEN [call EXCEPT !.at = "roots"] ELSE Outcome("block")
  /\ UNCHANGED <<request, bridge, broken, generation, memo>>

(* The roots, the rules and the host tools [328-378].                      *)
Refused == ~ ResolvedRoots.ok \/ StrongestRule(request.rules) = "deny"

ResolveRoots ==
  /\ call.at = "roots"
  /\ Refused \/ request.tool = "external"
  /\ call' = Outcome(CASE Refused -> "block"
                       [] StrongestRule(request.rules) = "ask" -> "prompt"
                       [] OTHER -> "allow")
  /\ UNCHANGED <<request, bridge, broken, generation, memo>>

(* The classification [379-397], by the parser of this moment: its parses  *)
(* throw or not, whatever the line's own did.                              *)
Classify(throws, rereadThrows) ==
  /\ call.at = "roots"
  /\ ~ Refused /\ request.tool # "external"
  /\ throws = Quiet(2) \/ \E segment \in ToSet(call.segments) : segment.executable = "trap"
  /\ \E judged \in {Danger(Reader(throws), call.segments)} :
       /\ rereadThrows => Installed /\ RereadsWrapper(judged.danger, call.segments)
       /\ Leaves([judged.reader EXCEPT !.generation = @ + (IF rereadThrows THEN 1 ELSE 0)])
       /\ call' = [call EXCEPT !.at = "paths", !.grants = ResolvedRoots.grants,
                               !.deaf = judged.deaf,
                               !.risk = Classification(judged.danger, Parser(Installed, IF rereadThrows THEN 0 ELSE Never))]
  /\ UNCHANGED <<request, bridge>>

CheckPaths ==
  /\ call.at = "paths"
  /\ LET reason == IF request.tool \in {"read", "write"}
                   THEN PathDecision(request.path, request.tool) ELSE "allowed"
     IN call' = Outcome(Decide(reason, StrongestRule(request.rules), call.risk, call.grants))
  /\ UNCHANGED <<request, bridge, broken, generation, memo>>

(* The caller is answered and the same call comes again.                   *)
EvaluateAgain ==
  /\ call.at = "settled"
  /\ generation < MaxGeneration
  /\ call' = Idle
  /\ UNCHANGED <<request, bridge, broken, generation, memo>>

(* A host tool of this line only asks the deny rules, and does not wait    *)
(* for the parser [246-258]: it parses blind while there is none.          *)
DenyRulesOnly(throws) ==
  /\ request.tool = "bash"
  /\ Leaves(Read(Reader(throws), request.line).reader)
  /\ UNCHANGED <<request, bridge, call>>

(* Another evaluation of the process parses its own line.                  *)
OtherEvaluation(throws) ==
  /\ Leaves(Read(Reader(throws), OtherLine).reader)
  /\ UNCHANGED <<request, bridge, call>>

Next ==
  \/ StartActivation
  \/ \E outcome \in {"ready", "failed"} : FinishActivation(outcome)
  \/ \E throws \in Throws(2) : Begin(throws)
  \/ BeginOther
  \/ \E readable \in BOOLEAN : InspectRepository(readable)
  \/ ResolveRoots
  \/ \E throws \in Throws(2), rereadThrows \in BOOLEAN : Classify(throws, rereadThrows)
  \/ CheckPaths
  \/ EvaluateAgain
  \/ \E throws \in Throws(1) : DenyRulesOnly(throws) \/ OtherEvaluation(throws)

Spec == Init /\ [][Next]_vars
=============================================================================
