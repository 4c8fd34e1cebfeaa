---------------------------- MODULE CommandMeaning ----------------------------
(***************************************************************************)
(* What the verdict on a call promises.  What a line runs is said here a   *)
(* second time, from the meaning of the shell and not from the classifier: *)
(* every command of the tree is reached, whatever encloses it, and a       *)
(* wrapper runs the command behind its own operands.                       *)
(***************************************************************************)
EXTENDS RiskPolicy

(* The words a wrapper takes for itself, in the spellings of the corpus.   *)
OwnWords(words) ==
  LET first  == Head(words).text
      second == IF Len(words) > 1 THEN words[2].text ELSE ""
  IN CASE first = "timeout" -> IF second = "-k" THEN 4 ELSE 2
       [] <<first, second>> \in {<<"sudo", "-u">>, <<"nice", "-n">>, <<"time", "-f">>,
                                 <<"env", "-u">>, <<"sudo", "-D">>} -> 3
       [] first = "env" /\ second \in {"A", "-i"} -> 2
       [] <<first, second>> = <<"command", "-p">> -> 2
       [] OTHER -> 1

Wrapping == {"sudo", "env", "timeout", "nice", "exec", "command", "nohup", "time", "doas"}

(* The words of the program that is executed, and whether a wrapper stood  *)
(* before it; "command -v" only asks where the program is.                 *)
RECURSIVE Executed(_)
Executed(words) ==
  CASE words = <<>> -> <<>>
    [] Head(words).text = "command" /\ Len(words) > 1 /\ words[2].text = "-v" -> <<>>
    [] Head(words).text \in Wrapping -> Executed(Drop(words, OwnWords(words)))
    [] OTHER -> words

(* What of a command is within the code's limits: nothing of a command of  *)
(* too many words, which shell-ast.ts 770 leaves out of the line, and of   *)
(* its substitutions the first ones.                                       *)
Shown(node) ==
  CASE node.type # "command" -> node.kids
    [] Len(node.kids) > MaxSegmentWords -> <<>>
    [] OTHER -> SelectSeq(node.kids, LAMBDA kid : ~ IsSubstitution(kid))
                  \o Capped(SelectSeq(node.kids, IsSubstitution))

(* Every command a piece of shell text runs, as [words, bare]: bare when   *)
(* it stands on the line itself, unwrapped and without a redirection.      *)
RECURSIVE Runs(_, _)
Runs(node, bare) ==
  LET shown == Shown(node)
      words == IF shown = <<>> THEN <<>> ELSE [k \in DOMAIN node.kids |-> node.kids[k].word]
      run   == Executed(words)
      text  == CASE run = <<>> -> <<>>
                 [] Head(run).text = "trap" -> Tail(run)
                 [] Head(run).text = "sh" /\ Len(run) > 2 -> Drop(run, 2)
                 [] OTHER -> <<>>
      inside == bare /\ node.type \notin {"redirected_statement", "command_substitution",
                                          "heredoc_redirect"}
  IN (IF node.type = "command" /\ run # <<>>
      THEN {[words |-> run, bare |-> inside /\ run = words]} ELSE {})
     \cup UNION { Runs(shown[k], inside) : k \in DOMAIN shown }
     \cup UNION { Runs(text[k].code[1], FALSE) : k \in { j \in DOMAIN text : text[j].code # <<>> } }

ForcesRemoval(words) ==
  /\ Head(words).text = "rm"
  /\ \E k \in 2 .. Len(words) :
       /\ words[k].text \in {"-f", "-rf"}
       /\ \A j \in 2 .. k : words[j].text # "--"

(* The one forced removal that needs no review: entries named one by one,  *)
(* inside the directory of the call, of no protected or denied name.       *)
DeletesNamedEntriesOnly(run) ==
  /\ run.bare
  /\ \A k \in 2 .. Len(run.words) :
       run.words[k].text \in {"-f"} \cup (InsideCwd \ (ControlWords \cup DeniedWords))

Removes(line) ==
  \E run \in Runs(line, TRUE) :
    ForcesRemoval(run.words) /\ ~ DeletesNamedEntriesOnly(run)

(* No command of the text has more words than one segment holds.           *)
RECURSIVE WithinWords(_)
WithinWords(node) ==
  /\ node.type = "command" => Len(node.kids) <= MaxSegmentWords
  /\ \A kid \in ToSet(node.kids) :
       WithinWords(kid) /\ \A text \in ToSet(kid.word.code) : WithinWords(text)

(* The lines a line is composed of: the members of its lists, and the text *)
(* it hands to a shell or to its first substitutions.                      *)
Bodies(kids) == UNION { ToSet(kid.kids) : kid \in ToSet(kids) }
ShellTexts(kids) == UNION { ToSet(kid.word.code) : kid \in ToSet(kids) }

Parts(line) ==
  LET top == line.kids[1]
      parts == CASE top.type \in {"list", "pipeline"} -> { Node("program", <<k>>) : k \in ToSet(top.kids) }
                 [] top.type = "command" ->
                      Bodies(Shown(top)) \cup
                      (IF top.kids[1].word.text = "trap" THEN {} ELSE ShellTexts(Shown(top)))
                 [] OTHER -> {}
  IN { part \in parts : WithinWords(part) }

(* What a line comes to on its own, with no rule and a working parser.     *)
Fresh == [memo |-> <<>>, generation |-> 0, throws |-> <<>>]

Severity(line) ==
  LET severity(segments, judged) ==
        CASE AnalyzeGitNetwork(segments).unsafe -> 2
          [] ClassifyCommand(Danger(Fresh, judged).danger, Parser(TRUE, Never), judged) = "NeedsApproval" -> 1
          [] OTHER -> 0
      of(segments) == severity(segments, NormalizeKnownCwd(segments))
  IN of(ParseSegments(Parser(TRUE, Never), line))

(* What the verdict of the call comes to on the same scale; text below the *)
(* nesting bound may hide a refusal, and is reviewed.                      *)
VerdictSeverity ==
  CASE call.action = "allow" -> 0
    [] call.action = "block" -> 2
    [] \E k \in DOMAIN call.segments : call.segments[k].cause = "expansion_bound" -> 2
    [] OTHER -> 1

-----------------------------------------------------------------------------
Allowed == call.at = "settled" /\ call.action = "allow"

ByPolicyAlone == Allowed /\ request.tool = "bash" /\ "allow" \notin request.rules

(* No command line is allowed without a review while it runs a forced      *)
(* removal within the code's limits, behind whatever wrappers, nested      *)
(* shells, traps, substitutions and redirections; nor a line that no       *)
(* parser read, or of which a parse threw.  The one exception is a removal *)
(* on a line with a trap whose text the verdict could not read: that text  *)
(* gates nothing (risk.ts 187-217, 321-415).                               *)
NoVisibleRemovalAllowed ==
  ByPolicyAlone => ~ call.blind /\ (Removes(request.line) => call.deaf)

JudgedByPolicy ==
  /\ call.at = "settled" /\ request.tool = "bash" /\ request.rules = {}
  /\ ~ call.blind /\ ~ call.deaf

(* Composing lines never buys a lighter verdict than the heaviest of them  *)
(* gets alone: a list, a pipeline, the text of a shell or a substitution   *)
(* is reviewed when a part of it is, and refused when a part is, unless    *)
(* text below the nesting bound was left unread.  Not so for what the caps *)
(* leave out, a command of too many words and the substitutions past the   *)
(* first ones, nor for the text of a trap, in which only a removal counts  *)
(* (shell-segment.ts 927-1060, git-network.ts 404-417).                    *)
CompositionNeverLightens ==
  JudgedByPolicy => \A part \in Parts(request.line) : Severity(part) <= VerdictSeverity

(* An allow never overrides what outranks it: no deny or ask rule matches  *)
(* the call, it asks for no root outside, and a path it writes is neither  *)
(* by its spelling nor through its links a protected control or a denied   *)
(* name (risk-policy.ts 328-458).                                          *)
AllowOverridesNothing ==
  Allowed =>
    /\ request.rules \cap {"deny", "ask"} = {}
    /\ request.tool # "external" =>
         \A root \in request.roots : {root.lexical, root.canonical} = {"inside"}
    /\ request.tool = "write" =>
         {request.path.lexical, request.path.canonical} \cap {"control", "denied"} = {}

(* A verdict is about the line as the parser of its time reads it: nothing *)
(* read before the grammar came up, and nothing a broken parse left in the *)
(* memo, is served again (shell-segment.ts 866-890, shell-backend.ts       *)
(* 236-240).                                                               *)
ReadingIsCurrent ==
  request.tool = "bash" /\ call.at # "idle" /\ Installed /\ ~ call.blind =>
    call.segments = NormalizeKnownCwd(ParseSegments(Parser(TRUE, Never), request.line))
=============================================================================
