----------------------------- MODULE CommandRisk -----------------------------
(***************************************************************************)
(* The static verdict on a shell line                                      *)
(* (src/extensions/pi-safety/src/permissions/: risk.ts,                    *)
(* dangerous-commands.ts, cd-normalize.ts, rules.ts): a forced removal is  *)
(* looked for in every segment, behind every wrapper the code reads, and   *)
(* whatever was not read at all is reviewed; everything else is skipped    *)
(* and left to the sandbox.                                                *)
(***************************************************************************)
EXTENDS GitInvocation

CONSTANTS
  MaxWrapperDepth,   \* dangerous-commands.ts [17], risk.ts [190]
  InsideCwd,         \* operand words that resolve inside the directory
  ControlWords,      \* operand words that resolve to a protected control
  DeniedWords        \* operand words that match a denyWrite pattern

-----------------------------------------------------------------------------
(* A forced removal in a list of words (dangerous-commands.ts).            *)

ForceBundles == {"-f", "-rf", "--force"}

IsEndOfOptions(word) == word.text = "--"

BeforeEndOfOptions(args) ==
  LET end == Position(args, IsEndOfOptions)
  IN IF end = 0 THEN args ELSE SubSeq(args, 1, end - 1)

RmArgsIncludeForce(args) == ToSet(Texts(BeforeEndOfOptions(args))) \cap ForceBundles # {}

(* What env runs: the words behind its assignments and -i [30-49].         *)
RECURSIVE BehindEnvWords(_)
BehindEnvWords(words) ==
  CASE words = <<>> -> <<>>
    [] Head(words).text = "--" -> Tail(words)
    [] IsAssignment(Head(words)) \/ Head(words).text = "-i" -> BehindEnvWords(Tail(words))
    [] OTHER -> words

RECURSIVE IsDangerousWords(_, _)
IsDangerousWords(words, depth) ==
  LET executable == IF words = <<>> THEN "" ELSE Head(words).text IN
  \/ depth > MaxWrapperDepth
  \/ executable = "rm"   /\ RmArgsIncludeForce(Tail(words))
  \/ executable = "sudo" /\ IsDangerousWords(Tail(words), depth + 1)
  \/ executable = "env"  /\ IsDangerousWords(BehindEnvWords(Tail(words)), depth + 1)

(* The words behind exec, command, nohup, setsid and time; "builtin" is    *)
(* not one of them, and "command -v" runs nothing [77-110].                *)
Delegators == Transparent \ {"builtin"}

RECURSIVE BehindDashes(_)
BehindDashes(words) ==
  IF words # <<>> /\ Head(words).opt THEN BehindDashes(Tail(words)) ELSE words

RECURSIVE LandDelegation(_, _)
LandDelegation(words, turns) ==
  LET first == IF words = <<>> THEN "" ELSE Head(words).text
      rest  == Tail(words)
      timed == first = "time" /\ rest # <<>> /\ Head(rest).text \in TimeValueOptions
      behind == BehindDashes(IF timed THEN Drop(rest, 2) ELSE rest)
  IN CASE first \notin Delegators -> words
       [] \/ turns = 0 \/ rest = <<>>
          \/ first = "command" /\ Head(rest).text \in {"-v", "-V"} -> <<>>
       [] OTHER -> LandDelegation(behind, turns - 1)

(* A tail that begins with an option is not reduced, and reviewed          *)
(* [118-125].                                                              *)
PrivilegeTailDanger(words, depth) ==
  LET tail == Tail(words) IN
  /\ tail # <<>>
  /\ IF Head(tail).text = "--" THEN IsDangerousWords(Tail(tail), depth + 1)
     ELSE Head(tail).opt \/ IsDangerousWords(words, depth + 1)

(* The command a wrapper that was not reduced will run, read leniently     *)
(* [136-250].                                                              *)
RECURSIVE VisibleDelegatedDanger(_, _)
VisibleDelegatedDanger(words, depth) ==
  LET landed  == LandDelegation(words, MaxWrapperDepth + 1)
      first   == IF landed = <<>> THEN "" ELSE Head(landed).text
      behind  == BehindOptions(OptionGrammar(first, FALSE), Tail(landed))
      operand == IF first = "timeout" THEN Drop(behind[1], 1) ELSE behind[1]
  IN \/ depth > MaxWrapperDepth
     \/ first = "rm" /\ RmArgsIncludeForce(Tail(landed))
     \/ first \in {"doas", "su"}
     \/ first \in {"sudo", "env"} /\ PrivilegeTailDanger(landed, depth)
     \/ /\ first \in {"timeout", "nice", "stdbuf"}
        /\ behind # <<>>
        /\ operand # <<>>
        /\ ~ Head(operand).opt
        /\ VisibleDelegatedDanger(operand, depth + 1)

-----------------------------------------------------------------------------
(* The verdict on the segments of a line (risk.ts [187-416]).              *)

(* The text a trap runs, in a sequence of one; its danger is looked for in *)
(* RiskPolicy, where its parse belongs.                                    *)
TrapText(segment) ==
  LET action == IF segment.args # <<>> /\ Head(segment.args).text = "--"
                THEN Tail(segment.args) ELSE segment.args
  IN IF action = <<>> \/ Head(action).opt THEN <<>> ELSE <<LineOf(Head(action))>>

IsDangerousArgv(segment) ==
  IsDangerousWords(<<Word(segment.executable)>> \o segment.args, 0)

(* The source of a wrapper that was not reduced is parsed anew, past the   *)
(* memo; where that throws the line is reviewed [209-217].                 *)
UnreducedWrapperHidesDanger(parser, segment) ==
  /\ segment.cause = "wrapper_unreduced"
  /\ ~ parser.installed \/ parser.throwsAt = 0 \/ VisibleDelegatedDanger(segment.words, 0)

RmForceAnywhere(segment) ==
  LET operands == ToSet(SelectSeq(segment.args, IsOperand))
      flags    == { w.text : w \in { v \in ToSet(segment.args) : v.opt } }
  IN /\ segment.executable = "rm"
     /\ flags # {} /\ flags \subseteq {"-f", "--force"}
     /\ \A w \in operands : w.text \in InsideCwd \ (ControlWords \cup DeniedWords)

(* rm -f of named entries, spelled bare on the line itself [239-280].      *)
RmForceOnlySafeTargets(segment) ==
  LET before   == BeforeEndOfOptions(segment.args)
      flags    == { w.text : w \in { v \in ToSet(before) : v.opt } }
      operands == ToSet(SelectSeq(before, IsOperand))
                    \cup ToSet(Drop(segment.args, Len(before) + 1))
  IN /\ segment.executable = "rm"
     /\ segment.words # <<>> /\ Head(segment.words) = Word("rm")
     /\ segment.nestedFrom = None
     /\ ~ segment.redirect
     /\ flags # {} /\ flags \subseteq {"-f", "--force"}
     /\ \A w \in operands : /\ w.code = <<>>
                            /\ w.text \in InsideCwd \ (ControlWords \cup DeniedWords)

EnvPublishing == {"export", "declare"}

PublishesProgram(segment) ==
  /\ segment.executable \in EnvPublishing
  /\ \E k \in DOMAIN segment.args :
       IsAssignment(segment.args[k]) /\ segment.args[k].text \in ExecutableEnv

Unread == {"ast_unavailable", "ast_unmodelled", "expansion_bound"}

IsUnread(segments) == \E k \in DOMAIN segments : segments[k].cause \in Unread

(* Danger that needs no second look at a wrapper [298-370].                *)
ProvenDanger(danger, segments) ==
  \/ segments = <<>>
  \/ danger
  \/ \E s \in ToSet(segments) : s.cause = "nested_git_program" \/ PublishesProgram(s)

RereadsWrapper(danger, segments) ==
  ~ ProvenDanger(danger, segments) /\ \E s \in ToSet(segments) : s.cause = "wrapper_unreduced"

(* danger is what the segments came to one by one; parser is the parser of *)
(* the verdict: the segments may have been parsed by an earlier generation.*)
ClassifyCommand(danger, parser, segments) ==
  LET has(Bad(_)) == \E k \in DOMAIN segments : Bad(segments[k]) IN
  IF \/ ProvenDanger(danger, segments)
     \/ has(LAMBDA s : UnreducedWrapperHidesDanger(parser, s))
     \/ has(LAMBDA s : s.executable \in HiddenWords)
     \/ IsUnread(segments)
  THEN "NeedsApproval" ELSE "Skip"

-----------------------------------------------------------------------------
(* A single leading "cd" is dropped when nothing behind it depends on the  *)
(* directory (cd-normalize.ts [68-133]).                                   *)

DeletionExecutables == {"rm", "rmdir"}
ContextDependent    == {"git", "npm", "make", "eval"}
DirectoryChangers   == {"cd", "pushd", "popd"}
StateSetters        == {"export", "declare"}

NoOpDirectories == {"."}

IsFoldableCd(segment) ==
  /\ segment.token = Word("cd")
  /\ Len(segment.args) = 1
  /\ ~ segment.redirect /\ ~ segment.live /\ segment.cause = None
  /\ ~ segment.args[1].opt /\ segment.args[1].eq = ""
  /\ segment.args[1].text \notin HiddenWords \cup {".."}

IsAdmissibleFollowing(segment) ==
  /\ segment.executable \notin {""} \cup DirectoryChangers \cup StateSetters
                                    \cup DeletionExecutables \cup ContextDependent
  /\ segment.cause = None
  /\ segment.trusted
  /\ ~ segment.redirect /\ ~ segment.live

NormalizeKnownCwd(segments) ==
  LET rest == Tail(segments) IN
  IF \/ Len(segments) < 2
     \/ ~ IsFoldableCd(Head(segments))
     \/ IsFoldableCd(Head(rest))
     \/ /\ Head(segments).args[1].text \notin NoOpDirectories
        /\ \E k \in DOMAIN rest : ~ IsAdmissibleFollowing(rest[k])
  THEN segments ELSE rest

-----------------------------------------------------------------------------
(* The strongest of the rules that match the request (rules.ts [135-152]). *)
StrongestRule(matching) ==
  IF "deny" \in matching THEN "deny"
  ELSE IF "ask" \in matching THEN "ask"
  ELSE IF "allow" \in matching THEN "allow"
  ELSE None
=============================================================================
