--------------------------- MODULE CommandSegments ---------------------------
(***************************************************************************)
(* From the facts of a command line to its command segments                *)
(* (src/extensions/pi-safety/src/permissions/shell-segment.ts, with the    *)
(* Git part of git-exec-entries.ts): wrappers are reduced to the program   *)
(* they run, the text of "sh -c" and of live substitutions is expanded     *)
(* into segments of its own, and the first clause for which the words are  *)
(* not the words that run is recorded as the segment's cause.              *)
(***************************************************************************)
EXTENDS ShellSyntax

CONSTANT MaxSubstitutionNesting   \* [925]

None == "none"

Texts(words) == [k \in DOMAIN words |-> words[k].text]
Drop(words, n) == SubSeq(words, n + 1, Len(words))

-----------------------------------------------------------------------------
(* Vocabulary: the spellings the code tells apart.                         *)

ShellExecutables == {"sh", "bash"}
Transparent      == {"exec", "command", "builtin", "nohup", "setsid", "time"}
Delegating       == {"timeout", "nice", "stdbuf", "unbuffer"}
ReservedWords    == {"do", "then", "{", "}", "!"}
Interpreters     == {"python", "node"}

Durations == {"10"}            \* TIMEOUT_DURATION [197]
Numbers   == {"5"}
TimeValueOptions == {"-f", "-o"}

(* Words the shell rewrites before it looks the program up [606-613].      *)
HiddenWords == {"$v", "{rm,echo}", "r?m", "=rm"}

IsAssignment(word) == word.eq # "" /\ ~ word.opt
IsTrusted(word)    == ~ word.local

ExecutableEnv   == {"GIT_EDITOR", "GIT_PAGER"}     \* git-exec-entries.ts [176-185]
ConfigSourceEnv == {"GIT_CONFIG_GLOBAL", "GIT_CONFIG_COUNT"}
FallbackEnv     == {"EDITOR", "PAGER"}
InertValues     == {"cat", "true"}

(* Whether setting the variable changes the program, or what surrounds it  *)
(* [178-193].                                                              *)
ExecutableTrustImpact(name) ==
  CASE name \in {"PATH"} \cup FallbackEnv \cup ExecutableEnv \cup ConfigSourceEnv -> "identity"
    [] name \in {"GIT_TRACE", "GIT_DIR"} -> "context"
    [] OTHER -> None

-----------------------------------------------------------------------------
(* Wrapper reduction [205-533].  A context is the words still to be read   *)
(* and what has been established about the program they name.              *)

Applied(context, name) ==
  CASE ExecutableTrustImpact(name) = "identity" -> [context EXCEPT !.safe = FALSE]
    [] ExecutableTrustImpact(name) = "context"  -> [context EXCEPT !.untrusted = TRUE]
    [] OTHER -> context

Unclassifiable(context) == [context EXCEPT !.unclassifiable = TRUE]
Unreduced(context)      == [context EXCEPT !.unclassifiable = TRUE, !.safe = FALSE]
Skipped(context, n)     == [context EXCEPT !.rest = Drop(@, n)]
Trusting(context)       == [context EXCEPT !.safe = @ /\ IsTrusted(Head(context.rest))]

OptionGrammar(wrapper, strict) ==
  CASE wrapper = "timeout" -> [flags |-> {"--foreground", "-v"}, values |-> {"-k", "-s"}, numeric |-> FALSE]
    [] wrapper = "nice"    -> [flags |-> {"-5"}, values |-> {"-n"}, numeric |-> strict]
    [] wrapper = "stdbuf"  -> [flags |-> {"-o0"}, values |-> {"-o", "-i"}, numeric |-> FALSE]
    [] OTHER               -> [flags |-> {}, values |-> {}, numeric |-> FALSE]

(* The words behind a wrapper's options, in a sequence of one, or <<>>     *)
(* when its grammar does not read them.                                    *)
RECURSIVE BehindOptions(_, _)
BehindOptions(grammar, words) ==
  CASE words = <<>> \/ ~ Head(words).opt   -> <<words>>
    [] Head(words).text \in grammar.flags  -> BehindOptions(grammar, Tail(words))
    [] /\ Head(words).text \in grammar.values
       /\ Len(words) > 1
       /\ grammar.numeric => words[2].text \in Numbers -> BehindOptions(grammar, Drop(words, 2))
    [] OTHER -> <<>>

RECURSIVE BehindTransparent(_, _)
BehindTransparent(context, wrapper) ==
  LET option == Head(context.rest).text IN
  CASE context.rest = <<>> -> Unclassifiable(context)
    [] ~ Head(context.rest).opt -> context
    [] wrapper = "time" /\ option \in TimeValueOptions ->
         IF Len(context.rest) < 2 THEN Unclassifiable(context)
         ELSE BehindTransparent(Skipped(context, 2), wrapper)
    [] OTHER -> BehindTransparent([Skipped(context, 1) EXCEPT !.safe = @ /\ option # "-p"], wrapper)

(* timeout takes a duration of a strict shape, nice a bare adjustment; the *)
(* context is done when the command behind the wrapper was not reached.    *)
BehindDelegating(context, wrapper) ==
  LET behind  == BehindOptions(OptionGrammar(wrapper, TRUE), Tail(context.rest))
      operand == IF wrapper = "timeout" THEN Drop(behind[1], 1) ELSE behind[1]
  IN CASE ~ IsTrusted(Head(context.rest)) \/ behind = <<>> -> [done |-> TRUE, context |-> Unreduced(context)]
       [] \/ wrapper = "timeout" /\ (behind[1] = <<>> \/ behind[1][1].text \notin Durations)
          \/ operand = <<>>
          \/ Head(operand).opt -> [done |-> TRUE, context |-> Unclassifiable(context)]
       [] OTHER -> [done |-> FALSE, context |-> [context EXCEPT !.rest = operand]]

RECURSIVE BehindEnv(_)
BehindEnv(context) ==
  LET word == Head(context.rest) IN
  CASE context.rest = <<>>  -> context
    [] IsAssignment(word)   -> BehindEnv(Applied(Skipped(context, 1), word.text))
    [] word.text = "--"     -> Skipped(context, 1)
    [] word.text = "-u"     ->
         BehindEnv(IF Len(context.rest) = 1 THEN [Skipped(context, 1) EXCEPT !.safe = FALSE]
                   ELSE Applied(Skipped(context, 2), context.rest[2].text))
    [] word.text = "-i"     -> BehindEnv(Unreduced(Skipped(context, 1)))
    [] word.text = "-C"     -> BehindEnv(Unreduced(Skipped(context, 2)))
    [] word.opt             -> Unreduced(context)
    [] OTHER                -> context

RECURSIVE BehindSudo(_)
BehindSudo(context) ==
  LET word == Head(context.rest) IN
  CASE context.rest = <<>> \/ ~ word.opt -> context
    [] word.text \in {"-u", "-g"} ->
         IF Len(context.rest) < 2 THEN Unclassifiable(context) ELSE BehindSudo(Skipped(context, 2))
    [] word.text = "-C" ->
         IF Len(context.rest) < 2 THEN Unreduced(context)
         ELSE BehindSudo([Skipped(context, 2) EXCEPT !.safe = FALSE])
    [] word.text \in {"-n", "-H"} -> BehindSudo(Skipped(context, 1))
    [] OTHER -> Unreduced(context)

RECURSIVE BehindWrappers(_)
BehindWrappers(context) ==
  LET wrapper == IF context.rest = <<>> THEN "" ELSE Head(context.rest).text IN
  CASE wrapper \in Transparent ->
         BehindWrappers(BehindTransparent(Skipped(Trusting(context), 1), wrapper))
    [] wrapper \in Delegating ->
         LET reached == BehindDelegating(context, wrapper)
         IN IF reached.done THEN reached.context ELSE BehindWrappers(reached.context)
    [] wrapper = "env"  -> BehindWrappers(BehindEnv(Skipped(Trusting(context), 1)))
    [] wrapper = "sudo" -> BehindWrappers(BehindSudo(Skipped(Trusting(context), 1)))
    [] wrapper \in {"su", "doas"} -> Unclassifiable(context)
    [] OTHER -> context

RECURSIVE BehindAssignments(_)
BehindAssignments(context) ==
  IF context.rest # <<>> /\ IsAssignment(Head(context.rest))
  THEN BehindAssignments(Applied(Skipped(context, 1), Head(context.rest).text))
  ELSE context

ExecutableContext(words) ==
  BehindWrappers(BehindAssignments(
    [rest |-> words, safe |-> TRUE, untrusted |-> FALSE, unclassifiable |-> FALSE]))

-----------------------------------------------------------------------------
(* Git told to run another program (git-exec-entries.ts [162-378]).        *)

ScalarKeys       == {"user.name"}
GitValueOptions  == {"-C", "--git-dir"}
GitConfigWrites  == {"--add", "--unset", "--stdin"}

NamesProgram(word) ==
  /\ IsAssignment(word)
  /\ \/ word.text \in ConfigSourceEnv
     \/ word.text \in ExecutableEnv \cup FallbackEnv /\ word.eq \notin InertValues

(* Reads Git's own options up to the subcommand: "runs" when one of them   *)
(* names a program, else the words from the subcommand on.                 *)
RECURSIVE GitSubcommand(_)
GitSubcommand(args) ==
  LET option == Head(args).text IN
  CASE args = <<>> -> [runs |-> FALSE, words |-> <<>>]
    [] ~ Head(args).opt -> [runs |-> FALSE, words |-> args]
    [] option = "--exec-path" -> [runs |-> TRUE, words |-> <<>>]
    [] option = "-c" ->
         IF Len(args) < 2 \/ args[2].text \notin ScalarKeys
         THEN [runs |-> TRUE, words |-> <<>>] ELSE GitSubcommand(Drop(args, 2))
    [] option \in GitValueOptions /\ Head(args).eq = "" ->
         IF Len(args) < 2 THEN [runs |-> TRUE, words |-> <<>>] ELSE GitSubcommand(Drop(args, 2))
    [] OTHER -> GitSubcommand(Tail(args))

IsOperand(word) == ~ word.opt

(* A query of one key prints it; a write is judged by the key it sets.     *)
GitConfigRuns(rest) ==
  LET operands == SelectSeq(rest, IsOperand)
      texts    == ToSet(Texts(rest))
      readOnly == texts \cap GitConfigWrites = {} /\ Len(operands) < 2
  IN \/ texts \cap {"--edit", "-e", "--stdin"} # {}
     \/ ~ readOnly /\ operands # <<>> /\ operands[1].text \notin ScalarKeys

GitExecutesNestedProgram(words, args) ==
  LET git == GitSubcommand(args)
      sub == Head(git.words).text
  IN \/ \E k \in DOMAIN words : NamesProgram(words[k])
     \/ git.runs
     \/ /\ git.words # <<>>
        /\ \/ sub = "config" /\ GitConfigRuns(Tail(git.words))
           \/ sub = "filter-branch"
           \/ sub = "bisect" /\ Len(git.words) > 1 /\ git.words[2].text = "run"
           \/ sub = "submodule" /\ "foreach" \in ToSet(Texts(args))

-----------------------------------------------------------------------------
(* The fold of one segment [644-845].                                      *)

Position(words, Is(_)) ==
  IF \E k \in DOMAIN words : Is(words[k])
  THEN CHOOSE k \in DOMAIN words :
         Is(words[k]) /\ \A j \in 1 .. (k - 1) : ~ Is(words[j])
  ELSE 0

IsProgramOption(word) == word.text \in {"-c", "--command"}
InlineProgramOptionIndex(args) == Position(args, IsProgramOption)

HasTerminalInfoFlag(args) ==
  args # <<>> /\ Head(args).text \in {"--version", "--help"}

ScriptOperand(args) == SelectSeq(args, IsOperand)

ReExecutesString(executable, args, nestedShell) ==
  CASE executable \in {"eval", "xargs"} -> TRUE
    [] executable = "trap" -> args # <<>> /\ ~ Head(args).opt
    [] executable = "find" -> "-exec" \in ToSet(Texts(args))
    [] executable \in ShellExecutables ->
         ~ nestedShell /\ ScriptOperand(args) = <<>> /\ ~ HasTerminalInfoFlag(args)
    [] executable \in Interpreters ->
         \/ ToSet(Texts(args)) \cap {"-c", "-e", "-m"} # {}
         \/ ScriptOperand(args) = <<>> /\ ~ HasTerminalInfoFlag(args)
    [] OTHER -> FALSE

RECURSIVE BehindReserved(_)
BehindReserved(words) ==
  IF words # <<>> /\ Head(words).text \in ReservedWords
  THEN BehindReserved(Tail(words)) ELSE words

UnprovenCause(facts, context, token, args, nestedShell) ==
  CASE facts.incomplete \/ token.text = "" -> "lex_incomplete"
    [] context.unclassifiable -> "wrapper_unreduced"
    [] token.text = "git" /\ GitExecutesNestedProgram(facts.words, args) -> "nested_git_program"
    [] token.text \in HiddenWords -> "command_word_unproven"
    [] ReExecutesString(token.text, args, nestedShell) -> "program_reinterpreted"
    [] facts.live -> "substitution_unproven"
    [] facts.heredocRisk -> "heredoc_unproven"
    [] ToSet(Texts(facts.words)) \cap {"{", "}"} # {} -> "lex_incomplete"
    [] OTHER -> None

IsNestedShell(token, args) ==
  token.text \in ShellExecutables /\ InlineProgramOptionIndex(args) # 0

FoldSegment(facts) ==
  LET folded(context, token, args, nestedShell) ==
        [words       |-> facts.words,
         token       |-> token,
         executable  |-> token.text,
         trusted     |-> context.safe /\ IsTrusted(token),
         untrustedContext |-> context.untrusted,
         args        |-> args,
         redirect    |-> facts.redirect,
         live        |-> facts.live,
         nestedShell |-> nestedShell,
         cause       |-> UnprovenCause(facts, context, token, args, nestedShell),
         nestedFrom  |-> None]
      named(context, token, args) == folded(context, token, args, IsNestedShell(token, args))
      read(context) ==
        IF context.rest = <<>> THEN named(context, NoWord, <<>>)
        ELSE named(context, Head(context.rest), Tail(context.rest))
  IN read(ExecutableContext(BehindReserved(facts.words)))

-----------------------------------------------------------------------------
(* Expansion of nested shell text [927-1060].  parser says whether one is  *)
(* installed and the depth at which a parse throws, if any does.           *)

Parser(installed, throwsAt) == [installed |-> installed, throwsAt |-> throwsAt]
Never == 99

UnreadSegment(cause) ==
  [words |-> <<>>, token |-> NoWord, executable |-> "", trusted |-> FALSE,
   untrustedContext |-> TRUE, args |-> <<>>, redirect |-> FALSE, live |-> FALSE,
   nestedShell |-> FALSE, cause |-> cause, nestedFrom |-> None]

(* Text behind a word that is not a line of its own is one command.        *)
LineOf(word) ==
  IF word.code # <<>> THEN word.code[1]
  ELSE Node("program", <<Node("command", <<Leaf("word", word)>>)>>)

(* A "$" or a backtick anywhere in the text, quoted or not [1006-1031].    *)
RECURSIVE SpellsExpansion(_)
SpellsExpansion(node) ==
  \/ node.type \in ExpansionNodes
  \/ \E k \in DOMAIN node.word.code : SpellsExpansion(node.word.code[k])
  \/ \E k \in DOMAIN node.kids : SpellsExpansion(node.kids[k])

(* A nested segment runs in its host's environment [995-1000].             *)
Inherited(host, segment) ==
  [segment EXCEPT !.trusted = @ /\ host.trusted,
                  !.untrustedContext = @ \/ ~ host.trusted \/ host.untrustedContext]

FromBody(host, body, from, segment) ==
  [Inherited(host, segment) EXCEPT
     !.nestedFrom = from,
     !.cause = IF SpellsExpansion(body) /\ @ = None THEN "substitution_unproven" ELSE @]

BodiesBehindShellOption(segment) ==
  LET option == InlineProgramOptionIndex(segment.args) IN
  IF segment.executable \in ShellExecutables /\ option # 0 /\ option + 1 < Len(segment.args)
  THEN <<LineOf(segment.args[option + 2])>> ELSE <<>>

ShellBodies(segment) ==
  LET option == InlineProgramOptionIndex(segment.args) IN
  IF segment.executable \in ShellExecutables /\ option # 0 /\ option < Len(segment.args)
  THEN <<LineOf(segment.args[option + 1])>> ELSE <<>>

(* Substitutions below the bound are left unread, and the host says so.    *)
HostSegment(facts, depth) ==
  [FoldSegment(facts) EXCEPT
     !.cause = IF depth >= MaxSubstitutionNesting /\ facts.bodies # <<>>
               THEN "expansion_bound" ELSE @]

NestedBodies(host, facts, depth) ==
  LET bodies(lines, from) == [k \in DOMAIN lines |-> [line |-> lines[k], from |-> from]]
  IN bodies(ShellBodies(host), "shell_body")
       \o bodies(IF depth < MaxSubstitutionNesting THEN facts.bodies ELSE <<>>, "substitution")

RECURSIVE ParseSegmentsAtDepth(_, _, _)
ParseSegmentsAtDepth(parser, line, depth) ==
  LET expand(host, body) ==
        LET nested == ParseSegmentsAtDepth(parser, body.line, depth + 1)
        IN [n \in DOMAIN nested |-> FromBody(host, body.line, body.from, nested[n])]
      nestedIn(host, bodies) == FlattenSeq([b \in DOMAIN bodies |-> expand(host, bodies[b])])
      segments(facts, hosts) ==
        hosts \o FlattenSeq([k \in DOMAIN facts |->
                              nestedIn(hosts[k], NestedBodies(hosts[k], facts[k], depth))])
      read(facts) == segments(facts, [k \in DOMAIN facts |-> HostSegment(facts[k], depth)])
      parsed(analysis) ==
        IF analysis.ok THEN read(analysis.segments) ELSE <<UnreadSegment("ast_unmodelled")>>
  IN CASE ~ parser.installed      -> <<UnreadSegment("ast_unavailable")>>
       [] parser.throwsAt = depth -> <<UnreadSegment("ast_unmodelled")>>
       [] OTHER                   -> parsed(AnalyzeShellAst(line))

ParseSegments(parser, line) == ParseSegmentsAtDepth(parser, line, 0)
=============================================================================
