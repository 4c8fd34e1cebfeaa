---------------------------- MODULE GitInvocation ----------------------------
(***************************************************************************)
(* Which remote the Git commands of a line reach                           *)
(* (src/extensions/pi-safety/src/permissions/git-network.ts): "implicit"   *)
(* when the repository's own configuration names it, "host" when the line  *)
(* does, "local", or "unsafe" when the arguments were not understood.      *)
(***************************************************************************)
EXTENDS CommandSegments

GitNetworkSubcommands == {"clone", "fetch", "pull", "push", "ls-remote"}
RecognizedSubcommands == GitNetworkSubcommands \cup {"config", "remote", "submodule"}

SafeGlobalOptions   == {"--no-pager", "-p", "--version"}
UnsafeGlobalOptions == {"-C", "--git-dir", "--exec-path"}

(* The remote options of a subcommand [29-86].                             *)
RemoteGrammar(subcommand) ==
  CASE subcommand = "push"  -> [flags |-> {"-f", "--tags"}, values |-> {"--repo", "-o"}, optional |-> {"--force-with-lease"}]
    [] subcommand = "fetch" -> [flags |-> {"--multiple", "--tags"}, values |-> {"--depth", "-j"}, optional |-> {}]
    [] OTHER                -> [flags |-> {"-v"}, values |-> {"--depth", "-b"}, optional |-> {}]

HostOperands   == {"host:r"}
LocalOperands  == {"./r"}
UnsafeOperands == {"ext::r"}

(* A word with neither a colon nor the look of a path names a configured   *)
(* remote [304-319].                                                       *)
RemoteOfOperand(text) ==
  CASE text \in HostOperands   -> "host"
    [] text \in LocalOperands  -> "local"
    [] text \in UnsafeOperands -> "unsafe"
    [] OTHER                   -> "implicit"

-----------------------------------------------------------------------------
(* Git's own options, up to the subcommand [185-254]: "-c KEY=VALUE" is    *)
(* read over, an option that relocates the repository or is not known      *)
(* makes the invocation unproven.                                          *)

IsRecognizedSubcommand(word) == word.text \in RecognizedSubcommands

RECURSIVE ParseGitSubcommand(_, _)
ParseGitSubcommand(args, safe) ==
  LET option == Head(args).text
      found  == Position(args, IsRecognizedSubcommand)
  IN CASE args = <<>> -> [words |-> <<>>, safe |-> safe]
       [] option = "--" -> [words |-> Tail(args), safe |-> safe /\ Len(args) > 1]
       [] ~ Head(args).opt -> [words |-> args, safe |-> safe]
       [] option \in SafeGlobalOptions -> ParseGitSubcommand(Tail(args), safe)
       [] option = "-c" ->
            ParseGitSubcommand(Drop(args, 2), safe /\ Len(args) > 1 /\ args[2].eq # "")
       [] option \in UnsafeGlobalOptions ->
            ParseGitSubcommand(Drop(args, IF Head(args).eq # "" THEN 1 ELSE 2), FALSE)
       [] OTHER -> [words |-> IF found = 0 THEN <<>> ELSE Drop(args, found - 1), safe |-> FALSE]

Invocation(segment) ==
  LET parsed == ParseGitSubcommand(segment.args, TRUE)
  IN [segment    |-> segment,
      subcommand |-> IF parsed.words = <<>> THEN None ELSE Head(parsed.words).text,
      arguments  |-> IF parsed.words = <<>> THEN <<>> ELSE Tail(parsed.words),
      safe       |-> parsed.safe]

IsGit(segment) == segment.executable = "git"
Invocations(segments) ==
  LET gits == SelectSeq(segments, IsGit) IN [k \in DOMAIN gits |-> Invocation(gits[k])]

-----------------------------------------------------------------------------
(* The remotes one invocation names [143-170, 278-521].                    *)

Operands(args) == Texts(SelectSeq(args, IsOperand))

(* "remote update", "show" and "set-head --auto" ask a remote; with no     *)
(* operand they ask every configured one.                                  *)
RemoteActionRemotes(args) ==
  LET operands == Operands(args)
      asks == /\ operands # <<>>
              /\ \/ operands[1] = "update"
                 \/ operands[1] = "show" /\ "-n" \notin ToSet(Texts(args))
                 \/ operands[1] = "set-head" /\ "-a" \in ToSet(Texts(args))
  IN CASE ~ asks -> <<>>
       [] Len(operands) = 1 -> <<"implicit">>
       [] OTHER -> [k \in 1 .. (Len(operands) - 1) |-> RemoteOfOperand(operands[k + 1])]

SubmoduleRemotes(args) ==
  LET IsAction(word) == word.text \in {"add", "update"}
      at    == Position(args, IsAction)
      added == Operands(Drop(args, at))
  IN CASE at = 0 -> <<>>
       [] args[at].text = "update" -> <<"implicit">>
       [] added = <<>> -> <<"unsafe">>
       [] OTHER -> <<RemoteOfOperand(added[1])>>

(* What the operands read so far stand for once the arguments end: --repo  *)
(* wins over an operand, --multiple takes every one of them.               *)
Concluded(subcommand, repo, multiple, operands) ==
  CASE repo # None -> <<RemoteOfOperand(repo)>>
    [] operands # <<>> /\ multiple -> [k \in DOMAIN operands |-> RemoteOfOperand(operands[k])]
    [] operands # <<>> -> <<RemoteOfOperand(operands[1])>>
    [] subcommand \in {"push", "fetch", "pull"} /\ ~ multiple -> <<"implicit">>
    [] OTHER -> <<"unsafe">>

RECURSIVE RemoteArguments(_, _, _, _, _)
RemoteArguments(subcommand, args, repo, multiple, operands) ==
  LET grammar == RemoteGrammar(subcommand)
      word    == Head(args)
      value   == IF word.eq # "" THEN word.eq ELSE args[2].text
  IN CASE args = <<>> -> Concluded(subcommand, repo, multiple, operands)
       [] word.text = "--" ->
            IF repo = None /\ Len(args) = 1 THEN <<"unsafe">>
            ELSE Concluded(subcommand, repo, multiple, Texts(Tail(args)))
       [] ~ word.opt ->
            IF multiple /\ repo = None
            THEN RemoteArguments(subcommand, Tail(args), repo, multiple, Append(operands, word.text))
            ELSE Concluded(subcommand, repo, multiple, <<word.text>>)
       [] word.text \in grammar.optional ->
            RemoteArguments(subcommand, Tail(args), repo, multiple, operands)
       [] word.text \in grammar.flags ->
            IF word.eq # "" THEN <<"unsafe">>
            ELSE RemoteArguments(subcommand, Tail(args), repo,
                                 multiple \/ word.text = "--multiple", operands)
       [] word.text \in grammar.values ->
            IF word.eq = "" /\ Len(args) = 1 THEN <<"unsafe">>
            ELSE RemoteArguments(subcommand, Drop(args, IF word.eq # "" THEN 1 ELSE 2),
                                 IF word.text = "--repo" THEN value ELSE repo, multiple, operands)
       [] OTHER -> <<"unsafe">>

ParsedGitRemotes(invocation) ==
  CASE invocation.subcommand = "remote"    -> RemoteActionRemotes(invocation.arguments)
    [] invocation.subcommand = "submodule" -> SubmoduleRemotes(invocation.arguments)
    [] invocation.subcommand \in GitNetworkSubcommands ->
         RemoteArguments(invocation.subcommand, invocation.arguments, None, FALSE, <<>>)
    [] OTHER -> <<>>

(* The analysis of a whole line [404-417, 533-571]: a Git program that     *)
(* cannot be identified outranks everything, whichever command it is.      *)
AnalyzeGitNetwork(segments) ==
  LET invocations == Invocations(segments)
      remotes == FlattenSeq([k \in DOMAIN invocations |-> ParsedGitRemotes(invocations[k])])
  IN [unsafe   |-> \/ "unsafe" \in ToSet(remotes)
                   \/ \E k \in DOMAIN invocations : ~ invocations[k].segment.trusted,
      unproven |-> \E k \in DOMAIN invocations :
                     invocations[k].segment.untrustedContext \/ ~ invocations[k].safe,
      implicit |-> "implicit" \in ToSet(remotes),
      hosts    |-> "host" \in ToSet(remotes),
      push     |-> /\ Len(segments) = 1
                   /\ remotes = <<"implicit">>
                   /\ invocations[1].subcommand = "push"
                   /\ ~ segments[1].redirect /\ ~ segments[1].live /\ ~ segments[1].nestedShell]
=============================================================================
