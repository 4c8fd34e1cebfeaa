----------------------------- MODULE MCCommands ------------------------------
(***************************************************************************)
(* TLC instance of RiskPolicy: a corpus of command lines built from the    *)
(* wrappers, nested shells and compositions the classifier reads, and the  *)
(* other calls under every policy.  What a line runs is said again in      *)
(* CommandMeaning.                                                         *)
(***************************************************************************)
EXTENDS CommandMeaning

-----------------------------------------------------------------------------
(* The vocabulary of the lines.                                            *)

rm == Word("rm")
Removals == { <<rm, Option("-f"), Word("x")>>, <<rm, Option("-rf"), Word("x")>>,
              <<rm, Option("-f"), Word("/out")>>, <<rm, Option("-f"), Word("ctl")>>,
              <<rm, Option("-f"), Word("secret")>> }
Recursive == <<rm, Option("-rf"), Word("x")>>
Harmless == { <<Word("echo"), Word("x")>>, <<rm, Word("x")>>,
              <<rm, Option("--"), Option("-f")>> }

Plain == { <<Word(w)>> : w \in {"sudo", "env", "nice", "exec", "command", "nohup", "time"} }
Wrappers == Plain \cup
  { <<Word("sudo"), Option("-u"), Word("root")>>,
    <<Word("env"), Assignment("A", "1")>>,
    <<Word("env"), Option("-i")>>,
    <<Word("env"), Option("-u"), Word("A")>>,
    <<Word("timeout"), Word("10")>>,
    <<Word("timeout"), Option("-k"), Word("5"), Word("10")>>,
    <<Word("nice"), Option("-n"), Word("5")>>,
    <<Word("command"), Option("-p")>>,
    <<Word("time"), Option("-f"), Word("x")>> }

(* Read by the lenient grammar only, where they stand first.               *)
OddWrappers == { <<Word("timeout"), Word("1e3")>>, <<Word("doas")>>,
                 <<Word("nice"), Option("-n"), Word("x")>>,
                 <<Word("sudo"), Option("-D"), Word("d")>>,
                 <<LocalPath("timeout"), Word("10")>>, <<LocalPath("env")>>, <<LocalPath("nohup")>> }

Gits == { <<Word("git"), Word("push")>>,
          <<Word("git"), Word("status")>>,
          <<Word("git"), Word("push"), Option("--repo"), Word("host:r"), Word("o")>>,
          <<Word("git"), Word("push"), Word("ext::r")>>,
          <<Word("git"), Option("-c"), Assignment("alias.x", "sh"), Word("x")>>,
          <<Word("git"), Word("bisect"), Word("run"), Word("sh")>>,
          <<Word("git"), Option("-C"), Word("d"), Word("fetch")>>,
          <<Word("git"), Word("submodule"), Word("update")>>,
          <<Word("git"), Word("remote"), Word("update")>> }

Others == { <<Word("cd"), Word("d")>>, <<Word("cd"), Word(".")>>, <<Word("$v"), Word("x")>>,
            <<LocalPath("git"), Word("push")>>,
            <<Word("export"), Assignment("GIT_EDITOR", "sh")>>,
            <<Assignment("PATH", "p"), Word("git"), Word("fetch")>>,
            <<Word("command"), Option("-v"), rm, Option("-rf")>> }

Argv(words)    == [k \in DOMAIN words |-> Leaf("word", words[k])]
Simple(words)  == Node("command", Argv(words))
Line(node)     == Node("program", <<node>>)
Substituted(line) ==
  Node("command", <<Leaf("word", Word("echo")),
                    [type |-> "command_substitution", word |-> Word("$v"), kids |-> <<line>>]>>)
Shell(wrapper, line) == Simple(wrapper \o <<Word("sh"), Option("-c"), ShellText(line)>>)
Trap(line)           == Simple(<<Word("trap"), ShellText(line), Word("EXIT")>>)
Loop(node)     == Node("for_statement", <<Leaf("word", Word("x")), Node("do_group", <<node>>)>>)
Subshell(node) == Node("subshell", <<node>>)
Redirected(node) == Node("redirected_statement",
                         <<node, Node("file_redirect", <<Leaf("word", Word("/out"))>>)>>)
Fed(node, inner) == Node("redirected_statement",
                         <<node, [type |-> "heredoc_redirect", word |-> Word("bare"), 
                            kids |-> <<[type |-> "command_substitution", word |-> Word("$v"), kids |-> <<inner>>]>>]>>)

(* Text outside the model: the lost body of a here-document.               *)
Lost(node) == Node("redirected_statement",
                   <<node, Node("heredoc_redirect", <<Leaf("ERROR", Word("x"))>>)>>)

(* One word more than a segment holds, and one substitution more than a    *)
(* statement reports.                                                      *)
Overlong(first) == first \o [k \in 1 .. (MaxSegmentWords + 1 - Len(first)) |-> Word("x")]
Echoing(lines)  ==
  Node("command", <<Leaf("word", Word("echo"))>> \o
         [k \in DOMAIN lines |->
           [type |-> "command_substitution", word |-> Word("$v"), kids |-> <<lines[k]>>]])

Pieces == Removals \cup Harmless \cup Gits \cup Others
Few    == { Recursive, <<rm, Option("-f"), Word("x")>>, <<rm, Word("x")>>,
            <<Word("git"), Word("push"), Word("ext::r")>>, <<Word("$v"), Word("x")>>,
            <<Word("git"), Word("push")>> }

SimpleLines == { Line(Simple(p)) : p \in Pieces }
FewLines    == { Line(Simple(p)) : p \in Few }
RuledLines  == { Line(Simple(p)) : p \in {Recursive, <<rm, Word("x")>>, <<Word("git"), Word("push")>>} }

Nesting(lines) == UNION { {Line(Shell(<<>>, l)), Line(Substituted(l)), Line(Trap(l))} : l \in lines }

Lines ==
  SimpleLines \cup Nesting(FewLines) \cup Nesting(Nesting(RuledLines))
  \cup { Line(Simple(w \o p)) : w \in Wrappers \cup OddWrappers, p \in {Recursive, <<rm, Option("-f"), Word("x")>>,
                                                 <<Word("echo"), Word("x")>>} }
  \cup { Line(Simple(v \o w \o Recursive)) : v \in Wrappers, w \in Plain }
  \cup { Line(Simple(v \o w \o Recursive)) : v \in Plain, w \in Wrappers }
  \cup { Line(Node("list", <<Simple(a), Simple(b)>>)) : a \in Others \cup Gits \cup Few, b \in Few }
  \cup { Line(Node("pipeline", <<Simple(<<Word("echo"), Word("x")>>), Simple(p)>>)) : p \in Few }
  \cup { Line(Shell(<<Word("sudo")>>, l)) : l \in FewLines }
  \cup UNION { { Line(Loop(Simple(p))), Line(Subshell(Simple(p))), Line(Redirected(Simple(p))),
                 Line(Redirected(Subshell(Simple(p)))),
                 Line(Fed(Simple(<<Word("cat")>>), Line(Simple(p)))) } : p \in Few }

Echo == <<Word("echo"), Word("x")>>

(* Lines at the limits, one over them, and lines with text nobody reads.   *)
LimitLines ==
  LET long    == Simple(Overlong(Recursive))
      full    == Simple(Front(Overlong(Recursive)))
      echo    == Line(Simple(Echo))
      removal == Line(Simple(Recursive))
  IN { Line(c) : c \in {long, full, Simple(Overlong(<<Word("git"), Word("push"), Word("ext::r")>>))} }
       \cup { Line(Node("list", <<Simple(a), c>>)) : a \in {Echo, Recursive}, c \in {long, full} }
       \cup { Line(Node("list", <<c, Simple(a)>>)) : a \in {Echo, Recursive}, c \in {long, full} }
       \cup { Line(Shell(<<>>, Line(c))) : c \in {long, full} }
       \cup { Line(Trap(Line(c))) : c \in {long, full} }
       \cup { Line(Echoing(<<echo, removal>>)), Line(Echoing(<<removal, echo, echo>>)),
              Line(Echoing(<<echo, echo, removal>>)) }

LostLines ==
  LET lost == Line(Node("list", <<Simple(Recursive), Lost(Simple(<<Word("cat")>>))>>))
  IN { lost, Line(Shell(<<>>, lost)), Line(Substituted(lost)), Line(Trap(lost)),
       Line(Node("list", <<Trap(Line(Simple(Echo))), Trap(Line(Simple(Recursive)))>>)) }

-----------------------------------------------------------------------------
(* The calls.                                                              *)

AnyRules == SUBSET {"allow", "ask", "deny"}

Path(lexical, canonical) == [lexical |-> lexical, canonical |-> canonical]
Inside == Path("inside", "inside")
Paths  == { Inside, Path("inside", "outside"), Path("outside", "outside"),
            Path("inside", "control"), Path("control", "inside"), Path("inside", "denied") }

Call(tool, line, path, roots, rules) ==
  [tool |-> tool, line |-> line, path |-> path, roots |-> roots, rules |-> rules,
   publicHost |-> TRUE, malformed |-> FALSE]

NoLine == Line(Simple(<<Word("echo"), Word("x")>>))

CommandCalls == { Call("bash", l, Inside, {}, {}) : l \in Lines \cup LimitLines \cup LostLines }
                  \cup { Call("bash", l, Inside, roots, rules) :
                         l \in RuledLines, rules \in AnyRules,
                         roots \in {{}, {Path("outside", "outside")}, {Path("inside", "outside")},
                                   {Path("inside", "control")}} }
PathCalls == { Call(tool, NoLine, p, {}, rules) : tool \in {"read", "write"}, p \in Paths, rules \in AnyRules }
OtherCalls == { [Call(tool, NoLine, Inside, {}, rules) EXCEPT !.publicHost = public, !.malformed = malformed] :
                tool \in {"webfetch", "external"}, rules \in AnyRules,
                public \in BOOLEAN, malformed \in BOOLEAN }

AllCalls == CommandCalls \cup PathCalls \cup OtherCalls
AnotherLine == Line(Node("list", <<Simple(<<Word("echo"), Word("y")>>), Simple(<<Word("ls")>>)>>))
=============================================================================
