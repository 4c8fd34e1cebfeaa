----------------------------- MODULE ShellSyntax -----------------------------
(***************************************************************************)
(* The tree-sitter front end of the command classifier                     *)
(* (src/extensions/pi-safety/src/permissions/shell-ast.ts): from the       *)
(* grammar's tree of a command line to one record of facts per command the *)
(* line runs.                                                              *)
(*                                                                         *)
(* A line of shell text is its tree; the grammar itself is external.  A    *)
(* word is what is left of its quotes and escapes: its text, the part      *)
(* after an "=", whether it begins with a dash, whether it spells a        *)
(* program through a path other than /bin and /usr/bin, and, when the word *)
(* is itself shell text (the operand of "sh -c" or of "trap"), the line it *)
(* spells.  Source offsets are left out, and with them the queue of        *)
(* here-document bodies [475-570] and the comments.                        *)
(***************************************************************************)
EXTENDS Naturals, Sequences, SequencesExt

CONSTANTS
  MaxSegmentWords,        \* words of one segment [271]
  MaxSubstitutionBodies   \* bodies one statement reports [219]

NoWord == [text |-> "", eq |-> "", opt |-> FALSE, local |-> FALSE, code |-> <<>>]

Word(text)       == [NoWord EXCEPT !.text = text]
LocalPath(text)  == [NoWord EXCEPT !.text = text, !.local = TRUE]
Option(text)     == [NoWord EXCEPT !.text = text, !.opt = TRUE]
Assignment(n, v) == [NoWord EXCEPT !.text = n, !.eq = v]
ShellText(line)  == [NoWord EXCEPT !.text = "(text)", !.code = <<line>>]

Node(type, kids)  == [type |-> type, word |-> NoWord, kids |-> kids]
Leaf(type, word)  == [type |-> type, word |-> word, kids |-> <<>>]

-----------------------------------------------------------------------------
(* What a node type stands for [102-208].                                  *)

StatementNodes == {"command", "variable_assignment", "redirected_statement",
                   "declaration_command", "test_command"}

CompositionNodes == {"program", "list", "pipeline", "subshell",
                     "compound_statement", "negated_command",
                     "for_statement", "do_group", "if_statement",
                     "function_definition"}

ExecutableStructureNodes == {"command"} \cup (CompositionNodes \ {"program", "do_group"})

RedirectNodes == {"file_redirect", "heredoc_redirect"}

ExpansionNodes == {"simple_expansion", "expansion", "command_substitution",
                   "process_substitution", "arithmetic_expansion"}

ArgvNodes == {"command_name", "variable_assignment", "word", "string",
              "raw_string", "concatenation"} \cup ExpansionNodes

IsCommandForm(node)  == node.type \in StatementNodes \ {"redirected_statement"}
IsComposition(node)  == node.type \in CompositionNodes
IsRedirect(node)     == node.type \in RedirectNodes
IsError(node)        == node.type = "ERROR"
IsSubstitution(node) == node.type \in {"command_substitution", "process_substitution"}

(* A redirect in which the grammar nested a command: code that the walk    *)
(* over the words would never visit [153-170].                             *)
RECURSIVE HidesExecutable(_)
HidesExecutable(redirect) ==
  \E k \in DOMAIN redirect.kids :
    LET kid == redirect.kids[k] IN
      /\ kid.type \notin ExpansionNodes
      /\ kid.type \in ExecutableStructureNodes \/ HidesExecutable(kid)

RECURSIVE HasError(_)
HasError(node) == IsError(node) \/ \E k \in DOMAIN node.kids : HasError(node.kids[k])

(* Every child of a command is a word, a redirect or an error [573-581].   *)
HasModelledArgv(node) ==
  \A k \in DOMAIN node.kids :
    node.kids[k].type \in ArgvNodes \cup RedirectNodes \cup {"ERROR"}

Kids(node, Keep(_)) == SelectSeq(node.kids, Keep)
NotRedirect(node)   == ~ IsRedirect(node)

-----------------------------------------------------------------------------
(* The statements of a line [369-448, 593-617].  Composition is descended, *)
(* its other children (loop variables, test operands, case words) are      *)
(* skipped; whatever is outside the model makes the whole line abstain.    *)

NoStatements == [ok |-> TRUE, statements |-> <<>>, errors |-> <<>>]
Abstention   == [ok |-> FALSE, statements |-> <<>>, errors |-> <<>>]

Statement(commands, redirects) == [command |-> commands, redirects |-> redirects]

Joined(a, b) ==
  IF ~ a.ok \/ ~ b.ok THEN Abstention
  ELSE [ok |-> TRUE, statements |-> a.statements \o b.statements,
        errors |-> a.errors \o b.errors]

SimpleStatement(node) ==
  LET redirects == Kids(node, IsRedirect) IN
  IF ~ HasModelledArgv(node) \/ \E r \in ToSet(redirects) : HidesExecutable(r)
  THEN Abstention
  ELSE [NoStatements EXCEPT !.statements = <<Statement(<<node>>, redirects)>>]

RedirectedStatement(node) ==
  LET redirects == Kids(node, IsRedirect)
      inner     == Kids(node, NotRedirect)
  IN IF \/ \E r \in ToSet(redirects) : HidesExecutable(r)
        \/ Len(inner) > 1
        \/ \E c \in ToSet(inner) : ~ IsCommandForm(c) \/ ~ HasModelledArgv(c)
     THEN Abstention
     ELSE [NoStatements EXCEPT !.statements = <<Statement(inner, redirects)>>]

(* A redirect behind a composition feeds its last command [403-430].       *)
AttachedToLast(collected, redirects) ==
  LET n == Len(collected.statements) IN
  IF ~ collected.ok \/ n = 0 \/ \E r \in ToSet(redirects) : HidesExecutable(r)
  THEN Abstention
  ELSE [collected EXCEPT !.statements[n].redirects = @ \o redirects]

RECURSIVE CollectStatements(_)
CollectStatements(node) ==
  LET collectKid(acc, kid) ==
        CASE IsError(kid) -> [acc EXCEPT !.errors = Append(@, kid)]
          [] kid.type \in StatementNodes \cup CompositionNodes ->
               Joined(acc, CollectStatements(kid))
          [] OTHER -> acc
      inner == Kids(node, NotRedirect)
  IN CASE IsError(node)       -> [NoStatements EXCEPT !.errors = <<node>>]
       [] IsComposition(node) -> FoldLeft(collectKid, NoStatements, node.kids)
       [] node.type = "redirected_statement"
            /\ \E c \in ToSet(inner) : IsComposition(c) ->
              IF \A c \in ToSet(inner) :
                   c.type \in StatementNodes \cup CompositionNodes \cup {"ERROR"}
              THEN AttachedToLast(FoldLeft(collectKid, NoStatements, inner),
                                  Kids(node, IsRedirect))
              ELSE Abstention
       [] node.type = "redirected_statement" -> RedirectedStatement(node)
       [] IsCommandForm(node) -> SimpleStatement(node)
       [] OTHER -> Abstention

-----------------------------------------------------------------------------
(* The words and the live expansions of a statement [758-1093].            *)

(* A quoted region is inert; a substitution reports its own text and the   *)
(* deeper ones surface when that text is parsed [1037-1079].               *)
RECURSIVE ScanExpansions(_)
ScanExpansions(node) ==
  LET scans == [k \in DOMAIN node.kids |-> ScanExpansions(node.kids[k])]
      bodies == FlattenSeq([k \in DOMAIN node.kids |-> scans[k].bodies])
  IN CASE IsError(node) \/ node.type = "raw_string" -> [live |-> FALSE, bodies |-> <<>>]
       [] IsSubstitution(node) -> [live |-> TRUE, bodies |-> node.kids]
       [] node.type \in ExpansionNodes -> [live |-> TRUE, bodies |-> bodies]
       [] OTHER -> [live   |-> \E k \in DOMAIN node.kids : scans[k].live,
                    bodies |-> bodies]

(* A bare delimiter makes the shell read a here-document's body again: the *)
(* redirect's own children are then live [889-918].                        *)
IsActiveHeredoc(redirect) ==
  redirect.type = "heredoc_redirect" /\ redirect.word.text = "bare"

(* A file redirect keeps the words the grammar swallowed behind its target *)
(* [950-963].                                                              *)
RedirectArgv(redirect) ==
  IF redirect.type = "heredoc_redirect" \/ redirect.kids = <<>>
  THEN <<>>
  ELSE [k \in DOMAIN Tail(redirect.kids) |-> Tail(redirect.kids)[k].word]

IsArgv(node) == node.type \in ArgvNodes

StatementWords(statement) ==
  FlattenSeq([c \in DOMAIN statement.command |->
               LET argv == Kids(statement.command[c], IsArgv)
               IN [k \in DOMAIN argv |-> argv[k].word]])
    \o FlattenSeq([r \in DOMAIN statement.redirects |->
                    RedirectArgv(statement.redirects[r])])

Capped(bodies) == SubSeq(bodies, 1, Min({Len(bodies), MaxSubstitutionBodies}))

CollectSubstitutions(nodes) ==
  LET scans == [k \in DOMAIN nodes |-> ScanExpansions(nodes[k])]
  IN [live   |-> \E k \in DOMAIN nodes : scans[k].live,
      bodies |-> Capped(FlattenSeq([k \in DOMAIN nodes |-> scans[k].bodies]))]

IsScannedRedirect(r) == r.type # "heredoc_redirect"

(* The facts the fold reads of one statement; a statement of too many      *)
(* words gets none [758-785].                                              *)
BuildSegment(statement) ==
  LET read   == statement.command \o SelectSeq(statement.redirects, IsScannedRedirect)
      reread == SelectSeq(statement.redirects, IsActiveHeredoc)
      facts(words, found, heredoc) ==
        [words       |-> words,
         incomplete  |-> \E n \in ToSet(statement.command \o statement.redirects) : HasError(n),
         live        |-> found.live \/ heredoc.live,
         redirect    |-> statement.redirects # <<>>,
         heredocRisk |-> heredoc.live,
         bodies      |-> found.bodies \o heredoc.bodies]
      all == facts(StatementWords(statement), CollectSubstitutions(read), CollectSubstitutions(reread))
  IN SelectSeq(<<all>>, LAMBDA f : Len(f.words) <= MaxSegmentWords)

(* The text of an error is split into words as it stands: enough for a     *)
(* command it names to be recognised [628-728].                            *)
ErrorSegment(error) ==
  LET found == ScanExpansions(Node("program", error.kids)) IN
  [words       |-> [k \in DOMAIN error.kids |-> error.kids[k].word],
   incomplete  |-> TRUE,
   live        |-> found.live,
   redirect    |-> FALSE,
   heredocRisk |-> FALSE,
   bodies      |-> found.bodies]

(* The facts of every statement of a line, or nothing when the line is     *)
(* outside the model [301-358].                                            *)
AnalyzeShellAst(line) ==
  LET heredocError(collected) ==
        \E s \in ToSet(collected.statements) :
          \E r \in ToSet(s.redirects) : r.type = "heredoc_redirect" /\ HasError(r)
      analysis(collected) ==
        IF ~ collected.ok \/ heredocError(collected)
        THEN [ok |-> FALSE, segments |-> <<>>]
        ELSE [ok |-> TRUE,
              segments |->
                FlattenSeq([k \in DOMAIN collected.statements |->
                             BuildSegment(collected.statements[k])])
                  \o [k \in DOMAIN collected.errors |-> ErrorSegment(collected.errors[k])]]
  IN analysis(CollectStatements(line))
=============================================================================
