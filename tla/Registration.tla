---------------------------- MODULE Registration ----------------------------
(***************************************************************************)
(* The registration tool (src/extraction/Preprocessor.cpp): what it takes  *)
(* from the source of an application, a comment for each thing that a      *)
(* macro or, in Fortran, a call registers.                                 *)
(*                                                                         *)
(* A C or C++ source is a sequence of tokens: documentation comments, other *)
(* text, white space, included files, the definition of VNV_INCLUDED and   *)
(* macros.  A macro may have documentation comments among its arguments,   *)
(* which the preprocessor reads before it expands the macro.  Token i is   *)
(* at offset 10 i, its k-th argument comment at 10 i + k.                  *)
(***************************************************************************)
EXTENDS Integers, Sequences, FiniteSets, SequencesExt

NoDoc == 0
NoKey == "none"

-----------------------------------------------------------------------------
(* A comment: which of its lines go to which part.  A line has a tag, or   *)
(* "text" or "blank"; the line of a tag may say nothing itself.            *)

Once == {"title", "description", "instructions", "shortTitle", "configuration"}

\* Lines end up in a part: a tag, the name of a parameter, or the template.
PartOf(c, line) ==
  IF line.tag \in Once /\ (line.tag \notin DOMAIN c.parts \/ c.parts[line.tag] = << >>) THEN line.tag
  ELSE IF line.tag = "param" THEN line.name
  ELSE "none"

\* The line that starts a part replaces it; other lines go on with the last part up
\* to a blank line, and are the template without one.
ProcessLine(c, line, i) ==
  LET part == PartOf(c, line)
  IN  IF part # "none"
      THEN [c EXCEPT !.curr = part, !.parts = (part :> IF line.empty THEN << >> ELSE <<i>>) @@ @]
      ELSE IF c.curr # "none" /\ line.tag # "blank" THEN [c EXCEPT !.parts[c.curr] = Append(@, i)]
      ELSE [c EXCEPT !.curr = "none", !.templ = Append(@, i)]

ProcessComment(lines) ==
  FoldLeftDomain(LAMBDA c, i : ProcessLine(c, lines[i], i), [curr |-> "none", parts |-> << >>, templ |-> << >>], lines)

-----------------------------------------------------------------------------
(* C and C++.                                                              *)

OnlyWhitespaceBetween(source, at, i) ==
  at % 10 = 0 /\ \A j \in (at \div 10 + 1) .. (i - 1) : source[j].t = "space"

\* Mutant of GetCommentFor: comments among the arguments are not passed over.
GetCommentForLast(source, comments, i) ==
  IF comments = << >> \/ ~OnlyWhitespaceBetween(source, Last(comments).at, i) THEN [doc |-> NoDoc, rest |-> << >>]
  ELSE [doc |-> Last(comments).doc, rest |-> << >>]

\* The comment right before macro i, past the ones among its arguments.
RECURSIVE GetCommentFor(_, _, _)
GetCommentFor(source, comments, i) ==
  IF comments = << >> THEN [doc |-> NoDoc, rest |-> << >>]
  ELSE IF Last(comments).at > 10 * i THEN GetCommentFor(source, Front(comments), i)
  ELSE [doc |-> IF OnlyWhitespaceBetween(source, Last(comments).at, i) THEN Last(comments).doc ELSE NoDoc, rest |-> << >>]

\* A comment is seen once the header that defines VNV_INCLUDED has been.
HandleComment(s, doc, at) == IF s.active THEN [s EXCEPT !.comments = Append(@, [doc |-> doc, at |-> at])] ELSE s

MacroDefined(s) == [s EXCEPT !.active = TRUE]

\* Into an included file and back.
FileChanged(s) == [s EXCEPT !.comments = << >>]

\* getDef and the docs of the macro.  The key stands for the kind of thing, its package
\* and its name; what was registered under it before is replaced.
Define(s, m, doc) ==
  [s EXCEPT !.defs = (m.key :> [docs |-> doc, subs |-> << >>]) @@ @,
            !.lastTest = IF m.type = "UnitTests" THEN m.key ELSE NoKey,
            !.lastWorkflow = IF m.type = "Workflows" THEN m.key ELSE NoKey]

\* An assertion of the last unit test, whose docs are added up, or a job of the last
\* workflow, whose docs are replaced.
AddSub(s, key, name, docs) == [s EXCEPT !.defs[key].subs = (name :> docs) @@ @]

Subs(s, key, name) == IF name \in DOMAIN s.defs[key].subs THEN s.defs[key].subs[name] ELSE << >>

\* The code of a block is what is between its last start and its end.  The end of a
\* code block that never started throws.
CodeBlock(s, m, i) ==
  LET t == [s EXCEPT !.lastTest = NoKey, !.lastWorkflow = NoKey]
      known == m.key \in DOMAIN s.blocks
  IN  IF m.type = "start"
      THEN [t EXCEPT !.blocks = (m.key :> [start |-> i, code |-> IF known THEN @[m.key].code ELSE << >>]) @@ @]
      ELSE IF known THEN [t EXCEPT !.blocks[m.key].code = <<s.blocks[m.key].start, i>>]
      ELSE [t EXCEPT !.thrown = TRUE]

MacroExpands(s, source, i) ==
  LET m == source[i]
      c == GetCommentFor(source, s.comments, i)
      taken == [s EXCEPT !.comments = c.rest]
  IN  IF ~s.active \/ s.thrown THEN s
      ELSE CASE m.t = "assert" -> IF s.lastTest = NoKey THEN s
                                  ELSE AddSub(taken, s.lastTest, m.key, Append(Subs(s, s.lastTest, m.key), c.doc))
             [] m.t = "job" -> IF s.lastWorkflow = NoKey THEN [s EXCEPT !.lastTest = NoKey]
                               ELSE AddSub(taken, s.lastWorkflow, m.key, <<c.doc>>)
             [] m.t = "block" -> CodeBlock(s, m, i)
             [] m.t = "define" -> Define(taken, m, c.doc)

Token(s, source, i) ==
  LET x == source[i]
  IN  CASE x.t = "doc" -> HandleComment(s, x.doc, 10 * i)
        [] x.t = "include" -> FileChanged(s)
        [] x.t = "included" -> MacroDefined(s)
        [] x.t \in {"text", "space"} -> s
        [] OTHER -> MacroExpands(IF x.inner = NoDoc THEN s ELSE HandleComment(s, x.inner, 10 * i + 1), source, i)

ExecuteAction(source) ==
  FoldLeftDomain(LAMBDA s, i : Token(s, source, i),
    [active |-> FALSE, comments |-> << >>, defs |-> << >>, blocks |-> << >>,
     lastTest |-> NoKey, lastWorkflow |-> NoKey, thrown |-> FALSE], source)

-----------------------------------------------------------------------------
(* Fortran, line by line.  A comment is a line that begins with "!" and    *)
(* says something.                                                         *)

\* The number of the first line from i on that is not of a kind.
RECURSIVE Past(_, _, _)
Past(lines, i, kinds) == IF i <= Len(lines) /\ lines[i].t \in kinds THEN Past(lines, i + 1, kinds) ELSE i

AllKinds == {"comment", "options", "subpackage", "initialize", "loop", "param", "run", "file", "text"}

\* A subpackage is read and never registered.  The lines of a loop up to its call are
\* its parameters.  A schema that is no JSON leaves the comments for what comes next.
RECURSIVE FortranLines(_, _, _, _)
FortranLines(lines, i, comments, defs) ==
  IF i > Len(lines) THEN defs
  ELSE LET x == lines[i]
           registered == (x.key :> comments) @@ defs
       IN  CASE x.t = "options" ->
                  LET next == Past(lines, i + 1, {"comment", "options", "subpackage"})
                  IN  IF x.valid THEN FortranLines(lines, next, << >>, registered)
                      ELSE FortranLines(lines, next, comments, defs)
             [] x.t = "subpackage" -> FortranLines(lines, i + 1, << >>, defs)
             [] x.t = "comment" -> FortranLines(lines, i + 1, Append(comments, x.doc), defs)
             [] x.t = "loop" -> FortranLines(lines, Past(lines, i + 1, AllKinds \ {"run"}) + 1, << >>, registered)
             [] x.t \in {"initialize", "file"} -> FortranLines(lines, i + 1, << >>, registered)
             [] OTHER -> FortranLines(lines, i + 1, << >>, defs)

RunFortranPreprocessor(lines) == FortranLines(lines, 1, << >>, << >>)
=============================================================================
