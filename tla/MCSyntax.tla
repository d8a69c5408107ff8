------------------------------ MODULE MCSyntax ------------------------------
(***************************************************************************)
(* Small files for Parser: expressions printed with the fewest parentheses *)
(* and parsed back, declarations with one token replaced, and files whose  *)
(* imports the scanner of headers reads on its own.  A file is written as  *)
(* the sequence of its words; "nl" ends a line.                            *)
(***************************************************************************)
EXTENDS Parser

Names == {"a", "b", "c", "d", "e", "f", "T", "self", "auto", "flags", "_", "reversed", "packed", "foreign", "abi", "inline", "export", "link", "system", "path", "sizeof"}
Numbers == {"0", "1", "2", "3"}
Texts == {"qk"}

Token(w) ==
    [t |-> CASE w \in Names -> "id" [] w \in Numbers -> "num" [] w \in Texts -> "str" [] OTHER -> w,
     v |-> w, near |-> FALSE]
File(words) == <<>> \o [i \in 1..Len(words) + 1 |-> Token(IF i > Len(words) THEN "eof" ELSE words[i])]

-----------------------------------------------------------------------------
(* Expressions.                                                              *)

Tree(k, of) == [k |-> k, x |-> "", of |-> of]
Id(x) == Leaf("id", x)
BinaryTree(op, l, r) == Tree("binary", <<l, Leaf(op, op), r>>)
Operators == UNION Range(Levels)
OnePerLevel == {"||", "&", "==", "-", "*"}

(* An expression with e in the place of its operand.                         *)
Around(e) ==
    {Tree("unary", <<Leaf(op, op), e>>) : op \in {"!", "-", "~"}}
    \cup {Tree("call", <<e, Id("c")>>), Tree("field", <<e, Id("c")>>), Tree("deref", <<e>>),
          Tree("index", <<e, Id("c")>>), Tree("cast", <<e, Tree("named", <<Id("T")>>)>>)}
Simple == Around(Id("a")) \cup {BinaryTree(op, Id("a"), Id("b")) : op \in Operators}
Trees ==
    UNION {Around(e) : e \in Simple}
    \cup {BinaryTree(op, e, Id("d")) : op \in Operators, e \in Simple}
    \cup {BinaryTree(op, Id("d"), e) : op \in Operators, e \in Simple}
    \cup {BinaryTree(op, BinaryTree(l, Id("a"), Id("b")), BinaryTree(r, Id("c"), Id("d"))) : op, l, r \in OnePerLevel}

(* How tightly a tree holds together, and its words.  A level of operators   *)
(* takes operands of a tighter level, and on its left of its own.            *)
LevelOf(op) == CHOOSE i \in DOMAIN Levels : op \in Levels[i]
Tightness(n) ==
    CASE n.k = "binary" -> LevelOf(n.of[2].k)
      [] n.k = "unary" -> Len(Levels) + 1
      [] OTHER -> Len(Levels) + 2

RECURSIVE Show(_, _)
Show(n, least) ==
    LET subject == Show(n.of[1], Len(Levels) + 2)
        words == CASE n.k = "binary" -> Show(n.of[1], Tightness(n)) \o <<n.of[2].x>> \o Show(n.of[3], Tightness(n) + 1)
                   [] n.k = "unary" -> <<n.of[1].x>> \o Show(n.of[2], Tightness(n))
                   [] n.k = "call" -> subject \o <<"(">> \o Show(n.of[2], 0) \o <<")">>
                   [] n.k = "field" -> subject \o <<".", n.of[2].x>>
                   [] n.k = "deref" -> subject \o <<".", "*">>
                   [] n.k = "index" -> subject \o <<"[">> \o Show(n.of[2], 0) \o <<"]">>
                   [] n.k = "cast" -> subject \o <<".", "(", n.of[2].of[1].x, ")">>
                   [] OTHER -> <<n.x>>
    IN  IF Tightness(n) < least THEN <<"(">> \o words \o <<")">> ELSE words

Constant(e) == File(<<"let", "a", "=">> \o Show(e, 0))
ExpressionFiles == {Constant(e) : e \in Trees}

-----------------------------------------------------------------------------
(* Declarations, and what becomes of them when one token is another.         *)

Declarations4 == <<
    <<"let", "b", "(", "a", ":", "T", ",", "c", ":", "*", "T", ")", ":", "T", "{", "nl", "let", "d", "=", "a", "nl", "if", "a", "{", "return", "c", "nl", "}", "else", "{", "f", "(", "a", ",", "d", ")", "}", "nl", "}">>,
    <<"let", "b", "(", "c", ":", "T", ")", "{", "for", "a", "in", "c", "..", "2", "@", "reversed", "{", "c", "+=", "a", "nl", "}", "nl", "for", "let", "d", "=", "0", ";", "d", "<", "1", ";", "d", "+=", "1", "{", "continue", "nl", "}", "nl", "defer", "f", "(", ")", "nl", "}">>,
    <<"let", "b", "(", "a", ":", "T", ")", "{", "match", "a", "{", ".", "a", "(", "b", ")", "=>", "c", "(", ")", ",", "1", "..", "2", "=>", "{", "}", ",", "_", "if", "a", "=>", "{", "f", "(", ")", "nl", "let", "c", ",", "d", "=", "f", "(", ")", "nl", "}", "nl", "}", "nl", "}">>,
    <<"let", "T", ".", "b", "(", "self", ",", "$", "c", ":", "type", ",", "a", ",", "d", ":", "c", "=", "1", ")", ":", "(", "T", ",", "T", ")", "{", "return", "a", ",", "c", "nl", "}">>,
    <<"let", "(", "[", "]", "$", "a", ")", ".", "b", "(", "*", "self", ")", ":", "T", "=", "a", ".", "*", "[", "1", ":", "]", ".", "&", "mut">>,
    <<"let", "T", "(", "$", "a", ")", ".", "b", "(", "e", ":", "T", ",", "f", ":", "...", "T", ")", "@", "inline", "nl", "@", "export", "(", "qk", ")", "{", "}">>,
    <<"pub", "let", "b", "(", "a", ":", "T", ")", ":", "T", "@", "foreign", "(", "abi", "qk", ")">>,
    <<"let", "b", "(", "$", "a", ":", "type", ")", "=", "type", "alias", "*", "mut", "a">>,
    <<"let", "b", "=", "type", "struct", "@", "packed", "{", "a", ":", "[", "]", "mut", "T", ",", "nl", "c", ":", "T", "(", "T", ",", "[", "2", "]", "T", ")", ",", "union", "{", "d", ":", "T", "}", "}">>,
    <<"let", "b", "=", "type", "union", "(", "@", "auto", ")", "{", "a", "(", "T", ",", "c", ":", "T", ")", ",", "c", "}">>,
    <<"let", "b", "=", "type", "enum", "{", "a", "=", "1", ",", "nl", "c", "=", "2", "nl", "}">>,
    <<"let", "b", "=", "type", "flags", "(", "T", ")", "{", "a", "=", "1", "<<", "2", ",", "c", "=", "a", "}">>,
    <<"let", "b", "=", "type", "trait", "{", "let", "a", "(", "self", ",", "c", ":", "T", ")", ":", "T", "nl", "let", "c", "(", "*", "mut", "self", ")", "{", "}", "}">>,
    <<"let", "b", ":", "*", "(", "T", ",", "...", "T", ")", ":", "T", "=", "nil">>,
    <<"let", "b", "=", "|", "a", ",", "c", ":", "T", "|", "=>", "a", ".", "c", "(", "1", ",", "d", "...", ")", "[", "0", "]">>,
    <<"let", "b", "=", "if", "a", "{", "1", "}", "else", "if", "c", "{", "let", "c", "=", "1", "nl", "c", "}", "else", "{", "2", "}">>,
    <<"let", "b", "=", "T", ".", "{", "a", "=", "1", ",", "c", "=", "-", "[", "1", ";", "2", "]", ",", "nl", "---", "}">>,
    <<"let", "b", "=", "match", "a", ",", "c", "{", "1", ",", "2", "=>", "1", ",", "_", "=>", "2", "}">>,
    <<"let", "b", "=", "match", "a", "as", "d", "{", "1", "|", "2", "=>", "{", "1", "}", ",", "_", "=>", "2", "}">>,
    <<"let", "b", "=", "a", ".", "(", "T", ")", "+", "@", "sizeof", "(", "T", ")", "*", "@", "sizeof", "(", "1", "+", "a", ")">>,
    <<"let", "b", "=", "when", "a", "&&", "(", "c", ")", "{", "1", "}", "else", "when", "c", "{", "2", "}", "else", "{", "3", "}">>,
    <<"when", "a", "{", "nl", "let", "b", "=", "1", "nl", "}", "else", "{", "import", "e", "nl", "}">>,
    <<"module", "b", "@", "link", "(", "system", "qk", ",", "when", "a", "{", "path", "qk", "nl", "}", "else", "{", "}", ")">> >>
Others == {"a", ",", ")", "=", ".", "let", "mut", "in", ":"}
Around4(words) ==
    File(<<"let", "a", "=", "1", "nl">> \o words \o <<"nl", "let", "c", "=", "1", "nl", "let", "d", "=", "1", "nl">>)
(* Not a brace, nor the last token before one: an Expect that fails has      *)
(* consumed what it met, and a consumed brace takes what follows with it.    *)
Replaced(d) ==
    {i \in DOMAIN d : d[i] \notin {"{", "}", "nl"} /\ "}" \notin {d[j] : j \in (i + 1..i + 2) \cap DOMAIN d}}
Whole == {Around4(d) : d \in Range(Declarations4)}
Broken ==
    UNION {{Around4([d EXCEPT ![i] = w]) : w \in Others, i \in Replaced(d)} :
           d \in {e \in Range(Declarations4) : "when" \notin Range(e)}}

-----------------------------------------------------------------------------
(* Files that import.                                                        *)

HeaderLines == {
    <<"module", "a">>, <<"module", "b", ".", "c">>, <<"import", "a">>, <<"import", "b", ".", "c", "d">>,
    <<"import", "(", "a", ",", "nl", "b", "c", "nl", "d", ".", "e", ")">>, <<"import", "(", "nl", "c", "nl", ")">>,
    <<"when", "a", "{", "nl", "import", "e", "nl", "}", "else", "{", "import", "f", "a", "}">>,
    <<"let", "a", "=", "1">>}
HeaderFiles == {File(p \o <<"nl">> \o q \o <<"nl">> \o r) : p, q, r \in HeaderLines}

MCFiles == ExpressionFiles \cup Whole \cup Broken \cup HeaderFiles

-----------------------------------------------------------------------------
(* Properties.                                                               *)

Done == status = "done"

ValueOf(declaration) == Last(declaration.of).of[1]

(* An expression written with the fewest parentheses comes back as itself:   *)
(* the levels of the operators and the side they group to are those of the   *)
(* language, whatever stands inside them.                                    *)
ParsesBack ==
    Done /\ file \in ExpressionFiles => errors = 0 /\ Len(body) = 1 /\ file = Constant(ValueOf(body[1]))

DeclaredNames == {Named(body[i]) : i \in {j \in DOMAIN body : body[j].k = "declaration"}}

(* After an error the parser finds its way: every error costs it a token, so *)
(* that it ends; what stands before the broken declaration, and what does    *)
(* not stand right after it, is read as if nothing had happened; and nothing *)
(* is lost without an error.                                                 *)
Recovers ==
    /\ status # "crashed" /\ errors < pos
    /\ Done /\ file \in Whole => errors = 0
    /\ Done /\ file \in Whole \cup Broken =>
         /\ Named(Head(body)) = "a" /\ Named(Last(body)) = "d"
         /\ errors = 0 => Len(body) = 4

(* The paths of the modules that the nodes of a file name.                   *)
RECURSIVE ModulesOf(_), ImportsOf(_)
PathOf(n) == [i \in DOMAIN n.of |-> n.of[i].x]
ModulesOf(ns) ==
    FlattenSeq([i \in DOMAIN ns |-> CASE ns[i].k = "module" -> <<PathOf(ns[i].of[1])>>
                                       [] ns[i].k \in {"when", "branch", "else"} -> ModulesOf(ns[i].of)
                                       [] OTHER -> <<>>])
ImportsOf(ns) ==
    FlattenSeq([i \in DOMAIN ns |-> CASE ns[i].k = "path" -> <<[path |-> PathOf(ns[i]), alias |-> ""]>>
                                       [] ns[i].k = "aliased" -> <<[path |-> PathOf(ns[i].of[1]), alias |-> ns[i].of[2].x]>>
                                       [] ns[i].k \in {"import", "when", "branch", "else"} -> ImportsOf(ns[i].of)
                                       [] OTHER -> <<>>])

(* What source discovery scans from the tokens of a file is what the parser  *)
(* finds in it: the first module, and every import with its alias, those of  *)
(* every branch of a when included.                                          *)
HeaderAgrees ==
    Done /\ errors = 0 /\ file \in HeaderFiles =>
      LET header == ScanSourceHeader(file)
          modules == ModulesOf(body)
      IN  /\ header.ok /\ header.imports = ImportsOf(body)
          /\ header.module = IF modules = <<>> THEN <<>> ELSE Head(modules)
=============================================================================
