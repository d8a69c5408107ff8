------------------------------- MODULE Syntax -------------------------------
(***************************************************************************)
(* The productions of the recursive-descent parser, as data: one operator  *)
(* per method of src/parser, in terms of what the methods do with the      *)
(* tokens.  Module Parser interprets them.  A production is a record       *)
(* [c, ts, x, of]: the construct, token kinds, a name, and productions.    *)
(* The kind of a keyword or a punctuation token is its text; "id", "num",  *)
(* "hex", "float", "char", "str", "cstr", "nl" and "eof" are the others    *)
(* ("hex" is a number in base 16, "num" one in base 10).                   *)
(***************************************************************************)
EXTENDS Sequences, SequencesExt, FiniteSets, Integers

G(c, ts, x, of) == [c |-> c, ts |-> ts, x |-> x, of |-> of]

Keywords == {"let", "mut", "struct", "enum", "union", "opaque", "trait", "dyn", "type", "alias", "if", "match", "as", "when",
             "else", "for", "break", "continue", "return", "defer", "import", "module", "pub", "true", "false", "nil", "in"}

(* What is asked of the tokens ahead and of the nodes made so far.           *)
Peek(ts) == G("peek", ts, "", <<>>)
Second(ts) == G("second", ts, "", <<>>)            \* Next()
Pair(t) == G("pair", {t}, "", <<>>)                \* MatchAdjacentPair
Builtin(x) == G("builtin", {}, x, <<>>)            \* MatchBuiltin
Is(x) == G("is", {}, x, <<>>)                      \* the identifier x
Both(a, b) == G("both", {}, "", <<a, b>>)
Either(a, b) == G("either", {}, "", <<a, b>>)
Beyond(a) == G("beyond", {}, "", <<a>>)            \* a, after the newlines
Not(a) == G("not", {}, "", <<a>>)
Has(k) == G("has", {}, k, <<>>)                    \* a node of that kind in the frame
Ask(x) == G("ask", {}, x, <<>>)                    \* one of Parser's questions

(* What is done.                                                             *)
Tok(t) == G("tok", {t}, "", <<>>)                  \* Expect
Word(ts) == G("word", ts, "", <<>>)                \* ExpectGet, kept as a node
Take == G("take", {}, "", <<>>)                    \* Inc
Skip(ts) == G("skip", ts, "", <<>>)
Lines == Skip({"nl"})
Separators == Skip({"nl", ";"})
Mark(k) == G("mark", {}, k, <<>>)
Rule(x) == G("rule", {}, x, <<>>)
All(of) == G("all", {}, "", of)
Empty == All(<<>>)
If(look, then, else) == G("if", {}, "", <<look, then, else>>)
Break == G("break", {}, "", <<>>)
Continue == G("continue", {}, "", <<>>)
Return == G("return", {}, "", <<>>)
Fail == G("fail", {}, "", <<>>)
Node(k, of) == G("node", {}, k, of)                \* a new node of what of makes
Wrap(k, of) == G("wrap", {}, k, of)                \* the same, the last node its first child
Do(x) == G("do", {}, x, <<>>)                      \* one of Parser's operations
Try(g, look, then, else) == G("try", {}, "stack", <<g, look, then, else>>)     \* PushPos, PopPos
Guess(g, look, then, else) == G("try", {}, "copy", <<g, look, then, else>>)    \* pos and posStack are saved
Retry(g, else) == G("try", {}, "pos", <<g, All(<<>>), All(<<>>), else>>)       \* pos alone is saved
Unless(g, look, else) == G("unless", {}, "", <<g, look, else>>)                \* parsed again when look holds
Recover(g) == G("recover", {}, "", <<g>>)                                      \* synchroniseStatement, and on
RecoverTop(g) == G("recover", {}, "top", <<g>>)                                \* synchroniseTopLevel, and on
Restored(g) == G("restored", {}, "", <<g>>)                                    \* an error goes back to where g began
Capturing(g) == G("capturing", {}, "", <<g>>)                                  \* with allowTypeCapture

When(look, g) == If(look, g, Empty)
Refuse(look) == When(look, Fail)
Need(look) == If(look, Empty, Fail)
While(look, g) == G("while", {}, "", <<look, g>>)
Loop(g) == While(Empty, g)
Until(t, g) == While(Not(Peek({t})), g)
Stop(t) == When(Peek({t}), Break)                  \* leave the loop before t
Close(t) == When(Peek({t}), All(<<Take, Break>>))  \* leave the loop after t
Choose(alternatives) ==                            \* <<look, g>>, the first that holds
    FoldRight(LAMBDA a, rest : If(a[1], a[2], rest), alternatives, Fail)

Expression == Rule("expression")
Type == Rule("type")
Name == Word({"id"})
Parenthesised(g) == All(<<Tok("("), Lines, g, Lines, Tok(")")>>)

-----------------------------------------------------------------------------
(* expressions.go: operators.                                                *)

Levels == <<{"||"}, {"&&"}, {"|"}, {"^"}, {"&"}, {"==", "!=", "<", ">", "<=", ">="},
            {"<<", ">>"}, {"+", "-"}, {"*", "/", "%"}>>
LevelNames == <<"expression", "and", "bitor", "bitxor", "bitand", "comparison", "shift", "sum", "product">>

\* Mutant: the right operand of an operator takes the rest of the level.
RightAssociative(i) ==
    LET operand == Rule(IF i = Len(Levels) THEN "unary" ELSE LevelNames[i + 1])
    IN  All(<<operand, When(Peek(Levels[i]), Wrap("binary", <<Word(Levels[i]), Lines, Rule(LevelNames[i])>>))>>)

LeftAssociative(i) ==
    LET operand == Rule(IF i = Len(Levels) THEN "unary" ELSE LevelNames[i + 1])
    IN  All(<<operand, While(Peek(Levels[i]), Wrap("binary", <<Word(Levels[i]), Lines, operand>>))>>)

Unary ==
    All(<<Refuse(Pair("+")), Refuse(Pair("-")),
          If(Peek({"!", "-", "~"}), Node("unary", <<Word({"!", "-", "~"}), Lines, Rule("unary")>>),
             Rule("postfix"))>>)

Index ==                           \* an index or a slice, after the subject
    All(<<Take, Lines, If(Peek({":"}), Mark("none"), Expression), Lines,
          If(Peek({":"}),
             All(<<Take, Lines, If(Peek({"]"}), Mark("none"), Expression), Lines, Tok("]")>>),
             All(<<Refuse(Has("none")), Tok("]")>>))>>)

DotBrace == Both(Peek({"."}), Second({"{"}))

Postfix ==
    All(<<Rule("term"), Loop(Choose(<<
      <<DotBrace, If(Ask("qualified"), All(<<Take, Wrap("struct", <<Rule("fields")>>), Break>>), Break)>>,
      <<Peek({"("}), Try(Wrap("applied", <<Rule("typeArguments")>>), Both(DotBrace, Ask("qualified")), Continue,
                         Wrap("call", <<Rule("arguments")>>))>>,
      <<Pair("+"), Fail>>, <<Pair("-"), Fail>>,
      <<Peek({"["}), Wrap("index", <<Index>>)>>,
      <<Peek({"."}), All(<<Take, Choose(<<
          <<Peek({"*"}), Wrap("deref", <<Take>>)>>,
          <<Peek({"&"}), Wrap("ref", <<Take, When(Peek({"mut"}), Word({"mut"}))>>)>>,
          <<Peek({"("}), Wrap("cast", <<Parenthesised(Type)>>)>>,
          <<Empty, Wrap("field", <<Lines, Name>>)>> >>)>>)>>,
      <<Empty, Break>> >>))>>)

-----------------------------------------------------------------------------
(* Terms.                                                                    *)

(* A type is tried first; what does not end at the parenthesis is a value.   *)
TypeOrValue(k) ==
    Node(k, <<Take, Take, Tok("("), Lines,
              Try(All(<<Type, Lines>>), Peek({")"}), Empty, Expression), Lines, Tok(")")>>)

OffsetOf == Node("offsetof", <<Take, Take, Tok("("), Lines, Type, Tok(","), Lines, Name, Lines, Tok(")")>>)
Embed == Node("embed", <<Take, Take, Tok("("), Lines, Need(Peek({"str"})), Word({"str"}), Lines, Tok(")")>>)

Term == Choose(<<
    <<Peek({"|", "||"}), Rule("lambda")>>,
    <<DotBrace, All(<<Take, Node("struct", <<Rule("fields")>>)>>)>>,
    <<Both(Peek({"."}), Second({"id"})), Node("variant", <<Take, Name>>)>>,
    <<Peek({"if"}), Rule("if expression")>>,
    <<Peek({"when"}), Rule("when expression")>>,
    <<Peek({"match"}), Rule("match expression")>>,
    <<Peek({"{"}), Rule("block expression")>>,
    <<Builtin("sizeof"), TypeOrValue("sizeof")>>,
    <<Builtin("alignof"), TypeOrValue("alignof")>>,
    <<Builtin("offsetof"), OffsetOf>>,
    <<Builtin("embed"), Embed>>,
    <<Builtin("asm"), Rule("asm")>>,
    <<Builtin("repr"), Node("repr", <<Take, Take, Tok("("), Expression, Tok(")")>>)>>,
    <<Peek({"("}), Parenthesised(Expression)>>,
    <<Peek({"---"}), Word({"---"})>>,
    <<Peek({"id"}), Name>>,
    <<Builtin("len"), Node("len", <<Take, Take, Lines, Parenthesised(Expression)>>)>>,
    <<Peek({"["}), Rule("elements")>>,
    <<Peek({"true", "false", "nil", "num", "hex", "float", "char", "str", "cstr"}),
      Word({"true", "false", "nil", "num", "hex", "float", "char", "str", "cstr"})>> >>)

(* Parameters of one type are listed before it; the last may be variadic.    *)
Group(close, parameter, rest) ==
    Node("parameters", <<parameter, While(Not(Peek({":"} \cup close)), All(<<Tok(","), Lines, rest, parameter>>))>>)
Variadic == When(Peek({"..."}), All(<<Refuse(Ask("several names")), Word({"..."})>>))
LambdaParameters ==
    LET parameter == All(<<Name, Refuse(Peek({"="}))>>)
    IN  Loop(All(<<Lines, Close("|"), Group({"|"}, parameter, Stop("|")),
               When(Peek({":"}), Wrap("typed", <<Take, Variadic, Type>>)),
               Refuse(Peek({"="})),
               When(Ask("variadic"), All(<<Refuse(Peek({","})), Tok("|"), Break>>)),
               When(Peek({","}), All(<<Take, Continue>>)),
               Tok("|"), Break>>))

Lambda ==
    Node("lambda", <<If(Peek({"||"}), Take, All(<<Take, LambdaParameters>>)),
                     Lines, Tok("=>"), Lines, If(Peek({"{"}), Rule("block expression"), Expression)>>)

(* Outputs come before inputs, and both before clobbers.                     *)
Asm ==
    LET Entry(k, g) == All(<<Take, Lines, Node(k, <<g, Lines, Word({"str"})>>), Continue>>)
    IN  Node("asm", <<Take, Take, Tok("("), Lines, Word({"str"}),
          Loop(All(<<Lines, Close(")"), Tok(","), Lines, Close(")"),
            Choose(<<
              <<Is("out"), All(<<Refuse(Has("in")), Refuse(Has("clobber")), Entry("out", Type)>>)>>,
              <<Peek({"in"}), All(<<Refuse(Has("clobber")), Entry("in", Expression)>>)>>,
              <<Is("clobber"), All(<<Take, Lines, Node("clobber", <<Word({"str"})>>), Continue>>)>>,
              <<Is("volatile"), All(<<Take, Mark("volatile"), Continue>>)>> >>)>>))>>)

Arguments ==
    All(<<Tok("("), Lines,
          Until(")", All(<<Lines, Stop(")"), Expression,
                           When(Peek({"..."}), All(<<Word({"..."}), Lines, Need(Peek({")"})), Break>>)),
                           When(Not(Peek({","})), Break), Take, Lines>>)),
          Lines, Tok(")")>>)

(* The fields of a struct literal, or the members of a flags literal.        *)
Separated(t, g) ==                 \* items up to t, separated by commas or lines
    Loop(All(<<Stop(t), g, When(Not(Peek({",", "nl"})), Break), Take, Lines>>))

Fields ==
    All(<<Tok("{"), Lines,
          If(Peek({"."}),
             Loop(All(<<Tok("."), Node("member", <<Name>>), When(Not(Peek({",", "nl"})), Break), Take, Lines, Stop("}")>>)),
             Separated("}",
               If(Peek({"---"}),
                  All(<<Word({"---"}), Lines, When(Peek({","}), All(<<Take, Lines>>)), Need(Peek({"}"})), Break>>),
                  Node("init", <<Name, Tok("="), Lines, Expression>>)))),
          Tok("}")>>)

Elements ==
    Node("elements", <<Tok("["), Lines,
      Separated("]",
        All(<<Expression,
              When(Both(Peek({";"}), Ask("one element")),
                   All(<<Take, Lines, Mark("repeat"), Expression, Lines, Tok("]"), Return>>))>>)),
      Tok("]")>>)

(* A match: each arm has a pattern per subject, or one wildcard; the braces  *)
(* of an arm are statements in a statement.                                  *)
Match(statement) ==
    LET inner == IF statement THEN If(Peek({"{"}), Rule("block"), Expression) ELSE Expression
        arm == Node("arm", <<Rule("patterns"), When(Peek({"if"}), All(<<Take, Node("guard", <<Expression>>)>>)),
                             Tok("=>"), Refuse(Ask("miscounted")), Lines,
                             When(Peek({"{"}), Mark("braced")), inner>>)
    IN  Node(IF statement THEN "match" ELSE "match value", <<Tok("match"), Lines,
          Node("subjects", <<Loop(All(<<Expression, When(Not(Peek({","})), Break), Take, Lines>>))>>),
          When(Peek({"as"}), All(<<Need(Ask("one subject")), Take, Node("as", <<Name>>)>>)),
          Lines, Tok("{"), Lines,
          Until("}", All(<<arm, Stop("}"),
                           If(Peek({","}), Take, Need(Ask("block arm"))), Lines>>)),
          Need(Has("arm")), Tok("}")>>)

PatternLiteral == Word({"num", "hex", "char", "str", "cstr", "true", "false"})
Binding == Node("binding", <<Name, When(Peek({"="}), All(<<Take, Name>>))>>)
PatternAtom == Choose(<<
    <<Is("_"), All(<<Take, Mark("wild")>>)>>,
    <<Peek({"."}), Node("variant", <<Take, Name,
        When(Peek({"("}),
             All(<<Take, Lines, Mark("payload"), Until(")", All(<<Binding, Stop(")"), Tok(","), Lines>>)), Tok(")")>>))>>)>>,
    <<Peek({"num", "hex", "char", "str", "cstr", "true", "false"}), PatternLiteral>> >>)
PatternTerm ==
    All(<<PatternAtom, When(Peek({".."}), All(<<Refuse(Ask("no literal")), Wrap("range", <<Take, PatternLiteral>>)>>))>>)
Pattern == All(<<Rule("pattern term"), When(Peek({"|"}), Wrap("alt", <<While(Peek({"|"}), All(<<Take, Rule("pattern term")>>))>>))>>)
Patterns == Node("patterns", <<Loop(All(<<Pattern, When(Not(Peek({","})), Break), Take, Lines>>))>>)

-----------------------------------------------------------------------------
(* Types.                                                                    *)

Fresh == Refuse(Ask("repeated"))           \* the last name is new among its siblings
EndsWith(t) == When(Not(Peek({t})), All(<<Tok(","), Lines>>))    \* after an item of a list up to t
TypeTerm ==
    All(<<Lines, Choose(<<
      <<Peek({"when"}), Rule("when type")>>,
      <<Builtin("reprof"), Node("reprof", <<Take, Take, Tok("("), Type, Tok(")")>>)>>,
      <<Peek({"dyn"}), Fail>>,
      <<Both(Peek({"mut"}), Second({"dyn"})), Fail>>,
      <<Peek({"*"}), Rule("pointer")>>,
      <<Peek({"["}), Rule("array or slice")>>,
      <<Peek({"struct"}), Rule("struct type")>>,
      <<Peek({"enum"}), Rule("enum type")>>,
      <<Both(Is("flags"), Second({"("})), Rule("flags type")>>,
      <<Both(Is("flags"), Second({"{"})), Fail>>,
      <<Peek({"union"}), Rule("union type")>>,
      <<Peek({"opaque"}), Word({"opaque"})>>,
      <<Peek({"trait"}), Rule("trait type")>>,
      <<Empty, Rule("named type")>> >>)>>)

TypeArguments ==
    All(<<Tok("("), Loop(All(<<Lines, Close(")"), Type, Lines, Close(")"), Tok(",")>>))>>)

(* $ captures a type in the owner of a method: alone, or with a name.        *)
NamedType ==
    LET Applied(g) == When(Peek({"("}), All(<<g, Rule("typeArguments")>>))
        captured == All(<<Refuse(Peek({"."})), Applied(Fail), When(Peek({":"}), All(<<Take, Node("constraint", <<Type>>)>>))>>)
    IN  If(Peek({"$"}),
           All(<<Need(Ask("capturing")),
                 Node("capture", <<Take, When(Not(Peek({")"})), All(<<Name, captured>>))>>)>>),
           Node("named", <<Name, While(Peek({"."}), All(<<Take, Name>>)), Applied(Empty)>>))

Pointer ==
    Node("pointer", <<Tok("*"), When(Peek({"mut"}), Word({"mut"})),
      Choose(<< <<Peek({"dyn"}), All(<<Word({"dyn"}), Rule("named type")>>)>>,
                <<Peek({"("}), Rule("function type")>>,
                <<Empty, Type>> >>),
      Refuse(Both(Has("mut"), Has("function type")))>>)

ArrayOrSlice ==
    Node("sequence", <<Tok("["), Lines,
      If(Peek({"]"}), All(<<Take, When(Peek({"mut"}), Word({"mut"}))>>),
         All(<<Node("length", <<Expression>>), Lines, Tok("]")>>)),
      Type>>)

FunctionType ==
    Node("function type", <<Take,
      Loop(All(<<Lines, Stop(")"),
                 If(Peek({"..."}), All(<<Word({"..."}), Type, Refuse(Peek({","})), Break>>), Type),
                 When(Not(Peek({","})), Break), Take>>)),
      Tok(")"), Tok(":"), Type>>)

(* Values are implicit for every variant or given for every variant.         *)
Valued(value) ==
    Loop(All(<<Lines, Close("}"), Name, Fresh, Refuse(Ask("mixed values")),
               Wrap("variant", <<When(Peek({"="}), All(<<Take, value>>))>>), Lines,
               When(Peek({","}), All(<<Take, Continue>>)), Need(Peek({"}"}))>>))
EnumType ==
    Node("enum", <<Tok("enum"), Tok("{"), Valued(All(<<Word({"num", "hex"}), Refuse(Ask("too wide"))>>)), Need(Has("variant"))>>)
FlagValue ==
    Loop(All(<<Choose(<<
                 <<Peek({"id"}), All(<<Name, Need(Ask("earlier flag"))>>)>>,
                 <<Peek({"hex"}), Word({"hex"})>>,
                 <<Peek({"num"}), All(<<Word({"num"}), Need(Both(Ask("one"), Peek({"<<"}))), Take, Word({"num"})>>)>> >>),
               When(Not(Peek({"|"})), Break), Take>>))
FlagsType ==
    Node("flags", <<Take, Tok("("), Node("underlying", <<Rule("named type")>>), Tok(")"), Tok("{"), Valued(FlagValue), Need(Has("variant"))>>)

Field == All(<<Name, Fresh, Wrap("field", <<Tok(":"), Type>>)>>)
StructType ==
    LET field == All(<<Name, Wrap("field", <<Tok(":"), Type>>)>>)     \* a name may come twice
    IN  Node("struct type", <<Tok("struct"), Rule("attributes"), Tok("{"), Lines,
          Until("}", All(<<If(Peek({"union"}), Rule("union type"), field), EndsWith("}")>>)), Tok("}")>>)

(* A union is tagged by a type, by an enum of its own, or not at all.        *)
Variant ==
    LET item == If(Both(Peek({"id"}), Second({":"})), All(<<Name, Fresh, Wrap("field", <<Take, Type>>)>>), Type)
    IN  All(<<Name, Fresh, Wrap("variant", <<When(Peek({"("}),
          All(<<Take, Lines, Until(")", All(<<item, EndsWith(")")>>)), Tok(")")>>))>>)>>)
UnionType ==
    LET tag == If(Peek({"@"}), All(<<Take, Name, Need(Ask("auto"))>>), Type)
    IN  Node("union", <<Tok("union"),
          When(Peek({"("}), All(<<Take, Lines, Node("tag", <<tag>>), Lines, Tok(")")>>)),
          Tok("{"), Lines,
          Until("}", All(<<If(Has("tag"), Variant, Field), EndsWith("}")>>)), Tok("}"),
          Need(Either(Has("field"), Either(Has("variant"), Ask("tagged by a type"))))>>)

(* The receiver of a method is self, *self or *mut self.                     *)
Self == Node("receiver", <<When(Peek({"*"}), All(<<Word({"*"}), When(Peek({"mut"}), Word({"mut"}))>>)), Name, Need(Ask("self"))>>)
ExpressionBody ==
    All(<<Take, Mark("="), Lines, If(Peek({"{"}), Rule("block expression"), Expression)>>)
ReturnType ==
    When(Peek({":"}), All(<<Take,
      If(Peek({"("}),
         Node("returns", <<Take, Loop(All(<<Type, When(Not(Peek({","})), Break), Take>>)), Need(Ask("several")), Tok(")")>>),
         Type)>>))
TypeParameter ==
    Node("type parameter", <<Restored(All(<<Take, Name, Tok(":"), Need(Peek({"type"}))>>)), Take,
                             When(Peek({"("}), All(<<Take, Type, Tok(")")>>))>>)
TraitType ==
    LET parameter == Node("parameter", <<Name, Lines, Tok(":"), Lines, Type>>)
        parameters == Loop(All(<<Lines, Stop(")"),
            If(Peek({"$"}), All(<<TypeParameter, When(Peek({","}), Take)>>),
               All(<<parameter, Lines, When(Not(Peek({","})), Break), Take>>))>>))
        method == All(<<Tok("let"), Name, Fresh, Wrap("method", <<
            Tok("("), Lines, Need(Either(Is("self"), Peek({"*"}))), Self, When(Peek({","}), Take),
            parameters, Lines, Tok(")"), ReturnType,
            If(Peek({"{"}), Rule("block"), When(Peek({"="}), ExpressionBody))>>)>>)
    IN  Node("trait", <<Take, Tok("{"), Loop(All(<<Lines, Close("}"), method, When(Peek({",", ";"}), Take)>>))>>)

-----------------------------------------------------------------------------
(* statements.go: blocks.                                                    *)

(* A block that yields a value tries each statement as its last expression;  *)
(* a statement with an error is left behind, and the block fails at its end. *)
Block(value) ==
    LET yields == Guess(All(<<Expression, Separators>>), Peek({"}"}), Break, Empty)
        unended == Not(Either(Ask("complete"), Peek({"}", ";", "nl"})))
        statement == All(<<Rule("statement"), Refuse(unended)>>)
    IN  Node(IF value THEN "value block" ELSE "block", <<Tok("{"), Lines,
          Loop(All(<<When(Peek({"}", "eof"}), Break), IF value THEN yields ELSE Empty,
                     Recover(statement), Stop("}"), Separators>>)),
          Tok("}"), Refuse(Has("broken"))>>)

-----------------------------------------------------------------------------
(* Functions and their attributes.                                           *)

OwnerType(check) == Node("owner", <<Capturing(Type), check, Refuse(Ask("constrained again"))>>)
Owner ==
    Choose(<<
      <<Peek({"("}), All(<<Take, OwnerType(All(<<Tok(")"), Refuse(Ask("captures nominally"))>>)), Tok("."), Name>>)>>,
      <<Both(Peek({"id"}), Ask("owner application")), All(<<OwnerType(Empty), Tok("."), Name>>)>>,
      <<Empty, All(<<Name, When(Peek({"."}), All(<<Wrap("owner", <<Take>>), Name>>))>>)>> >>)

Receiver ==
    When(Both(Has("owner"), Either(Is("self"), Peek({"*"}))),
         All(<<Self, If(Peek({","}), Take, Need(Peek({")"})))>>))

(* A default stands after the name or after the type of the parameter.       *)
Parameters ==
    LET default == All(<<Take, Node("default", <<Expression>>)>>)
        parameter == All(<<When(Peek(Keywords), All(<<Word(Keywords), Need(Ask("mutable"))>>)), Name, When(Peek({"="}), default)>>)
        typed == Wrap("typed", <<Take, Variadic, Type, Refuse(Both(Has("..."), Ask("any default")))>>)
    IN  Loop(All(<<Stop(")"), Lines, Stop(")"),
          When(Peek({"..."}), All(<<Word({"..."}), When(Peek({","}), Take), Break>>)),
          When(Peek({"$"}), All(<<TypeParameter, Refuse(Ask("repeated parameter")), If(Peek({","}), Take, Need(Peek({")"}))), Continue>>)),
          Group({}, parameter, Empty), typed,
          When(Peek({"="}), All(<<Refuse(Ask("default given")), Wrap("defaulted", <<default>>)>>)),
          When(Ask("variadic"), All(<<Refuse(Peek({","})), Break>>)),
          When(Not(Peek({","})), Break), Take>>))

FunctionDefinition ==
    Node("function", <<Take, Owner, Tok("("), Lines, Receiver, Parameters, Lines, Tok(")"), ReturnType, Lines, Rule("attributes"),
      When(Not(Has("foreign")),
           All(<<Lines, Choose(<< <<Peek({"{"}), Rule("block")>>, <<Peek({"="}), ExpressionBody>> >>)>>))>>)

Directive == Either(Builtin("compiler_error"), Builtin("compiler_assert"))
Attributes == While(Beyond(Both(Peek({"@"}), Not(Directive))), All(<<Lines, Rule("attribute")>>))

(* Options are given once, each with a string.                               *)
Option(more) ==
    All(<<more, Name, Wrap("option", <<more, Word({"str"})>>), Need(Ask("valid option")), Lines>>)
ForeignOptions ==
    When(Peek({"("}), All(<<Take, Lines,
      If(Peek({")"}), Take, Loop(All(<<Option(Lines), Close(")"), Tok(","), Lines, Close(")")>>)))>>))
ExportOptions ==
    When(Peek({"("}), All(<<Take, Lines,
      Choose(<< <<Peek({")"}), Take>>,
                <<Peek({"str"}), All(<<Word({"str"}), Refuse(Ask("empty")), Lines, Tok(")")>>)>>,
                <<Empty, Loop(All(<<Option(Empty), Close(")"), Tok(",")>>))>> >>)>>))
Bare == When(Peek({"("}), All(<<Take, Lines, Tok(")")>>))
Attribute ==
    All(<<Tok("@"), Choose(<<
      <<Is("link"), Node("link", <<Take, Tok("("), Rule("link items"), Take>>)>>,
      <<Is("inline"), Node("inline", <<Take, Bare>>)>>,
      <<Is("noinline"), Node("noinline", <<Take, Bare>>)>>,
      <<Is("noreturn"), Node("noreturn", <<Take, Bare>>)>>,
      <<Is("packed"), Node("packed", <<Take, Bare>>)>>,
      <<Is("foreign"), Node("foreign", <<Take, ForeignOptions>>)>>,
      <<Is("export"), Node("export", <<Take, ExportOptions>>)>>,
      <<Empty, All(<<Tok("id"), Fail>>)>> >>)>>)

-----------------------------------------------------------------------------
(* Other declarations.                                                       *)

TypeAlias ==
    Node("type alias", <<Take, Name,
      When(Peek({"("}), All(<<Take, Until(")", All(<<Need(Peek({"$"})), TypeParameter, When(Not(Peek({","})), Break), Take>>)), Tok(")")>>)),
      Tok("="), Need(Peek({"type"})), Take, When(Peek({"alias"}), Word({"alias"})), Type>>)

ModulePath == Node("path", <<Name, While(Peek({"."}), All(<<Take, Name>>))>>)
Import ==
    LET item == All(<<ModulePath, When(Peek({"id"}), Wrap("aliased", <<Name>>))>>)
        items == Loop(All(<<Lines, Close(")"), item,
                   Choose(<< <<Peek({","}), All(<<Take, Lines>>)>>, <<Peek({"nl"}), Take>>, <<Peek({")"}), All(<<Take, Break>>)>> >>)>>))
    IN  Node("import", <<Tok("import"), If(Peek({"("}), All(<<Take, items>>), item)>>)
ModuleDeclaration == Node("module", <<Tok("module"), ModulePath, Rule("attributes")>>)

Declaration ==
    Node("declaration", <<Tok("let"), When(Peek({"mut"}), Word({"mut"})), When(Peek({"$"}), Word({"$"})),
      Refuse(Both(Has("mut"), Has("$"))), Name,
      When(Peek({":"}), All(<<Take, Node("typed", <<Type>>)>>)),
      When(Peek({"="}), All(<<Take, Lines, Node("value", <<Expression>>)>>)),
      Rule("attributes"),
      When(Not(Has("value")), All(<<Need(Ask("attributes")), Refuse(Both(Has("foreign"), Not(Has("typed"))))>>))>>)

MultiDeclaration ==
    Node("declarations", <<Take, When(Peek({"mut"}), Word({"mut"})),
      Loop(All(<<Name, When(Not(Peek({","})), Break), Take>>)), Tok("="), Lines, Expression, Need(Ask("results"))>>)

(* What a let declares shows in the tokens after the name.                   *)
Let ==
    LET As(rule) == All(<<Do("pop"), Rule(rule)>>)
        Named(function) == All(<<Tok("id"), Choose(<<
          <<Peek({"("}), All(<<Do("pop"), If(Ask("introduces a type"), Rule("type alias"), Rule(function))>>)>>,
          <<Peek({"."}), As(function)>>,
          <<Peek({":"}), As("declaration")>>,
          <<Peek({"="}), All(<<Take, If(Peek({"type"}), As("type alias"), As("declaration"))>>)>>,
          <<Peek({","}), As("declarations")>> >>)>>)
        Bound(function) == Choose(<< <<Peek({"$"}), As("declaration")>>, <<Peek({"("}), As(function)>>, <<Empty, Named(function)>> >>)
    IN  All(<<Do("push"), Take, If(Peek({"mut"}), All(<<Take, Bound("declaration")>>), Bound("function"))>>)

-----------------------------------------------------------------------------
(* Statements.                                                               *)

Compound == {"+=", "-=", "*=", "/=", "%=", "&=", "|=", "^=", "<<=", ">>="}
Continues == {"(", "[", "."} \cup (UNION Range(Levels))
ExpressionStatement ==
    All(<<Expression, Choose(<<
      <<Peek({","}), Wrap("assign results", <<While(Peek({","}), All(<<Take, Name>>)), Tok("="), Expression, Need(Ask("results"))>>)>>,
      <<Peek({"="}), Wrap("assign", <<Take, Lines, Expression>>)>>,
      <<Peek(Compound), Wrap("compound", <<Word(Compound), Lines, Expression>>)>>,
      <<Empty, Empty>> >>)>>)

Statement == Choose(<<
    <<Directive, Rule("directive")>>,
    <<Peek({"let"}), Rule("let")>>,
    <<Peek({"return", "break", "continue"}), Rule("control keyword")>>,
    <<Peek({"defer"}), Rule("defer")>>,
    <<Peek({"if"}), Rule("if")>>,
    <<Peek({"match"}), Unless(Rule("match"), Peek(Continues), Rule("expression statement"))>>,
    <<Peek({"for"}), Rule("for")>>,
    <<Peek({"when"}), Rule("when statements")>>,
    <<Peek(Keywords), Fail>>,
    <<Peek({"{"}), Rule("block")>>,
    <<Empty, Rule("expression statement")>> >>)

Defer == Node("defer", <<Tok("defer"), Lines, If(Peek({"{"}), Rule("block"), Expression)>>)

ControlKeyword ==
    Node("control", <<If(Both(Peek({"return"}), Not(Second({"nl", ";"}))),
      All(<<Word({"return"}), Loop(All(<<Expression, When(Not(Peek({","})), Break), Take>>))>>),
      Word({"return", "break", "continue"}))>>)

IfElse(value) ==
    LET block == IF value THEN Rule("block expression") ELSE Rule("block")
        branch == All(<<Take, Lines, Node("branch", <<Expression, Lines, block>>), Lines>>)
    IN  Node(IF value THEN "if value" ELSE "if", <<branch,
          While(Peek({"else"}), All(<<Take, Lines, If(Peek({"if"}), branch, All(<<Node("else", <<block>>), Break>>))>>)),
          IF value THEN Need(Has("else")) ELSE Empty>>)

(* Iteration over a range or over elements, with or without an index.        *)
Iteration ==
    LET reversed == While(Peek({"@"}), All(<<Take, Name, Need(Ask("reversed")), Refuse(Has("reversed")), Wrap("reversed", <<>>)>>))
        destructure == Node("destructure", <<Take, Loop(All(<<Name, Close(")"), Tok(",")>>))>>)
        pointer == Node("pointer", <<Take, Take, When(Peek({"mut"}), Word({"mut"}))>>)
        range == All(<<Word({".."}), When(Peek({"="}), Word({"="})), Expression,
                       Refuse(Has("index")), Refuse(Has("destructure")), Refuse(Has("pointer"))>>)
    IN  All(<<If(Peek({"("}), destructure,
                 All(<<Name, When(Both(Peek({"."}), Second({"&"})), pointer)>>)),
              When(Peek({","}), All(<<Take, Node("index", <<Name>>)>>)),
              Tok("in"), Node("over", <<Expression>>), When(Peek({".."}), range), reversed, Rule("block")>>)
For ==
    Node("for", <<Tok("for"), Lines,
      If(Ask("iterates"), Iteration,
         All(<<Until("{", All(<<Retry(Rule("statement"), Expression), Stop("{"), Tok(";"), Lines>>)), Lines, Rule("block")>>))>>)

-----------------------------------------------------------------------------
(* when.go                                                                   *)

LinkItems(close) ==
    LET kinds == Either(Either(Is("system"), Is("path")), Either(Is("search"), Is("framework")))
    IN  Loop(All(<<Skip({"nl", ","}), Stop(close), Refuse(Peek({"eof"})),
          Choose(<<
            <<Peek({"when"}), Rule("link when")>>,
            <<Builtin("compiler_error"), Rule("directive")>>,
            <<kinds, Node("item", <<Name, Word({"str"}), Refuse(Ask("empty"))>>)>>,
            <<Empty, All(<<Take, Fail>>)>> >>)>>))

(* A chain of conditions, each with a body, and perhaps a last body.         *)
Chain(inner) ==
    Loop(All(<<Need(Peek({"when"})), Take, Node("branch", <<Do("condition"), inner>>),
               When(Not(Beyond(Peek({"else"}))), Break), Lines, Take, Lines,
               When(Not(Peek({"when"})), All(<<Node("else", <<inner>>), Break>>))>>))
LinkWhen == Node("link when", <<Chain(All(<<Tok("{"), LinkItems("}"), Take>>))>>)

SelectedType ==
    All(<<Tok("{"), Lines,
      If(Directive, All(<<Rule("directive"), Separators>>), All(<<Type, Lines>>)), Tok("}")>>)
Declarations ==
    All(<<Tok("{"),
      Loop(All(<<When(Peek({"}", "eof"}), Break), Separators, Stop("}"),
                 RecoverTop(All(<<Rule("top level"), Need(Peek({"}", "nl", ";"}))>>))>>)),
      Tok("}"), Refuse(Has("broken"))>>)
SelectBy(inner) == Node("when", <<Chain(inner)>>)

CompilerDirective ==
    Node("directive", <<If(Builtin("compiler_assert"), All(<<Take, Take, Tok("("), Expression, Tok(",")>>), All(<<Take, Take, Tok("(")>>)),
                        Word({"str"}), Tok(")")>>)

-----------------------------------------------------------------------------
(* parser.go: what a file consists of.                                       *)

TopLevel == Choose(<<
    <<Directive, Rule("directive")>>,
    <<Peek({"pub"}), Node("pub", <<Take, Need(Peek({"let"})), Rule("statement"), Need(Ask("declares"))>>)>>,
    <<Peek({"let"}), Rule("statement")>>,
    <<Peek({"import"}), Rule("import")>>,
    <<Peek({"module"}), Rule("module")>>,
    <<Peek({"when"}), Rule("when declarations")>> >>)

-----------------------------------------------------------------------------
(* Every production that another one names.                                  *)

Grammar ==
    [n \in Range(LevelNames) |-> LeftAssociative(CHOOSE i \in DOMAIN LevelNames : LevelNames[i] = n)]
    @@ "unary" :> Unary @@ "postfix" :> Postfix @@ "term" :> Term @@ "lambda" :> Lambda @@ "asm" :> Asm
    @@ "arguments" :> Arguments @@ "fields" :> Fields @@ "elements" :> Elements
    @@ "match" :> Match(TRUE) @@ "match expression" :> Match(FALSE) @@ "patterns" :> Patterns @@ "pattern term" :> PatternTerm
    @@ "type" :> TypeTerm @@ "typeArguments" :> TypeArguments @@ "named type" :> NamedType @@ "pointer" :> Pointer
    @@ "array or slice" :> ArrayOrSlice @@ "function type" :> FunctionType @@ "enum type" :> EnumType @@ "flags type" :> FlagsType
    @@ "struct type" :> StructType @@ "union type" :> UnionType @@ "trait type" :> TraitType
    @@ "block" :> Block(FALSE) @@ "block expression" :> Block(TRUE) @@ "attributes" :> Attributes @@ "attribute" :> Attribute
    @@ "function" :> FunctionDefinition @@ "type alias" :> TypeAlias @@ "import" :> Import @@ "module" :> ModuleDeclaration
    @@ "declaration" :> Declaration @@ "declarations" :> MultiDeclaration @@ "let" :> Let
    @@ "statement" :> Statement @@ "expression statement" :> ExpressionStatement @@ "defer" :> Defer @@ "control keyword" :> ControlKeyword
    @@ "if" :> IfElse(FALSE) @@ "if expression" :> IfElse(TRUE) @@ "for" :> For
    @@ "link items" :> LinkItems(")") @@ "link when" :> LinkWhen @@ "directive" :> CompilerDirective
    @@ "when declarations" :> SelectBy(Declarations) @@ "when statements" :> SelectBy(Rule("block"))
    @@ "when expression" :> SelectBy(Rule("block expression")) @@ "when type" :> SelectBy(SelectedType)
    @@ "top level" :> TopLevel
=============================================================================
