------------------------------- MODULE Parser -------------------------------
(***************************************************************************)
(* The parser (src/parser): its cursor over the tokens, the positions it   *)
(* goes back to, what the productions of Syntax do, how it goes on after   *)
(* an error, and Parse, which makes one declaration of a file at a time.   *)
(* A token is [t, v, near]: its kind, its text, and whether the next one   *)
(* follows without a space.  A node is [k, x, of]: its kind, a name, and   *)
(* the nodes it is made of.  Locations are left out.                       *)
(***************************************************************************)
EXTENDS Syntax

CONSTANT Files                     \* the files that may be parsed: sequences of tokens that end with "eof"

VARIABLES
    file,       \* tokens
    pos,        \* the cursor, counted from 1
    posStack,   \* PushPos
    body,       \* RootNode.Body
    errors,     \* number of errors reported
    status      \* "parsing", "done" or "crashed"

vars == <<file, pos, posStack, body, errors, status>>

-----------------------------------------------------------------------------
(* A parser is [toks, pos, stack, cap, ctl, frames]: ctl is "" while a       *)
(* production runs, or what cut it short; frames hold the nodes being made.  *)

NewParser(toks) == [toks |-> toks, pos |-> 1, stack |-> <<>>, cap |-> FALSE, ctl |-> "", frames |-> <<<<>>>>]

Eof == [t |-> "eof", v |-> "", near |-> FALSE]
At(s, i) == IF i \in DOMAIN s.toks THEN s.toks[i] ELSE Eof
Here(s) == At(s, s.pos)
Top(s) == Last(s.frames)
Made(s) == Last(Top(s))
Stopped(s, how) == [s EXCEPT !.ctl = how]
Moved(s, i) == [s EXCEPT !.pos = i]
Leaf(k, x) == [k |-> k, x |-> x, of |-> <<>>]
Add(s, n) == [s EXCEPT !.frames = Append(Front(@), Append(Last(@), n))]

PushPos(s) == [s EXCEPT !.stack = Append(@, s.pos)]
PopPos(s) == IF s.stack = <<>> THEN s ELSE [s EXCEPT !.pos = Last(s.stack), !.stack = Front(@)]
CommitPos(s) == IF s.stack = <<>> THEN s ELSE [s EXCEPT !.stack = Front(@)]

(* The first position from i on that stops holds of, or the one past the end. *)
FirstFrom(s, i, stops(_)) ==
    LET found == {j \in i..Len(s.toks) : stops(s.toks[j].t)}
    IN  IF found = {} THEN Len(s.toks) + 1 ELSE Min(found)

(* The tokens of a text that nest: how deep each position from i lies.        *)
RECURSIVE Closing(_, _, _, _, _)
Closing(s, i, depth, opens, closes) ==       \* where the bracket opened at i closes, or 0
    IF i > Len(s.toks) THEN 0
    ELSE LET t == s.toks[i].t
             d == depth + (IF t \in opens THEN 1 ELSE IF t \in closes THEN -1 ELSE 0)
         IN  IF d = 0 THEN i ELSE Closing(s, i + 1, d, opens, closes)

-----------------------------------------------------------------------------
(* Questions about the tokens ahead.                                         *)

(* The owner of a method is applied to types when a dot follows them.        *)
OwnerApplication(s) ==
    /\ At(s, s.pos + 1).t = "("
    /\ LET close == Closing(s, s.pos + 1, 0, {"("}, {")"})
       IN  close # 0 /\ At(s, close + 1).t = "."

(* bindingParametersIntroduce("type"): compares the text of any token.       *)
IntroducesType(s) ==
    LET name == IF At(s, s.pos + 1).t = "mut" THEN s.pos + 2 ELSE s.pos + 1
        close == Closing(s, name + 1, 0, {"("}, {")"})
        equals == FirstFrom(s, close + 1, LAMBDA t : t # "nl")
        first == FirstFrom(s, equals + 1, LAMBDA t : t # "nl")
    IN  /\ At(s, name).t = "id" /\ At(s, name + 1).t = "("
        /\ close # 0 /\ At(s, equals).t = "=" /\ At(s, first).v = "type"

(* matchesRangeOrForEachHeader                                               *)
Iterates(s) ==
    LET close == Closing(s, s.pos, 0, {"("}, {")"})
        names == IF At(s, s.pos).t = "(" THEN close + 1 ELSE s.pos + 1
        pointer == IF At(s, names).t # "." \/ At(s, names + 1).t # "&" THEN names
                   ELSE IF At(s, names + 2).t = "mut" THEN names + 3 ELSE names + 2
        index == IF At(s, pointer).t = "," THEN pointer + 2 ELSE pointer
    IN  /\ \/ At(s, s.pos).t = "id"
           \/ /\ At(s, s.pos).t = "(" /\ close # 0 /\ (close - s.pos) % 2 = 0
              /\ \A i \in s.pos + 1..close - 1 : At(s, i).t = IF (i - s.pos) % 2 = 1 THEN "id" ELSE ","
        /\ index # pointer => At(s, pointer + 1).t = "id"
        /\ At(s, index).t = "in"

-----------------------------------------------------------------------------
(* Questions about the nodes made so far.                                    *)

Kinds(ns) == {ns[i].k : i \in DOMAIN ns}
Named(n) == IF n.of = <<>> THEN n.x ELSE n.of[1].x
Earlier(s) == Front(Top(s))                  \* the nodes before the last
Outer(s) == s.frames[Len(s.frames) - 1]

RECURSIVE Qualified(_), TypedVariadic(_), Captures(_), CapturesAll(_)
Qualified(n) == n.k = "id" \/ (n.k \in {"field", "applied"} /\ Qualified(n.of[1]))
TypedVariadic(n) ==
    \/ n.k = "typed" /\ "..." \in Kinds(n.of)
    \/ n.k = "defaulted" /\ TypedVariadic(n.of[1])
(* capturedTypeParameters: the captures of an owner, in order.               *)
CapturesAll(ns) == IF ns = <<>> THEN <<>> ELSE Captures(Head(ns)) \o CapturesAll(Tail(ns))
Captures(n) ==
    IF n.k = "capture" THEN IF n.of = <<>> THEN <<>> ELSE <<n>>
    ELSE IF n.k \in {"owner", "named", "pointer", "sequence", "reprof", "function type"} THEN CapturesAll(n.of) ELSE <<>>
ConstrainedAgain(cs) ==
    \E i, j \in DOMAIN cs : i < j /\ Named(cs[i]) = Named(cs[j]) /\ "constraint" \in Kinds(cs[j].of)
TypeParametersOf(ns) ==
    UNION {IF ns[i].k = "type parameter" THEN {Named(ns[i])} ELSE {Named(c) : c \in Range(Captures(ns[i]))} : i \in DOMAIN ns}

ValidOption(option, others) ==
    /\ \A i \in DOMAIN others : Named(others[i]) # Named(option)
    /\ CASE Named(option) = "abi" -> option.of[2].x \in {"c", "qk"}
         [] Named(option) = "symbol" -> option.of[2].x # ""
         [] OTHER -> FALSE

AttributeKinds == {"link", "inline", "noinline", "noreturn", "packed", "foreign", "export"}
Answer(s, x) ==
    CASE x = "qualified" -> Qualified(IF Made(s).k = "applied" THEN Made(s).of[1] ELSE Made(s))
      [] x = "complete" -> Made(s).k \in {"if", "match", "for", "when"}
      [] x = "results" -> Made(s).k \in {"call", "cast", "asm"}
      [] x = "declares" -> Made(s).k \in {"function", "declaration", "type alias"}
      [] x = "mutable" -> Made(s).k = "mut"
      [] x = "no literal" -> Made(s).k \in {"variant", "wild"}
      [] x = "variadic" -> TypedVariadic(Made(s))
      [] x \in {"self", "auto", "reversed"} -> Made(s).x = x
      [] x = "one" -> Made(s).x = "1"
      [] x = "empty" -> Made(s).x = ""
      [] x = "too wide" -> Made(s).x = "wide"
      [] x = "several" -> Len(Top(s)) > 1
      [] x = "one element" -> Len(Top(s)) = 1
      [] x = "one subject" -> Len(Made(s).of) = 1
      [] x = "several names" -> Len(SelectSeq(Top(s)[1].of, LAMBDA n : n.k = "id")) > 1
      [] x = "any default" -> "default" \in Kinds(Top(s)[1].of)
      [] x = "default given" -> Last(Made(s).of[1].of).k = "default"
      [] x = "attributes" -> Kinds(Top(s)) \cap AttributeKinds # {}
      [] x = "valid option" -> ValidOption(Made(s), Earlier(s))
      [] x = "repeated" -> \E i \in DOMAIN Earlier(s) : Named(Earlier(s)[i]) = Made(s).x
      [] x = "repeated parameter" -> Named(Made(s)) \in TypeParametersOf(Earlier(s))
      [] x = "mixed values" -> \E i \in DOMAIN Earlier(s) :
                                 Earlier(s)[i].k = "variant" /\ (Len(Earlier(s)[i].of) > 1) # (Here(s).t = "=")
      [] x = "earlier flag" -> \E i \in DOMAIN Outer(s) : Outer(s)[i].k = "variant" /\ Named(Outer(s)[i]) = Made(s).x
      [] x = "tagged by a type" -> \E i \in DOMAIN Top(s) : Top(s)[i].k = "tag" /\ Top(s)[i].of[1].k # "id"
      [] x = "captures nominally" -> Made(s).k = "named" /\ "capture" \in Kinds(Made(s).of)
      [] x = "constrained again" -> ConstrainedAgain(CapturesAll(Top(s)))
      [] x = "miscounted" -> /\ Len(Top(s)[1].of) # Len(Outer(s)[1].of)
                             /\ Len(Top(s)[1].of) # 1 \/ Top(s)[1].of[1].k # "wild"
      [] x = "block arm" -> "braced" \in Kinds(Made(s).of) /\ Last(Made(s).of).k \in {"block", "value block"}
      [] x = "capturing" -> s.cap
      [] x = "owner application" -> OwnerApplication(s)
      [] x = "introduces a type" -> IntroducesType(s)
      [] x = "iterates" -> Iterates(s)

RECURSIVE Looks(_, _)
Looks(s, l) ==
    CASE l.c = "peek" -> Here(s).t \in l.ts
      [] l.c = "second" -> At(s, s.pos + 1).t \in l.ts
      [] l.c = "all" -> TRUE
      [] l.c = "not" -> ~Looks(s, l.of[1])
      [] l.c = "both" -> Looks(s, l.of[1]) /\ Looks(s, l.of[2])
      [] l.c = "either" -> Looks(s, l.of[1]) \/ Looks(s, l.of[2])
      [] l.c = "builtin" -> Here(s).t = "@" /\ At(s, s.pos + 1).t = "id" /\ At(s, s.pos + 1).v = l.x
      [] l.c = "pair" -> Here(s).t \in l.ts /\ At(s, s.pos + 1).t \in l.ts /\ Here(s).near
      [] l.c = "is" -> Here(s).t = "id" /\ Here(s).v = l.x
      [] l.c = "has" -> l.x \in Kinds(Top(s))
      [] l.c = "beyond" -> Looks(Moved(s, FirstFrom(s, s.pos, LAMBDA t : t # "nl")), l.of[1])
      [] l.c = "ask" -> Answer(s, l.x)

-----------------------------------------------------------------------------
(* Going on after an error.  Looking at the token before the cursor faults   *)
(* when the cursor has moved beyond the end.                                 *)

Faults(s) == s.pos > Len(s.toks) + 1
AtBoundary(s) == s.pos = 1 \/ At(s, s.pos - 1).t \in {"nl", ";"}
StatementStarts == {"id", "{", "let", "return", "break", "continue", "defer", "if", "match", "for"}
\* Mutant: a declaration that is not public is no place to resume at.
PublicStarts == {"pub", "import", "module"}
TopLevelStarts == {"pub", "let", "import", "module"}
Opening == {"(", "[", "{"}
ClosingTokens == {")", "]", "}"}

RECURSIVE SkipStatement(_, _)
SkipStatement(s, depth) ==
    LET t == Here(s).t
    IN  IF t = "eof" \/ (depth = 0 /\ t = "}") THEN s
        ELSE IF depth = 0 /\ t \in {"nl", ";"} THEN Moved(s, s.pos + 1)
        ELSE SkipStatement(Moved(s, s.pos + 1),
                           IF t \in Opening THEN depth + 1 ELSE IF t \in ClosingTokens /\ depth > 0 THEN depth - 1 ELSE depth)
SynchroniseStatement(s) ==
    LET cleared == [s EXCEPT !.stack = <<>>]
    IN  IF Faults(s) THEN Stopped(s, "crash")
        ELSE IF AtBoundary(s) /\ Here(s).t \in StatementStarts THEN cleared
        ELSE SkipStatement(cleared, 0)

RECURSIVE SkipTopLevel(_, _)
SkipTopLevel(s, depth) ==
    LET t == Here(s).t
    IN  IF t = "eof" \/ (depth = 0 /\ AtBoundary(s) /\ t \in TopLevelStarts) THEN s
        ELSE SkipTopLevel(Moved(s, s.pos + 1), IF t = "{" THEN depth + 1 ELSE IF t = "}" /\ depth > 0 THEN depth - 1 ELSE depth)
SynchroniseTopLevel(s) ==
    IF Faults(s) THEN Stopped(s, "crash") ELSE SkipTopLevel([s EXCEPT !.stack = <<>>], 0)

-----------------------------------------------------------------------------
(* What a production does.                                                   *)

RECURSIVE Run(_, _), InOrder(_, _), RunWhile(_, _)
InOrder(s, gs) == IF gs = <<>> \/ s.ctl # "" THEN s ELSE InOrder(Run(s, Head(gs)), Tail(gs))

(* The nodes that first and of make become one node.                         *)
Make(s, first, kept, g) ==
    LET r == InOrder([s EXCEPT !.frames = Append(Append(Front(@), kept), first)], g.of)
    IN  IF r.ctl \in {"error", "crash"} THEN r
        ELSE [r EXCEPT !.frames = Append(Front(Front(@)), Append(Last(Front(@)), [k |-> g.x, x |-> "", of |-> Last(@)])),
                       !.ctl = IF @ = "return" THEN "" ELSE @]

RunWhile(s, g) ==
    IF ~Looks(s, g.of[1]) THEN s
    ELSE LET r == Run(s, g.of[2])
         IN  CASE r.ctl \in {"", "continue"} -> RunWhile(Stopped(r, ""), g)
               [] r.ctl = "break" -> Stopped(r, "")
               [] OTHER -> r

(* What was tried is kept when it succeeds and look holds after it.          *)
RunTry(s, g) ==
    LET r == Run(IF g.x = "stack" THEN PushPos(s) ELSE s, g.of[1])
        back == CASE g.x = "stack" -> PopPos(r)
                  [] g.x = "copy" -> [r EXCEPT !.pos = s.pos, !.stack = s.stack]
                  [] g.x = "pos" -> Moved(r, s.pos)
    IN  IF r.ctl = "crash" THEN r
        ELSE IF r.ctl # "error" /\ Looks(r, g.of[2]) THEN Run(IF g.x = "stack" THEN CommitPos(r) ELSE r, g.of[3])
        ELSE Run([back EXCEPT !.ctl = "", !.frames = s.frames], g.of[4])

RunUnless(s, g) ==
    LET r == Run(s, g.of[1])
    IN  IF r.ctl = "" /\ Looks(r, g.of[2]) THEN Run([r EXCEPT !.pos = s.pos, !.frames = s.frames], g.of[3]) ELSE r

RunRecover(s, g) ==
    LET r == Run(s, g.of[1])
        resumed == [r EXCEPT !.ctl = "continue", !.frames = s.frames]
    IN  IF r.ctl # "error" THEN r
        ELSE Add(IF g.x = "top" THEN SynchroniseTopLevel(resumed) ELSE SynchroniseStatement(resumed), Leaf("broken", ""))

(* parseWhenCondition: the tokens up to the brace, parsed on their own.      *)
RECURSIVE BodyFrom(_, _, _, _)
BodyFrom(s, i, parens, squares) ==
    LET t == At(s, i).t
        Step(p, q) == BodyFrom(s, i + 1, parens + p, squares + q)
    IN  CASE t = "eof" \/ (t = "{" /\ parens = 0 /\ squares = 0) -> i
          [] t = "(" -> Step(1, 0) [] t = ")" -> Step(-1, 0)
          [] t = "[" -> Step(0, 1) [] t = "]" -> Step(0, -1)
          [] OTHER -> Step(0, 0)
WholeExpression == All(<<Lines, Expression, Lines, Need(Peek({"eof"}))>>)
Condition(s) ==
    LET brace == BodyFrom(s, s.pos, 0, 0)
        tokens == SelectSeq(SubSeq(s.toks, s.pos, brace - 1), LAMBDA tok : tok.t # "nl")
        r == Run(NewParser(Append(tokens, Eof)), WholeExpression)
    IN  IF At(s, brace).t = "eof" \/ tokens = <<>> THEN Stopped(Moved(s, brace), "error")
        ELSE IF r.ctl # "" THEN Stopped(Moved(s, brace), r.ctl)
        ELSE Add(Moved(s, brace), Made(r))

Perform(s, x) ==
    CASE x = "push" -> PushPos(s)
      [] x = "pop" -> PopPos(s)
      [] x = "condition" -> Condition(s)

(* Consume moves on whether or not the token is the expected one.            *)
Consume(s, g, kept) ==
    LET tok == Here(s)
        next == Moved(s, s.pos + 1)
    IN  IF tok.t \notin g.ts THEN Stopped(next, "error")
        ELSE IF kept THEN Add(next, Leaf(tok.t, tok.v)) ELSE next

Run(s, g) ==
    CASE g.c = "all" -> InOrder(s, g.of)
      [] g.c = "if" -> Run(s, IF Looks(s, g.of[1]) THEN g.of[2] ELSE g.of[3])
      [] g.c = "rule" -> Run(s, Grammar[g.x])
      [] g.c = "while" -> RunWhile(s, g)
      [] g.c = "tok" -> Consume(s, g, FALSE)
      [] g.c = "word" -> Consume(s, g, TRUE)
      [] g.c = "take" -> Moved(s, s.pos + 1)
      [] g.c = "skip" -> Moved(s, IF Here(s).t \in g.ts THEN FirstFrom(s, s.pos, LAMBDA t : t \notin g.ts) ELSE s.pos)
      [] g.c \in {"break", "continue", "return"} -> Stopped(s, g.c)
      [] g.c = "fail" -> Stopped(s, "error")
      [] g.c = "mark" -> Add(s, Leaf(g.x, ""))
      [] g.c = "node" -> Make(s, <<>>, Top(s), g)
      [] g.c = "wrap" -> Make(s, <<Made(s)>>, Earlier(s), g)
      [] g.c = "try" -> RunTry(s, g)
      [] g.c = "unless" -> RunUnless(s, g)
      [] g.c = "recover" -> RunRecover(s, g)
      [] g.c = "restored" -> LET r == Run(s, g.of[1]) IN IF r.ctl = "error" THEN [s EXCEPT !.ctl = "error"] ELSE r
      [] g.c = "capturing" -> [Run([s EXCEPT !.cap = TRUE], g.of[1]) EXCEPT !.cap = s.cap]
      [] g.c = "do" -> Perform(s, g.x)

-----------------------------------------------------------------------------
(* header.go: what source discovery reads from the tokens alone.             *)

NoHeader == [ok |-> FALSE, module |-> <<>>, imports |-> <<>>]

(* The path that starts at i, and where it ends; none when end is 0.         *)
RECURSIVE ScanPath(_, _)
ScanPath(s, i) ==
    IF At(s, i).t # "id" THEN [path |-> <<>>, end |-> 0]
    ELSE IF At(s, i + 1).t # "." THEN [path |-> <<At(s, i).v>>, end |-> i + 1]
    ELSE LET rest == ScanPath(s, i + 2) IN [rest EXCEPT !.path = <<At(s, i).v>> \o @]

\* Mutant: the alias is left to the next import.
ImportedPlain(s, path) == [import |-> [path |-> path.path, alias |-> ""], end |-> path.end]
Imported(s, path) ==
    IF At(s, path.end).t = "id" THEN [import |-> [path |-> path.path, alias |-> At(s, path.end).v], end |-> path.end + 1]
    ELSE [import |-> [path |-> path.path, alias |-> ""], end |-> path.end]

RECURSIVE ScanImports(_, _, _, _)
ScanImports(s, i, grouped, found) ==
    LET from == FirstFrom(s, i, LAMBDA t : t \notin {"nl", ","})
        path == ScanPath(s, from)
        one == Imported(s, path)
        next == FirstFrom(s, one.end, LAMBDA t : t \in {",", "nl", ")"})
    IN  IF i > Len(s.toks) THEN [found |-> found, end |-> i]
        ELSE IF grouped /\ At(s, from).t = ")" THEN [found |-> found, end |-> from + 1]
        ELSE IF path.end = 0 THEN [found |-> found, end |-> 0]
        ELSE IF grouped THEN ScanImports(s, next, TRUE, Append(found, one.import))
        ELSE [found |-> Append(found, one.import), end |-> one.end]

RECURSIVE ScanHeader(_, _, _)
ScanHeader(s, i, header) ==
    LET keyword == FirstFrom(s, i, LAMBDA t : t \in {"module", "import"})
        path == ScanPath(s, keyword + 1)
        open == FirstFrom(s, keyword + 1, LAMBDA t : t # "nl")
        grouped == At(s, open).t = "("
        imports == ScanImports(s, IF grouped THEN open + 1 ELSE open, grouped, <<>>)
    IN  IF keyword > Len(s.toks) THEN header
        ELSE IF At(s, keyword).t = "import"
        THEN IF imports.end = 0 THEN NoHeader
             ELSE ScanHeader(s, imports.end, [header EXCEPT !.imports = @ \o imports.found])
        ELSE IF header.module # <<>> THEN ScanHeader(s, keyword + 1, header)
        ELSE IF path.end = 0 THEN NoHeader
        ELSE ScanHeader(s, keyword + 1, [header EXCEPT !.module = path.path])
ScanSourceHeader(toks) == ScanHeader(NewParser(toks), 1, [NoHeader EXCEPT !.ok = TRUE])

-----------------------------------------------------------------------------
(* Parse.                                                                    *)

Cursor ==
    LET p == NewParser(file)
    IN  [p EXCEPT !.pos = FirstFrom(p, pos, LAMBDA t : t \notin {"nl", ";"}), !.stack = posStack]
Parsed == Run(Cursor, Rule("top level"))
Ended == Here(Cursor).t = "eof"

Init ==
    /\ file \in Files
    /\ pos = 1 /\ posStack = <<>>
    /\ body = <<>> /\ errors = 0 /\ status = "parsing"

Goto(s) ==
    /\ pos' = s.pos /\ posStack' = s.stack
    /\ status' = IF s.ctl = "crash" THEN "crashed" ELSE "parsing"
    /\ UNCHANGED file

(* A declaration, with what ends it.                                         *)
Declare(r) ==
    /\ r.ctl = "" /\ Here(r).t \in {"eof", "nl", ";"}
    /\ body' = Append(body, Made(r))
    /\ Goto(r)
    /\ UNCHANGED errors

(* An error, and the way to the next declaration; a declaration that only    *)
(* lacks its end is kept.                                                    *)
Report(r) ==
    /\ r.ctl # "" \/ Here(r).t \notin {"eof", "nl", ";"}
    /\ errors' = errors + 1
    /\ body' = IF r.ctl = "" THEN Append(body, Made(r)) ELSE body
    /\ Goto(IF r.ctl = "crash" THEN r ELSE SynchroniseTopLevel(Stopped(r, "")))

Finish ==
    /\ status = "parsing" /\ Ended
    /\ status' = "done"
    /\ pos' = Cursor.pos
    /\ UNCHANGED <<file, posStack, body, errors>>

ParseTopLevel ==
    /\ status = "parsing" /\ ~Ended
    /\ LET r == Parsed IN Declare(r) \/ Report(r)

Next == ParseTopLevel \/ Finish
Spec == Init /\ [][Next]_vars /\ WF_vars(Next)
=============================================================================
