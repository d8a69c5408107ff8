--------------------------- MODULE SpecializeLinks ---------------------------
(***************************************************************************)
(* The units replace the instances: theorems about what calls mean when    *)
(* extraction has ended, for every program without the cases in which the  *)
(* loader goes wrong (Replaceable).                                        *)
(***************************************************************************)
EXTENDS SpecializeProofs

-----------------------------------------------------------------------------
(* Renaming.                                                                *)

\* The bare name of a function, without arguments.
LEMMA BareName ==
    ASSUME NEW id \in Identifier
    PROVE  /\ MangleFunctionName(id, <<>>) = <<id.module>> \o id.words
           /\ MangleFunctionName(id, <<>>) \in Name
<1>1. id.module \in Word /\ id.words \in Name
  BY DEF Identifier
<1>2. \A w \in Word : <<w>> \in Seq(Word)
  OBVIOUS
<1>3. <<id.module>> \in Name
  BY <1>1, <1>2 DEF Name
<1>4. <<id.module>> \o id.words \in Name
  BY <1>1, <1>3, NameConcat
<1>5. (<<id.module>> \o id.words) \o <<>> = <<id.module>> \o id.words
  BY <1>4, ConcatEmptySeq DEF Name
<1>. QED
  BY <1>4, <1>5 DEF MangleFunctionName

\* A name with arguments is longer than the bare one, and goes on with a "$".
LEMMA InstanceName ==
    ASSUME NEW id \in Identifier, NEW args \in Seq(Type), args # <<>>, NEW w \in Name,
           w # <<>> => w[1] # "$"
    PROVE  ~IsPrefixOf(MangleFunctionName(id, args), MangleFunctionName(id, <<>>) \o w)
<1> DEFINE base == MangleFunctionName(id, <<>>)
           rest == <<"$">> \o [i \in DOMAIN args |-> args[i].name]
<1>1. base \in Name /\ base = <<id.module>> \o id.words
  BY BareName
<1>2. \A x \in Word : <<x>> \in Seq(Word)
  OBVIOUS
<1>3. <<"$">> \in Name /\ [i \in DOMAIN args |-> args[i].name] \in Name
  BY <1>2, TypeAssumption, ArgumentNames DEF Name
<1>4. rest \in Name /\ Len(rest) >= 1 /\ rest[1] = "$"
  <2>1. /\ rest \in Seq(Word) /\ Len(rest) = Len(<<"$">>) + Len([i \in DOMAIN args |-> args[i].name])
        /\ \A i \in 1..Len(<<"$">>) + Len([j \in DOMAIN args |-> args[j].name]) :
              rest[i] = IF i <= Len(<<"$">>) THEN <<"$">>[i]
                        ELSE [j \in DOMAIN args |-> args[j].name][i - Len(<<"$">>)]
    BY <1>3, ConcatProperties DEF Name
  <2>2. Len(<<"$">>) = 1 /\ <<"$">>[1] = "$" /\ Len([j \in DOMAIN args |-> args[j].name]) \in Nat
    BY <1>3 DEF Name
  <2>. HIDE DEF rest
  <2>. QED
    BY <2>1, <2>2 DEF Name
<1>5. MangleFunctionName(id, args) = base \o rest
  BY <1>1 DEF MangleFunctionName
<1>. HIDE DEF base, rest
<1>6. Len(base) \in Nat /\ Len(rest) \in Nat /\ Len(w) \in Nat
  BY <1>1, <1>4 DEF Name
<1>7. /\ Len(base \o rest) = Len(base) + Len(rest) /\ (base \o rest)[Len(base) + 1] = rest[1]
      /\ Len(base) + 1 \in DOMAIN (base \o rest)
  <2>1. /\ base \o rest \in Seq(Word) /\ Len(base \o rest) = Len(base) + Len(rest)
        /\ \A i \in 1..Len(base) + Len(rest) :
              (base \o rest)[i] = IF i <= Len(base) THEN base[i] ELSE rest[i - Len(base)]
    BY <1>1, <1>4, ConcatProperties DEF Name
  <2>2. Len(base) + 1 \in 1..Len(base) + Len(rest) /\ ~(Len(base) + 1 <= Len(base))
        /\ (Len(base) + 1) - Len(base) = 1
    BY <1>4, <1>6
  <2>3. DOMAIN (base \o rest) = 1..Len(base \o rest)
    BY <2>1
  <2>. QED
    BY <2>1, <2>2, <2>3
<1>8. /\ Len(base \o w) = Len(base) + Len(w)
      /\ w # <<>> => (base \o w)[Len(base) + 1] = w[1]
  <2>1. /\ base \o w \in Seq(Word) /\ Len(base \o w) = Len(base) + Len(w)
        /\ \A i \in 1..Len(base) + Len(w) :
              (base \o w)[i] = IF i <= Len(base) THEN base[i] ELSE w[i - Len(base)]
    BY <1>1, ConcatProperties DEF Name
  <2>2. w # <<>> => Len(w) >= 1
    BY <1>6 DEF Name
  <2>3. Len(w) >= 1 => /\ Len(base) + 1 \in 1..Len(base) + Len(w) /\ ~(Len(base) + 1 <= Len(base))
                       /\ (Len(base) + 1) - Len(base) = 1
    BY <1>6
  <2>. QED
    BY <2>1, <2>2, <2>3
<1>9. ASSUME IsPrefixOf(base \o rest, base \o w)  PROVE FALSE
  <2>1. Len(base) + Len(rest) <= Len(base) + Len(w)
        /\ (base \o rest)[Len(base) + 1] = (base \o w)[Len(base) + 1]
    BY <1>7, <1>8, <1>9 DEF IsPrefixOf
  <2>2. w # <<>>
    BY <1>4, <1>6, <2>1
  <2>. QED
    BY <1>4, <1>7, <1>8, <2>1, <2>2
<1>. QED
  BY <1>5, <1>9 DEF base

LEMMA NamePrefix ==
    ASSUME NEW a \in Name, NEW w \in Name
    PROVE  IsPrefixOf(a, a \o w)
<1>1. /\ Len(a \o w) = Len(a) + Len(w)
      /\ \A i \in 1..Len(a) + Len(w) : (a \o w)[i] = IF i <= Len(a) THEN a[i] ELSE w[i - Len(a)]
  BY ConcatProperties DEF Name
<1>2. Len(a) \in Nat /\ Len(w) \in Nat /\ DOMAIN a = 1..Len(a)
  BY DEF Name
<1>3. \A i \in DOMAIN a : i \in 1..Len(a) + Len(w) /\ i <= Len(a)
  BY <1>2
<1>. QED
  BY <1>1, <1>2, <1>3 DEF IsPrefixOf

\* A name that has its arguments is left alone.
LEMMA RenamedOnce ==
    ASSUME NEW old \in Name, NEW new \in Name, NEW w \in Name
    PROVE  /\ Rename(new \o w, old, new) = new \o w
           /\ ~IsPrefixOf(new, old \o w) => Rename(old \o w, old, new) = new \o w
<1>1. IsPrefixOf(new, new \o w) /\ IsPrefixOf(old, old \o w)
  BY NamePrefix
<1>2. SubSeq(old \o w, Len(old) + 1, Len(old \o w)) = w
  <2>1. Len(old \o w) = Len(old) + Len(w)
    BY ConcatProperties DEF Name
  <2>. QED
    BY <2>1, SubSeqOfConcat2 DEF Name
<1>. QED
  BY <1>1, <1>2 DEF Rename

\* A template's parameters are instantiated by the arguments.
LEMMA OwnArguments ==
    ASSUME NEW params \in Seq(Parameter), NEW args \in Seq(Type), Len(args) = Len(params),
           \A i, j \in DOMAIN params : params[i] = params[j] => i = j
    PROVE  Substitute(params, args, params) = args
<1>1. DOMAIN params = 1..Len(params) /\ DOMAIN args = DOMAIN params
  OBVIOUS
<1>2. ASSUME NEW i \in DOMAIN params  PROVE Bind(params, args, params[i]) = args[i]
  <2>1. (CHOOSE j \in DOMAIN params : params[j] = params[i]) = i
    OBVIOUS
  <2>. QED
    BY <2>1 DEF Bind
<1>3. args = [i \in DOMAIN params |-> args[i]]
  BY <1>1
<1>. QED
  BY <1>2, <1>3 DEF Substitute

-----------------------------------------------------------------------------
(* An instance and the unit that replaces it.                               *)

\* A site of the program, and what a template's instance and unit make of a use.
Given(k) ==
    LET use == program.sites[k].use
        in == program.sites[k].in
    IN  Site(ModuleObject(in), MangleFunctionName(in, <<>>), use, use.args,
             MangleFunctionName(use.to, use.args) \o use.suffix)
UsesOf(r) == TemplateOf(r[1]).uses
Instance(r, j) == InstanceSite(TemplateOf(r[1]), r[2], UsesOf(r)[j])
Unit(r, j) == UnitSite(TemplateOf(r[1]), r[2], UsesOf(r)[j])
Actual(r, j) == Substitute(TemplateOf(r[1]).params, r[2], UsesOf(r)[j].args)

LEMMA ReplaceableFacts ==
    ASSUME program \in Program, Replaceable(program), NEW r \in Concrete
    PROVE  /\ PlainTemplate(TemplateOf(r[1])) /\ TemplateOf(r[1]) \in program.templates
           /\ TemplateOf(r[1]).id = r[1] /\ r[1] \in Identifier
           /\ TemplateOf(r[1]).params \in Seq(Parameter) /\ TemplateOf(r[1]).wrappers \subseteq Name
           /\ r[2] \in Seq(Type) /\ Len(r[2]) = Len(TemplateOf(r[1]).params) /\ r[2] # <<>>
           /\ \A j \in DOMAIN UsesOf(r) : PlainUse(program, TemplateOf(r[1]), UsesOf(r)[j])
<1>1. /\ r[2] \in Seq(Type) /\ r[1] \in TemplateIds
      /\ TemplateOf(r[1]) \in program.templates /\ TemplateOf(r[1]).id = r[1]
      /\ Len(r[2]) = Len(TemplateOf(r[1]).params)
  BY RequestFacts
<1>2. TemplateOf(r[1]) \in Template
  BY <1>1, ProgramAssumption DEF Programs
<1>3. PlainTemplate(TemplateOf(r[1]))
      /\ \A j \in DOMAIN UsesOf(r) : PlainUse(program, TemplateOf(r[1]), UsesOf(r)[j])
  BY <1>1 DEF Replaceable, UsesOf
<1>4. r[2] # <<>>
  <2>1. TemplateOf(r[1]).params # <<>> /\ TemplateOf(r[1]).params \in Seq(Parameter)
    BY <1>2, <1>3 DEF PlainTemplate, Template
  <2>2. Len(TemplateOf(r[1]).params) # 0
    BY <2>1
  <2>. QED
    BY <1>1, <2>2
<1>. QED
  BY <1>1, <1>2, <1>3, <1>4 DEF Template

LEMMA InstanceFields ==
    ASSUME program \in Program, NEW r \in Concrete, NEW j \in DOMAIN UsesOf(r)
    PROVE  /\ UsesOf(r)[j] \in Use
           /\ Actual(r, j) \in Seq(Type) /\ Len(Actual(r, j)) = Len(UsesOf(r)[j].args)
           /\ Instance(r, j).object = ModuleObject(r[1])
           /\ Instance(r, j).home = MangleFunctionName(r[1], r[2]) \o UsesOf(r)[j].home
           /\ UsesOf(r)[j].kind = "require" =>
                 LET target == Conforming(Actual(r, j), UsesOf(r)[j].to.words)
                 IN  /\ Instance(r, j).kind = "call"
                     /\ Instance(r, j).to = target.to /\ Instance(r, j).args = target.args
                     /\ Instance(r, j).name = MangleFunctionName(target.to, target.args) \o UsesOf(r)[j].suffix
           /\ UsesOf(r)[j].kind # "require" =>
                 /\ Instance(r, j).kind = UsesOf(r)[j].kind
                 /\ Instance(r, j).to = UsesOf(r)[j].to
                 /\ Instance(r, j).args = Actual(r, j)
                 /\ Instance(r, j).name = MangleFunctionName(UsesOf(r)[j].to, Actual(r, j)) \o UsesOf(r)[j].suffix
                 /\ Fits(program, UsesOf(r)[j].to, Actual(r, j))
<1> DEFINE t == TemplateOf(r[1])
           use == UsesOf(r)[j]
<1>1. /\ t \in program.templates /\ t.id = r[1] /\ r[2] \in Seq(Type) /\ Len(r[2]) = Len(t.params)
      /\ use = t.uses[j] /\ j \in DOMAIN t.uses
  BY RequestFacts DEF UsesOf
<1>2. /\ use \in Use /\ t \in Template
      /\ use.args \in Seq(Type \cup {t.params[i] : i \in DOMAIN t.params})
      /\ use.kind # "require" => Fits(program, use.to, use.args)
  <2>1. /\ t \in Template /\ t.uses[j] \in Use
        /\ t.uses[j].args \in Seq(Type \cup {t.params[i] : i \in DOMAIN t.params})
        /\ t.uses[j].kind # "require" => Fits(program, t.uses[j].to, t.uses[j].args)
    BY <1>1, UseFacts
  <2>. QED
    BY <1>1, <2>1
<1>3. Actual(r, j) = Substitute(t.params, r[2], use.args) /\ Instance(r, j) = InstanceSite(t, r[2], use)
  BY DEF Actual, Instance
<1>10. use = UsesOf(r)[j]
  OBVIOUS
<1>. HIDE DEF t, use
<1>4. Actual(r, j) \in Seq(Type) /\ Len(Actual(r, j)) = Len(use.args)
  <2>1. t.params \in Seq(Parameter)
    BY <1>2 DEF Template
  <2>. QED
    BY <1>1, <1>2, <1>3, <2>1, SubstituteFacts
<1>5. use.kind # "require" => Fits(program, use.to, Actual(r, j))
  BY <1>2, <1>4 DEF Fits
<1> DEFINE kind == IF use.kind = "require" THEN "call" ELSE use.kind
           actual == Substitute(t.params, r[2], use.args)
           target == IF use.kind = "require" THEN Conforming(actual, use.to.words)
                     ELSE [to |-> use.to, args |-> actual]
           object == ModuleObject(t.id)
           home == MangleFunctionName(t.id, r[2]) \o use.home
           name == MangleFunctionName(target.to, target.args) \o use.suffix
           site == InstanceSite(t, r[2], use)
<1>7. site = [object |-> object, home |-> home, kind |-> kind, to |-> target.to, args |-> target.args, name |-> name]
  <2>. HIDE DEF t, use
  <2>1. use \in Use
    BY <1>2
  <2>2. use = [home |-> use.home, kind |-> use.kind, to |-> use.to, args |-> use.args, suffix |-> use.suffix]
    BY <2>1 DEF Use
  <2>. QED
    BY <2>2 DEF InstanceSite, Site
<1>8. /\ site.object = object /\ site.home = home /\ site.kind = kind
      /\ site.to = target.to /\ site.args = target.args /\ site.name = name
  <2>. HIDE DEF object, home, kind, target, name, site
  <2>. QED
    BY <1>7
<1>11. /\ object = ModuleObject(r[1]) /\ home = MangleFunctionName(r[1], r[2]) \o use.home
  BY <1>1
<1>12. site = Instance(r, j)
  BY <1>3
<1>13. name = MangleFunctionName(target.to, target.args) \o use.suffix
  OBVIOUS
<1>14. /\ use.kind = "require" => kind = "call"
       /\ use.kind # "require" => kind = use.kind
  OBVIOUS
<1>9. /\ use.kind = "require" => target = Conforming(Actual(r, j), use.to.words)
      /\ use.kind # "require" => target.to = use.to /\ target.args = Actual(r, j)
  BY <1>3
<1>. HIDE DEF object, home, kind, target, name, site
<1>15. /\ use.kind = "require" => name = LET made == Conforming(Actual(r, j), use.to.words)
                                         IN  MangleFunctionName(made.to, made.args) \o use.suffix
       /\ use.kind # "require" => name = MangleFunctionName(use.to, Actual(r, j)) \o use.suffix
  BY <1>9, <1>13
<1>. QED
  BY <1>2, <1>4, <1>5, <1>8, <1>9, <1>10, <1>11, <1>12, <1>14, <1>15

LEMMA UnitFields ==
    ASSUME program \in Program, NEW r \in Concrete, NEW j \in DOMAIN UsesOf(r)
    PROVE  /\ Unit(r, j).object = r
           /\ Unit(r, j).home = MangleFunctionName(r[1], r[2]) \o UsesOf(r)[j].home
           /\ Unit(r, j).kind = UsesOf(r)[j].kind
           /\ Unit(r, j).to = UsesOf(r)[j].to /\ Unit(r, j).args = Actual(r, j)
           /\ Unit(r, j).name =
                 IF UsesOf(r)[j].kind = "address"
                 THEN MangleFunctionName(UsesOf(r)[j].to, <<>>) \o UsesOf(r)[j].suffix
                 ELSE Rename(MangleFunctionName(UsesOf(r)[j].to, <<>>) \o UsesOf(r)[j].suffix,
                             MangleFunctionName(r[1], <<>>), MangleFunctionName(r[1], r[2]))
<1>1. TemplateOf(r[1]).id = r[1] /\ <<r[1], r[2]>> = r
  BY RequestFacts
<1>. QED
  BY <1>1 DEF Unit, UnitSite, Site, Actual

\* A wrapper's direct call of its template's function has the same arguments.
LEMMA DirectCalls ==
    ASSUME program \in Program, Replaceable(program), NEW r \in Concrete, NEW j \in DOMAIN UsesOf(r),
           UsesOf(r)[j].kind = "direct", IsTemplate(program, UsesOf(r)[j].to)
    PROVE  <<UsesOf(r)[j].to, Actual(r, j)>> = r
<1> DEFINE use == UsesOf(r)[j]
           t == TemplateOf(r[1])
           base == MangleFunctionName(t.id, <<>>)
           suffix == use.suffix
<1>1. /\ t.id = r[1] /\ r[1] \in Identifier /\ r[2] \in Seq(Type) /\ t.params \in Seq(Parameter)
      /\ Len(r[2]) = Len(t.params) /\ PlainTemplate(t) /\ PlainUse(program, t, use)
  BY ReplaceableFacts
<1>2. use.to = t.id
  BY <1>1 DEF PlainUse
<1>3. base \in Name /\ suffix \in Name
  BY <1>1, InstanceFields, BareName DEF Use
<1>4. IsPrefixOf(base, base \o suffix)
  BY <1>3, NamePrefix
<1>5. use.args = t.params
  BY <1>1, <1>2, <1>4 DEF PlainUse
<1>6. Actual(r, j) = r[2]
  <2>1. Actual(r, j) = Substitute(t.params, r[2], t.params)
    BY <1>5 DEF Actual
  <2>. QED
    BY <1>1, <2>1, OwnArguments DEF PlainTemplate
<1>7. r = <<r[1], r[2]>>
  BY RequestFacts
<1>. QED
  BY <1>1, <1>2, <1>6, <1>7

\* What template uses is meant by a suffix.
LEMMA SuffixFacts ==
    ASSUME program \in Program, Replaceable(program), NEW suffix, NEW id, BelongsTo(program, suffix, id)
    PROVE  suffix \in Name /\ (suffix # <<>> => suffix[1] # "$")
<1>1. PICK t \in program.templates : t.id = id /\ suffix \in Own(t)
  BY DEF BelongsTo
<1>2. t \in Template /\ PlainTemplate(t)
  BY <1>1, ProgramAssumption DEF Programs, Replaceable
<1>3. t.wrappers \subseteq Name /\ <<>> \in Name
  BY <1>2 DEF Template, Name
<1>. QED
  BY <1>1, <1>2, <1>3 DEF Own, PlainTemplate

\* What a unit refers to in the end has the name that the instance refers to.
LEMMA UnitNames ==
    ASSUME program \in Program, Replaceable(program), NEW r \in Concrete, NEW j \in DOMAIN UsesOf(r),
           UsesOf(r)[j].kind # "require"
    PROVE  IF UsesOf(r)[j].kind = "call" /\ UsesOf(r)[j].to \in TemplateIds
           THEN RequestedName(Unit(r, j)) = Instance(r, j).name
           ELSE Unit(r, j).name = Instance(r, j).name
<1> DEFINE use == UsesOf(r)[j]
           t == TemplateOf(r[1])
           to == use.to
           suffix == use.suffix
           actual == Actual(r, j)
           base == MangleFunctionName(r[1], <<>>)
           specialized == MangleFunctionName(r[1], r[2])
           bare == MangleFunctionName(to, <<>>)
           full == MangleFunctionName(to, actual)
<1>1. /\ t.id = r[1] /\ r[1] \in Identifier /\ r[2] \in Seq(Type) /\ r[2] # <<>>
      /\ t.params \in Seq(Parameter) /\ Len(r[2]) = Len(t.params) /\ PlainTemplate(t)
      /\ PlainUse(program, t, use) /\ t \in program.templates
  BY ReplaceableFacts
<1>2. /\ use \in Use /\ actual \in Seq(Type) /\ Fits(program, to, actual)
      /\ Instance(r, j).name = full \o suffix
  BY InstanceFields
<1>3. /\ Unit(r, j).to = to /\ Unit(r, j).args = actual
      /\ Unit(r, j).name = IF use.kind = "address" THEN bare \o suffix
                           ELSE Rename(bare \o suffix, base, specialized)
  BY UnitFields
<1>4. to \in Identifier /\ suffix \in Name /\ use.kind \in {"call", "direct", "address"}
  BY <1>2 DEF Use
<1>5. <<>> \in Seq(Type)
  OBVIOUS
<1>6. base \in Name /\ specialized \in Name /\ bare \in Name /\ full \in Name
  BY <1>1, <1>2, <1>4, <1>5, MangleType
<1>7. to \in TemplateIds <=> IsTemplate(program, to)
  BY DEF TemplateIds, IsTemplate
<1>8. ASSUME to \in TemplateIds
      PROVE  /\ use.kind # "address" /\ actual # <<>>
             /\ ~IsPrefixOf(full, bare \o suffix)
  <2>1. use.kind # "address" /\ BelongsTo(program, suffix, to)
    BY <1>1, <1>7, <1>8 DEF PlainUse
  <2>2. suffix # <<>> => suffix[1] # "$"
    BY <2>1, SuffixFacts
  <2>3. <<to, actual>> \in Concrete
    BY <1>2, <1>8, FitsTemplate
  <2>4. actual # <<>>
    BY <2>3, ReplaceableFacts
  <2>. QED
    BY <1>2, <1>4, <2>1, <2>2, <2>4, InstanceName
<1>9. ASSUME to \notin TemplateIds
      PROVE  full = bare
  BY <1>2, <1>9 DEF Fits, TemplateIds
<1>10. ASSUME use.kind # "address", to = t.id, use.args = t.params
       PROVE  to \in TemplateIds /\ actual = r[2] /\ bare = base /\ full = specialized
              /\ Unit(r, j).name = full \o suffix
  <2>1. to \in TemplateIds
    BY <1>1, <1>10 DEF TemplateIds
  <2>2. actual = r[2]
    <3>1. actual = Substitute(t.params, r[2], t.params)
      BY <1>10 DEF Actual
    <3>. QED
      BY <1>1, <3>1, OwnArguments DEF PlainTemplate
  <2>3. bare = base /\ full = specialized
    BY <1>1, <1>10, <2>2
  <2>4. Unit(r, j).name = Rename(base \o suffix, base, specialized)
    BY <1>3, <1>10, <2>3
  <2>5. ~IsPrefixOf(specialized, base \o suffix)
    BY <1>8, <2>1, <2>3
  <2>. HIDE DEF base, specialized, bare, full, suffix
  <2>. QED
    BY <1>4, <1>6, <2>1, <2>2, <2>3, <2>4, <2>5, RenamedOnce
<1>11. ASSUME ~(to = t.id /\ use.args = t.params)
       PROVE  Unit(r, j).name = bare \o suffix
  <2>1. CASE use.kind = "address"
    BY <1>3, <2>1
  <2>2. CASE use.kind # "address"
    <3>1. ~IsPrefixOf(base, bare \o suffix)
      BY <1>1, <1>4, <1>11, <2>2 DEF PlainUse
    <3>. HIDE DEF base, specialized, bare, full, suffix
    <3>. QED
      BY <1>3, <2>2, <3>1 DEF Rename
  <2>. QED
    BY <2>1, <2>2
<1>12. RequestedName(Unit(r, j)) = Rename(Unit(r, j).name, bare, full)
  BY <1>3 DEF RequestedName
<1>. HIDE DEF base, specialized, bare, full, suffix, actual
<1>13. /\ Rename(full \o suffix, bare, full) = full \o suffix
       /\ ~IsPrefixOf(full, bare \o suffix) => Rename(bare \o suffix, bare, full) = full \o suffix
  BY <1>4, <1>6, RenamedOnce
<1>14. CASE use.kind = "call" /\ to \in TemplateIds
  <2>1. CASE to = t.id /\ use.args = t.params
    <3>1. Unit(r, j).name = full \o suffix
      BY <1>10, <1>14, <2>1
    <3>. QED
      BY <1>2, <1>12, <1>13, <3>1
  <2>2. CASE ~(to = t.id /\ use.args = t.params)
    <3>1. Unit(r, j).name = bare \o suffix
      BY <1>11, <2>2
    <3>2. ~IsPrefixOf(full, bare \o suffix)
      BY <1>8, <1>14
    <3>. QED
      <4>1. RequestedName(Unit(r, j)) = Rename(bare \o suffix, bare, full)
        BY <1>12, <3>1
      <4>. QED
        BY <1>2, <1>13, <1>14, <3>2, <4>1
  <2>. QED
    BY <1>14, <1>2, <2>1, <2>2
<1>15. CASE ~(use.kind = "call" /\ to \in TemplateIds)
  <2>1. CASE to = t.id /\ use.args = t.params
    <3>1. use.kind # "address"
      BY <1>1, <1>8, <2>1 DEF TemplateIds
    <3>. QED
      BY <1>2, <1>10, <1>15, <2>1, <3>1
  <2>2. CASE ~(to = t.id /\ use.args = t.params)
    <3>1. to \notin TemplateIds
      <4>1. SUFFICES ASSUME to \in TemplateIds PROVE FALSE
        OBVIOUS
      <4>2. use.kind = "direct"
        BY <1>4, <1>8, <1>15, <4>1
      <4>3. to = t.id
        BY <1>1, <1>7, <4>1, <4>2 DEF PlainUse
      <4>4. IsPrefixOf(base, base \o suffix)
        BY <1>4, <1>6, NamePrefix
      <4>5. bare = base
        BY <1>1, <4>3 DEF bare, base
      <4>6. ~IsPrefixOf(base, bare \o suffix)
        BY <1>1, <2>2, <4>2 DEF PlainUse, base, bare, suffix
      <4>. QED
        BY <4>4, <4>5, <4>6
    <3>. QED
      BY <1>2, <1>9, <1>11, <1>15, <2>2, <3>1
  <2>. QED
    BY <1>15, <2>1, <2>2
<1>. QED
  BY <1>14, <1>15

LEMMA OneArgument ==
    ASSUME NEW S, NEW args \in Seq(S), Len(args) = 1
    PROVE  1 \in DOMAIN args /\ Head(args) = args[1] /\ Tail(args) = <<>>
<1>1. DOMAIN args = 1..Len(args)
  OBVIOUS
<1>2. 1 \in DOMAIN args
  BY <1>1
<1>3. args # <<>>
  OBVIOUS
<1>4. Head(args) = args[1] 
  BY <1>3
<1>5. /\ Tail(args) \in Seq(S)
  BY <1>3, HeadTailProperties
<1>6. /\ Len(Tail(args)) = 0
  BY <1>3, HeadTailProperties
<1>. QED
  BY <1>2, <1>4, <1>5, <1>6, EmptySeq

\* A type that is no string has the same methods for the analysis and the loader.
LEMMA RequireNames ==
    ASSUME program \in Program, Replaceable(program), NEW r \in Concrete, NEW j \in DOMAIN UsesOf(r),
           UsesOf(r)[j].kind = "require", ~IsGeneric(Unit(r, j)),
           \A i \in DOMAIN Actual(r, j) : Actual(r, j)[i] \in Written(program),
           NEW m \in MethodTargets(Unit(r, j))
    PROVE  /\ Len(UsesOf(r)[j].args) = 1
           /\ MangleFunctionName(m, <<>>) = Instance(r, j).name
           /\ \E n \in program.methods : n.to = m /\ n.require = UsesOf(r)[j].to.words
<1> DEFINE use == UsesOf(r)[j]
           actual == Actual(r, j)
           type == actual[1]
<1>1. /\ use \in Use /\ actual \in Seq(Type) /\ Len(actual) = Len(use.args)
      /\ LET target == Conforming(actual, use.to.words)
         IN  Instance(r, j).name = MangleFunctionName(target.to, target.args) \o use.suffix
  BY InstanceFields
<1>2. Unit(r, j).kind = "require" /\ Unit(r, j).to = use.to /\ Unit(r, j).args = actual
  BY UnitFields
<1>3. Len(use.args) = 1
  <2>1. use.args # <<>> /\ use.args \in Seq(Type \cup {TemplateOf(r[1]).params[i] : i \in DOMAIN TemplateOf(r[1]).params})
    <3>1. TemplateOf(r[1]) \in program.templates
      BY ReplaceableFacts
    <3>. QED
      BY <3>1, UseFacts DEF UsesOf
  <2>2. Len(use.args) \in Nat /\ Len(use.args) # 0
    BY <2>1
  <2>3. ~(Len(use.args) > 1)
    BY <1>1, <1>2 DEF IsGeneric
  <2> DEFINE n == Len(use.args)
  <2>4. n \in Nat /\ n # 0 /\ ~(n > 1)
    BY <2>2, <2>3
  <2>. HIDE DEF n
  <2>5. n = 1
    BY <2>4
  <2>. QED
    BY <2>5 DEF n
<1>4. /\ 1 \in DOMAIN actual /\ Head(actual) = type /\ Tail(actual) = <<>>
  <2>1. actual \in Seq(Type) /\ Len(actual) = 1
    BY <1>1, <1>3
  <2>. QED
    BY <2>1, OneArgument
<1>5. type.kind \notin {"str", "cstr"}
  BY <1>4 DEF Replaceable
<1>6. methodOwnerIdentity(type) = type.owner /\ concreteTypeIdentity(type) = type.owner
  BY <1>5 DEF methodOwnerIdentity, concreteTypeIdentity
<1>7. PICK n \in program.methods : n.to = m /\ n.owner = type.owner /\ n.require = use.to.words
  BY <1>2, <1>6 DEF MethodTargets
<1>8. n \in Declared(program, type, use.to.words)
      /\ \A o \in Declared(program, type, use.to.words) : o = n
  <2>1. \A o \in program.methods : o.owner = n.owner /\ o.require = n.require => o = n
    BY DEF Replaceable
  <2>. QED
    BY <1>6, <1>7, <2>1 DEF Declared
<1>9. Conforming(actual, use.to.words) = [to |-> m, args |-> <<>>]
  <2>. HIDE DEF use, type
  <2>1. (CHOOSE o \in Declared(program, type, use.to.words) : TRUE) = n
    BY <1>8
  <2>. QED
    BY <1>4, <1>7, <1>8, <2>1 DEF Conforming
<1>10. use.suffix = <<>>
  <2>1. PlainUse(program, TemplateOf(r[1]), use)
    BY ReplaceableFacts
  <2>. QED
    BY <2>1 DEF PlainUse
<1>11. MangleFunctionName(m, <<>>) \in Name
  <2>1. m \in Identifier
    BY <1>7, ProgramAssumption DEF Programs, Method
  <2>. QED
    BY <2>1, BareName
<1>12. Instance(r, j).name = MangleFunctionName(m, <<>>)
  <2> DEFINE name == MangleFunctionName(m, <<>>)
             target == Conforming(actual, use.to.words)
  <2>1. Instance(r, j).name = MangleFunctionName(target.to, target.args) \o use.suffix
    BY <1>1
  <2>2. target.to = m /\ target.args = <<>>
    BY <1>9
  <2>. HIDE DEF target
  <2>3. Instance(r, j).name = name \o <<>>
    BY <1>10, <2>1, <2>2
  <2>. HIDE DEF name
  <2>4. name \o <<>> = name
    BY <1>11, ConcatEmptySeq DEF Name, name
  <2>. QED
    BY <2>3, <2>4 DEF name
<1>. QED
  BY <1>3, <1>7, <1>12

-----------------------------------------------------------------------------
(* Where sites, functions and declarations come from.                       *)

GivenFunctions ==
    {[object |-> ModuleObject(f.id), name |-> MangleFunctionName(f.id, <<>>), internal |-> f.internal] :
        f \in program.functions}
InstancesOf(S) == UNION {InstanceFunctions(TemplateOf(r[1]), r[2]) : r \in S}
UnitsOf(S) == UNION {UnitFunctions(TemplateOf(r[1]), r[2]) : r \in S}
\* The requests that have units.
Made == {f.object : f \in {g \in functions : ~IsModuleObject(g.object)}}

\* The sites of modules are those of the program and of instances.
FromModules ==
    \A k \in 1..Len(sites) : IsModuleObject(sites[k].object) =>
        \/ \E j \in DOMAIN program.sites : sites[k] = Given(j)
        \/ \E r \in instances : \E j \in DOMAIN UsesOf(r) : sites[k] = Instance(r, j)
HasSites == \A r \in instances : \A j \in DOMAIN UsesOf(r) : \E k \in 1..Len(sites) : sites[k] = Instance(r, j)
\* What modules refer to was instantiated, because a module calls it.
Attributed ==
    \A k \in 1..Len(sites) :
        (/\ IsModuleObject(sites[k].object) /\ sites[k].to \in TemplateIds
         /\ (pc = "attribute" => k < at)) => Request(sites[k]) \in instances
HasCall ==
    \A r \in instances : \E k \in 1..Len(sites) :
        /\ IsModuleObject(sites[k].object) /\ sites[k].kind = "call" /\ sites[k].to \in TemplateIds
        /\ Request(sites[k]) = r
AsWritten == \A r \in instances : \A i \in DOMAIN r[2] : r[2][i] \in Written(program)
SourceInv == FromModules /\ HasSites /\ Attributed /\ HasCall /\ AsWritten

\* The sites of units refer to what those of the instances do, once they were looked at.
Looked(s, r, j) ==
    LET use == UsesOf(r)[j]
    IN  /\ s.object = r /\ s.home = Instance(r, j).home /\ s.name = Instance(r, j).name
        /\ s.kind # "require" /\ (s.kind = "address" <=> use.kind = "address")
        /\ use.kind = "require" =>
              /\ Len(use.args) = 1
              /\ \E m \in program.methods :
                    m.require = use.to.words /\ s.name = MangleFunctionName(m.to, <<>>)
UnitSiteOf(k, r, j) == IF k < at THEN Looked(sites[k], r, j) ELSE sites[k] = Unit(r, j)
FromUnits ==
    \A k \in 1..Len(sites) : ~IsModuleObject(sites[k].object) =>
        /\ sites[k].object \in Made
        /\ \E j \in DOMAIN UsesOf(sites[k].object) : UnitSiteOf(k, sites[k].object, j)
HasUnitSites == \A r \in Made : \A j \in DOMAIN UsesOf(r) : \E k \in 1..Len(sites) : UnitSiteOf(k, r, j)

HasFunctions ==
    functions = GivenFunctions \cup (IF pc = "done" THEN {} ELSE InstancesOf(instances)) \cup UnitsOf(Made)

ModulesDeclare ==
    pc # "attribute" =>
        \A k \in 1..Len(sites) : IsModuleObject(sites[k].object) =>
            \/ <<sites[k].object, sites[k].name>> \in declared
            \/ \E f \in GivenFunctions \cup InstancesOf(instances) :
                  f.object = sites[k].object /\ f.name = sites[k].name
UnitsDeclare == pc = "done" => Imports \cup UnitExterns \subseteq declared

LinkInv ==
    /\ DemandInv /\ SourceInv /\ FromUnits /\ HasUnitSites /\ HasFunctions /\ ModulesDeclare
    /\ UnitsDeclare

LEMMA SameUses ==
    ASSUME UNCHANGED program
    PROVE  /\ \A j : Given(j)' = Given(j)
           /\ \A r : UsesOf(r)' = UsesOf(r)
           /\ \A r, j : Instance(r, j)' = Instance(r, j) /\ Unit(r, j)' = Unit(r, j)
           /\ \A s, r, j : Looked(s, r, j)' <=> Looked(s, r, j)
           /\ GivenFunctions' = GivenFunctions
           /\ \A S : InstancesOf(S)' = InstancesOf(S) /\ UnitsOf(S)' = UnitsOf(S)
           /\ \A s : RequestedName(s)' = RequestedName(s) /\ Request(s)' = Request(s)
<1>1. \A id : TemplateOf(id)' = TemplateOf(id)
  BY DEF TemplateOf
<1>2. \A r : UsesOf(r)' = UsesOf(r)
  BY <1>1 DEF UsesOf
<1>3. \A j : Given(j)' = Given(j)
  BY DEF Given
<1>5. \A t, a, u : InstanceSite(t, a, u)' = InstanceSite(t, a, u)
  BY DEF InstanceSite, Conforming, Declared, Inherited
<1>6. \A r, j : Instance(r, j)' = Instance(r, j) /\ Unit(r, j)' = Unit(r, j)
  BY <1>1, <1>2, <1>5 DEF Instance, Unit
<1>7. \A s, r, j : Looked(s, r, j)' <=> Looked(s, r, j)
  BY <1>2, <1>6 DEF Looked
<1>8. GivenFunctions' = GivenFunctions
  BY DEF GivenFunctions
<1>9. \A S : InstancesOf(S)' = InstancesOf(S) /\ UnitsOf(S)' = UnitsOf(S)
  BY <1>1 DEF InstancesOf, UnitsOf
<1>10. \A s : RequestedName(s)' = RequestedName(s) /\ Request(s)' = Request(s)
  BY DEF RequestedName, Request
<1>. QED
  BY <1>2, <1>3, <1>6, <1>7, <1>8, <1>9, <1>10

\* What the program's functions refer to.
LEMMA GivenFields ==
    ASSUME program \in Program, NEW j \in DOMAIN program.sites
    PROVE  LET use == program.sites[j].use
               in == program.sites[j].in
           IN  /\ in \in Identifier /\ use \in Use /\ use.kind # "require"
               /\ use.args \in Seq(Type) /\ Fits(program, use.to, use.args)
               /\ Given(j).object = ModuleObject(in) /\ Given(j).home = MangleFunctionName(in, <<>>)
               /\ Given(j).kind = use.kind /\ Given(j).to = use.to /\ Given(j).args = use.args
               /\ Given(j).name = MangleFunctionName(use.to, use.args) \o use.suffix
               /\ \A i \in DOMAIN use.args : use.args[i] \in Written(program)
<1>1. program \in Programs /\ Accepts(program)
  BY ProgramAssumption
<1>2. program.sites[j] \in [in : Identifier, use : Use]
  <2>1. program.sites \in Seq([in : Identifier, use : Use])
    BY <1>1 DEF Programs
  <2>2. DOMAIN program.sites = 1..Len(program.sites)
    BY <2>1, LenProperties
  <2>. QED
    BY <2>1, <2>2, ElementOfSeq
<1>3. /\ program.sites[j].use.kind # "require" /\ program.sites[j].use.args \in Seq(Type)
      /\ Fits(program, program.sites[j].use.to, program.sites[j].use.args)
  BY <1>1 DEF Accepts
<1>4. \A i \in DOMAIN program.sites[j].use.args : program.sites[j].use.args[i] \in Written(program)
  BY <1>3 DEF Written, Writes
<1>. QED
  BY <1>2, <1>3, <1>4 DEF Given, Site

\* Only types that the program writes take part.
LEMMA ActualWritten ==
    ASSUME program \in Program, NEW r \in Concrete, NEW j \in DOMAIN UsesOf(r),
           \A i \in DOMAIN r[2] : r[2][i] \in Written(program)
    PROVE  /\ \A i \in DOMAIN Actual(r, j) : Actual(r, j)[i] \in Written(program)
           /\ \A i \in DOMAIN Instance(r, j).args : Instance(r, j).args[i] \in Written(program)
<1> DEFINE t == TemplateOf(r[1])
           uses == UsesOf(r)[j].args
<1>1. /\ t \in program.templates /\ Len(r[2]) = Len(t.params) /\ r[2] \in Seq(Type)
      /\ t.params \in Seq(Parameter)
  BY RequestFacts, ProgramAssumption DEF Programs, Template
<1>2. DOMAIN r[2] = DOMAIN t.params
  BY <1>1
<1>3. \A i \in DOMAIN uses : uses[i] \in {t.params[k] : k \in DOMAIN t.params} \/ uses[i] \in Written(program)
  <2>1. uses \in Seq(Type \cup {t.params[i] : i \in DOMAIN t.params})
    BY <1>1, UseFacts DEF UsesOf
  <2>2. \A i \in DOMAIN uses : uses[i] \in Type \cup {t.params[k] : k \in DOMAIN t.params}
    <3>. HIDE DEF t, uses
    <3>. QED
      BY <2>1
  <2>3. \A i \in DOMAIN uses : uses[i] \in Type => uses[i] \in Written(program)
    BY <1>1 DEF Written, Writes, UsesOf
  <2>. QED
    BY <2>2, <2>3
<1>4. Actual(r, j) = [i \in DOMAIN uses |-> Bind(t.params, r[2], uses[i])]
  BY DEF Actual, Substitute
<1>5. ASSUME NEW i \in DOMAIN uses
      PROVE  Bind(t.params, r[2], uses[i]) \in Written(program)
  <2>. HIDE DEF t, uses
  <2>1. CASE \E k \in DOMAIN t.params : t.params[k] = uses[i]
    BY <1>2, <2>1 DEF Bind
  <2>2. CASE ~\E k \in DOMAIN t.params : t.params[k] = uses[i]
    BY <1>3, <2>2 DEF Bind
  <2>. QED
    BY <2>1, <2>2
<1>6. \A i \in DOMAIN Actual(r, j) : Actual(r, j)[i] \in Written(program)
  <2>. HIDE DEF t, uses
  <2>. QED
    BY <1>4, <1>5
<1> DEFINE actual == Actual(r, j)
           target == Conforming(actual, UsesOf(r)[j].to.words)
<1>7. /\ actual \in Seq(Type) /\ Len(actual) = Len(uses)
      /\ UsesOf(r)[j].kind = "require" => Instance(r, j).args = target.args
      /\ UsesOf(r)[j].kind # "require" => Instance(r, j).args = actual
  BY InstanceFields
<1>8. UsesOf(r)[j].kind = "require" => actual # <<>>
  <2>1. UsesOf(r)[j].kind = "require" => uses # <<>> /\ uses \in Seq(Type \cup {t.params[i] : i \in DOMAIN t.params})
    BY <1>1, UseFacts DEF UsesOf
  <2>. QED
    BY <1>7, <2>1
<1>9. target.args = Tail(actual) \/ target.args = actual
  BY DEF Conforming
<1>. HIDE DEF actual, target, uses
<1>10. ASSUME actual # <<>>  PROVE \A i \in DOMAIN Tail(actual) : Tail(actual)[i] \in Written(program)
  <2>1. /\ Tail(actual) \in Seq(Type) /\ Len(Tail(actual)) = Len(actual) - 1
        /\ \A i \in 1..Len(Tail(actual)) : Tail(actual)[i] = actual[i + 1]
    BY <1>7, <1>10, HeadTailProperties
  <2>2. DOMAIN Tail(actual) = 1..Len(Tail(actual)) /\ DOMAIN actual = 1..Len(actual) /\ Len(actual) \in Nat
    BY <1>7, <2>1
  <2>3. \A i \in DOMAIN Tail(actual) : i + 1 \in DOMAIN actual
    BY <2>1, <2>2
  <2>. QED
    BY <1>6, <2>1, <2>2, <2>3 DEF actual
<1>. QED
  BY <1>6, <1>7, <1>8, <1>9, <1>10 DEF actual

\* The sites of modules have their names for good.
LEMMA ModuleSites ==
    ASSUME program \in Program, instances \subseteq Concrete, FromModules,
           NEW k \in 1..Len(sites), IsModuleObject(sites[k].object)
    PROVE  sites[k].kind # "require" /\ RequestedName(sites[k]) = sites[k].name
<1>1. \/ \E j \in DOMAIN program.sites : sites[k] = Given(j)
      \/ \E r \in instances : \E j \in DOMAIN UsesOf(r) : sites[k] = Instance(r, j)
  BY DEF FromModules
<1>2. \E suffix \in Name : /\ sites[k].name = MangleFunctionName(sites[k].to, sites[k].args) \o suffix
                           /\ sites[k].to \in Identifier /\ sites[k].args \in Seq(Type)
                           /\ sites[k].kind # "require"
  <2>1. CASE \E j \in DOMAIN program.sites : sites[k] = Given(j)
    <3>1. PICK j \in DOMAIN program.sites : sites[k] = Given(j)
      BY <2>1
    <3> DEFINE use == program.sites[j].use
    <3>2. /\ use \in Use /\ use.kind # "require" /\ use.args \in Seq(Type)
          /\ Given(j).kind = use.kind /\ Given(j).to = use.to /\ Given(j).args = use.args
          /\ Given(j).name = MangleFunctionName(use.to, use.args) \o use.suffix
      BY GivenFields
    <3>. QED
      BY <3>1, <3>2 DEF Use
  <2>2. CASE \E r \in instances : \E j \in DOMAIN UsesOf(r) : sites[k] = Instance(r, j)
    <3>1. PICK r \in instances : \E j \in DOMAIN UsesOf(r) : sites[k] = Instance(r, j)
      BY <2>2
    <3>2. PICK j \in DOMAIN UsesOf(r) : sites[k] = Instance(r, j)
      BY <3>1
    <3>3. r \in Concrete /\ TemplateOf(r[1]) \in program.templates /\ r[2] \in Seq(Type)
          /\ Len(r[2]) = Len(TemplateOf(r[1]).params)
      BY RequestFacts
    <3>4. AttributedOK(Instance(r, j))
      BY <3>3, InstanceSiteType DEF Instance, UsesOf
    <3>5. Instance(r, j).to \in Identifier /\ Instance(r, j).args \in Seq(Type)
          /\ Instance(r, j).kind # "require"
      BY <3>4 DEF AttributedOK, SiteOK, SiteRecord
    <3>6. /\ UsesOf(r)[j].suffix \in Name
          /\ Instance(r, j).name
               = MangleFunctionName(Instance(r, j).to, Instance(r, j).args) \o UsesOf(r)[j].suffix
      <4>1. UsesOf(r)[j] \in Use
        BY <3>3, InstanceFields
      <4>2. CASE UsesOf(r)[j].kind = "require"
        <5> DEFINE made == Conforming(Actual(r, j), UsesOf(r)[j].to.words)
        <5>1. /\ Instance(r, j).to = made.to /\ Instance(r, j).args = made.args
              /\ Instance(r, j).name = MangleFunctionName(made.to, made.args) \o UsesOf(r)[j].suffix
          BY <3>3, <4>2, InstanceFields
        <5>. HIDE DEF made
        <5>2. UsesOf(r)[j].suffix \in Name
          BY <4>1 DEF Use
        <5>. QED
          BY <5>1, <5>2
      <4>3. CASE UsesOf(r)[j].kind # "require"
        BY <3>3, <4>1, <4>3, InstanceFields DEF Use
      <4>. QED
        BY <4>2, <4>3
    <3>. QED
      BY <3>2, <3>5, <3>6
  <2>. QED
    BY <1>1, <2>1, <2>2
<1>3. PICK suffix \in Name : /\ sites[k].name = MangleFunctionName(sites[k].to, sites[k].args) \o suffix
                             /\ sites[k].to \in Identifier /\ sites[k].args \in Seq(Type)
                             /\ sites[k].kind # "require"
  BY <1>2
<1>4. MangleFunctionName(sites[k].to, sites[k].args) \in Name /\ MangleFunctionName(sites[k].to, <<>>) \in Name
  BY <1>3, MangleType, BareName
<1>. QED
  BY <1>3, <1>4, RenamedOnce DEF RequestedName

-----------------------------------------------------------------------------
(* Semantic analysis.                                                       *)

\* The variables of a state whose demands are right.
LEMMA Facts ==
    ASSUME DemandInv
    PROVE  /\ program \in Program /\ sites \in Seq(SiteRecord) /\ instances \subseteq Concrete
           /\ queued \subseteq Concrete /\ queue \in Seq(Concrete)
           /\ DOMAIN sites = 1..Len(sites) /\ Len(sites) \in Nat /\ at \in Nat \ {0} /\ at <= Len(sites) + 1
           /\ \A k \in 1..Len(sites) : sites[k] \in SiteRecord /\ SiteOK(sites[k])
           /\ functions \subseteq [object : Object, name : Name, internal : BOOLEAN]
           /\ pc = "attribute" => \A k \in 1..Len(sites) : AttributedOK(sites[k])
           /\ OfModules /\ RequestsOnce /\ UnitsRequested
  BY DEF DemandInv, RequestInv, TypeInv, TypeOK, SiteOK

\* The sites that an instance adds are those of its template's uses.
LEMMA AddedSites ==
    ASSUME program \in Program, NEW r \in Concrete
    PROVE  LET added == [k \in DOMAIN UsesOf(r) |-> InstanceSite(TemplateOf(r[1]), r[2], UsesOf(r)[k])]
           IN  /\ added \in Seq(SiteRecord) /\ DOMAIN UsesOf(r) = 1..Len(added)
               /\ \A k \in 1..Len(added) : added[k] = Instance(r, k)
<1> DEFINE t == TemplateOf(r[1])
           added == [k \in DOMAIN t.uses |-> InstanceSite(t, r[2], t.uses[k])]
<1>1. added \in Seq(SiteRecord)
  BY InstanceSites
<1>2. t.uses \in Seq(Use)
  BY RequestFacts, ProgramAssumption DEF Programs, Template
<1>3. DOMAIN t.uses = 1..Len(t.uses) /\ Len(t.uses) \in Nat
  <2>. HIDE DEF t
  <2>. QED
    BY <1>2
<1>4. DOMAIN added = 1..Len(added)
  <2>. HIDE DEF added
  <2>. QED
    BY <1>1
<1>5. DOMAIN added = DOMAIN t.uses
  OBVIOUS
<1>. QED
  BY <1>1, <1>3, <1>4, <1>5 DEF UsesOf, Instance

\* What a module refers to with arguments is called, or is there already.
LEMMA ModuleRequests ==
    ASSUME program \in Program, Replaceable(program), instances \subseteq Concrete, FromModules, AsWritten,
           NEW k \in 1..Len(sites), IsModuleObject(sites[k].object), sites[k].to \in TemplateIds
    PROVE  /\ sites[k].kind = "call" \/ Request(sites[k]) \in instances
           /\ \A i \in DOMAIN sites[k].args : sites[k].args[i] \in Written(program)
<1>1. CASE \E j \in DOMAIN program.sites : sites[k] = Given(j)
  <2>1. PICK j \in DOMAIN program.sites : sites[k] = Given(j)
    BY <1>1
  <2>2. /\ Given(j).kind = program.sites[j].use.kind /\ Given(j).to = program.sites[j].use.to
        /\ Given(j).args = program.sites[j].use.args
        /\ \A i \in DOMAIN program.sites[j].use.args : program.sites[j].use.args[i] \in Written(program)
    BY GivenFields
  <2>3. PlainSite(program, program.sites[j])
    BY DEF Replaceable
  <2>4. IsTemplate(program, program.sites[j].use.to)
    BY <2>1, <2>2 DEF IsTemplate, TemplateIds
  <2>. QED
    BY <2>1, <2>2, <2>3, <2>4 DEF PlainSite
<1>2. CASE \E r \in instances : \E j \in DOMAIN UsesOf(r) : sites[k] = Instance(r, j)
  <2>1. PICK r \in instances : \E j \in DOMAIN UsesOf(r) : sites[k] = Instance(r, j)
    BY <1>2
  <2>2. PICK j \in DOMAIN UsesOf(r) : sites[k] = Instance(r, j)
    BY <2>1
  <2> DEFINE use == UsesOf(r)[j]
             t == TemplateOf(r[1])
  <2>3. /\ t.id = r[1] /\ r[2] \in Seq(Type) /\ t.params \in Seq(Parameter) /\ Len(r[2]) = Len(t.params)
        /\ PlainTemplate(t) /\ PlainUse(program, t, use) /\ r \in Concrete
    BY ReplaceableFacts
  <2>4. \A i \in DOMAIN sites[k].args : sites[k].args[i] \in Written(program)
    BY <2>2, <2>3, ActualWritten DEF AsWritten
  <2>5. ASSUME use.kind # "require", use.kind # "call"
        PROVE  Request(sites[k]) = r
    <3>1. use \in Use /\ sites[k].to = use.to /\ sites[k].args = Actual(r, j)
      BY <2>2, <2>3, <2>5, InstanceFields
    <3>2. IsTemplate(program, use.to)
      BY <3>1 DEF IsTemplate, TemplateIds
    <3>3. use.kind = "direct"
      BY <2>3, <2>5, <3>1, <3>2 DEF PlainUse, Use
    <3>4. <<use.to, Actual(r, j)>> = r
      BY <2>3, <3>2, <3>3, DirectCalls
    <3>. QED
      BY <3>1, <3>4 DEF Request
  <2>6. CASE use.kind \in {"require", "call"}
    <3>1. Instance(r, j).kind = "call"
      BY <2>3, <2>6, InstanceFields
    <3>. QED
      BY <2>2, <2>4, <3>1
  <2>7. CASE use.kind \notin {"require", "call"}
    BY <2>4, <2>5, <2>7
  <2>. QED
    BY <2>6, <2>7
<1>. QED
  BY <1>1, <1>2 DEF FromModules

LEMMA AttributeSource ==
    ASSUME DemandInv, Replaceable(program), SourceInv, Attribute
    PROVE  SourceInv'
<1> DEFINE r == Request(sites[at])
           added == [k \in DOMAIN UsesOf(r) |-> InstanceSite(TemplateOf(r[1]), r[2], UsesOf(r)[k])]
<1>1. /\ pc = "attribute" /\ at \in 1..Len(sites) /\ sites[at].to \in TemplateIds /\ r \notin instances
      /\ program \in Program /\ sites \in Seq(SiteRecord) /\ Len(sites) \in Nat /\ instances \subseteq Concrete
      /\ at \in Nat /\ AttributedOK(sites[at]) /\ \A k \in 1..Len(sites) : IsModuleObject(sites[k].object)
  BY Facts DEF Attribute, OfModules
<1>2. r \in Concrete /\ r[1] = sites[at].to /\ r[2] = sites[at].args
  BY <1>1 DEF AttributedOK, Request
<1>3. <<TemplateOf(r[1]).id, r[2]>> = r
  BY <1>1, <1>2, RequestFacts
<1>4. /\ sites' = sites \o added /\ instances' = instances \cup {r} /\ at' = at + 1
      /\ UNCHANGED <<program, pc>>
  BY <1>2, <1>3 DEF Attribute, UsesOf
<1>5. /\ added \in Seq(SiteRecord) /\ DOMAIN UsesOf(r) = 1..Len(added)
      /\ \A k \in 1..Len(added) : added[k] = Instance(r, k)
  BY <1>1, <1>2, AddedSites
<1>6. /\ sites[at].kind = "call"
      /\ \A i \in DOMAIN r[2] : r[2][i] \in Written(program)
  <2>1. IsModuleObject(sites[at].object)
    BY <1>1
  <2>. QED
    BY <1>1, <1>2, <2>1, ModuleRequests DEF SourceInv
<1>. HIDE DEF added
<1>7. /\ Len(sites') = Len(sites) + Len(added) /\ Len(added) \in Nat
      /\ \A k \in 1..Len(sites) : sites'[k] = sites[k] /\ k \in 1..Len(sites')
      /\ \A j \in 1..Len(added) : sites'[Len(sites) + j] = added[j] /\ Len(sites) + j \in 1..Len(sites')
      /\ \A k \in 1..Len(sites') : k \in 1..Len(sites) \/ \E j \in 1..Len(added) : k = Len(sites) + j
  <2>1. sites' = sites \o added
    BY <1>4
  <2>2. /\ Len(sites') = Len(sites) + Len(added) /\ Len(added) \in Nat
        /\ \A k \in 1..Len(sites) : sites'[k] = sites[k]
        /\ \A j \in 1..Len(added) : sites'[Len(sites) + j] = added[j]
        /\ \A k \in 1..Len(sites') : k \in 1..Len(sites) \/ \E j \in 1..Len(added) : k = Len(sites) + j
    BY <1>1, <1>5, <2>1, Appended
  <2>. QED
    BY <1>1, <2>2
<1>8. /\ \A j : Given(j)' = Given(j)
      /\ \A q : UsesOf(q)' = UsesOf(q)
      /\ \A q, j : Instance(q, j)' = Instance(q, j)
      /\ TemplateIds' = TemplateIds
      /\ \A s : Request(s)' = Request(s)
  BY <1>4, SameUses, SameProgram
<1>. HIDE DEF r
<1>9. FromModules'
  <2>1. SUFFICES ASSUME NEW k \in 1..Len(sites')
                 PROVE  \/ \E j \in DOMAIN program.sites : sites'[k] = Given(j)
                        \/ \E q \in instances' : \E j \in DOMAIN UsesOf(q) : sites'[k] = Instance(q, j)
    BY <1>4, <1>8 DEF FromModules
  <2>2. CASE k \in 1..Len(sites)
    <3>1. sites'[k] = sites[k] /\ IsModuleObject(sites[k].object)
      BY <1>1, <1>7, <2>2
    <3>2. \/ \E j \in DOMAIN program.sites : sites[k] = Given(j)
          \/ \E q \in instances : \E j \in DOMAIN UsesOf(q) : sites[k] = Instance(q, j)
      BY <2>2, <3>1 DEF SourceInv, FromModules
    <3>3. instances \subseteq instances'
      BY <1>4
    <3>. QED
      BY <3>1, <3>2, <3>3
  <2>3. CASE \E j \in 1..Len(added) : k = Len(sites) + j
    <3>1. PICK j \in 1..Len(added) : k = Len(sites) + j
      BY <2>3
    <3>2. sites'[k] = Instance(r, j) /\ j \in DOMAIN UsesOf(r) /\ r \in instances'
      BY <1>4, <1>5, <1>7, <3>1
    <3>. QED
      BY <3>2
  <2>. QED
    BY <1>7, <2>2, <2>3
<1>10. HasSites'
  <2>1. SUFFICES ASSUME NEW q \in instances', NEW j \in DOMAIN UsesOf(q)
                 PROVE  \E k \in 1..Len(sites') : sites'[k] = Instance(q, j)
    BY <1>8 DEF HasSites
  <2>2. CASE q \in instances
    BY <1>7, <2>2 DEF SourceInv, HasSites
  <2>3. CASE q = r
    BY <1>5, <1>7, <2>1, <2>3
  <2>. QED
    BY <1>4, <2>2, <2>3
<1>11. Attributed'
  <2>1. SUFFICES ASSUME NEW k \in 1..Len(sites'), sites'[k].to \in TemplateIds, k < at + 1
                 PROVE  Request(sites'[k]) \in instances'
    BY <1>1, <1>4, <1>8 DEF Attributed, Request
  <2>2. k \in 1..Len(sites) /\ sites'[k] = sites[k]
    BY <1>1, <1>7, <2>1
  <2>3. CASE k = at
    BY <1>4, <2>2, <2>3 DEF r
  <2>4. CASE k # at
    <3>1. k < at
      BY <1>1, <2>1, <2>2, <2>4
    <3>. QED
      BY <1>1, <1>4, <2>1, <2>2, <3>1 DEF SourceInv, Attributed
  <2>. QED
    BY <2>3, <2>4
<1>12. HasCall'
  <2>1. SUFFICES ASSUME NEW q \in instances'
                 PROVE  \E k \in 1..Len(sites') :
                           /\ IsModuleObject(sites'[k].object) /\ sites'[k].kind = "call"
                           /\ sites'[k].to \in TemplateIds /\ Request(sites'[k]) = q
    BY <1>8 DEF HasCall, IsModuleObject, Request
  <2>2. CASE q \in instances
    BY <1>7, <2>2 DEF SourceInv, HasCall
  <2>3. CASE q = r
    BY <1>1, <1>6, <1>7, <2>3 DEF r
  <2>. QED
    BY <1>4, <2>2, <2>3
<1>13. AsWritten'
  BY <1>4, <1>6 DEF SourceInv, AsWritten
<1>. QED
  BY <1>9, <1>10, <1>11, <1>12, <1>13 DEF SourceInv

\* Later the sites of modules stay as they are.
LEMMA KeepSource ==
    ASSUME SourceInv, UNCHANGED <<program, instances>>, Len(sites') \in Nat, Len(sites) \in Nat,
           \A k \in 1..Len(sites') :
              IsModuleObject(sites'[k].object) => k \in 1..Len(sites) /\ sites'[k] = sites[k],
           \A k \in 1..Len(sites) :
              IsModuleObject(sites[k].object) => k \in 1..Len(sites') /\ sites'[k] = sites[k],
           instances \subseteq Concrete, program \in Program,
           \A k \in 1..Len(sites) :
              (IsModuleObject(sites[k].object) /\ sites[k].to \in TemplateIds
               /\ (pc' = "attribute" => k < at'))
                 => (pc = "attribute" => k < at) \/ Request(sites[k]) \in instances
    PROVE  SourceInv'
<1>1. /\ \A j : Given(j)' = Given(j)
      /\ \A q : UsesOf(q)' = UsesOf(q)
      /\ \A q, j : Instance(q, j)' = Instance(q, j)
      /\ TemplateIds' = TemplateIds
      /\ \A s : Request(s)' = Request(s)
      /\ \A o : IsModuleObject(o)' <=> IsModuleObject(o)
  BY SameUses, SameProgram DEF IsModuleObject
<1>2. FromModules'
  BY <1>1 DEF SourceInv, FromModules, IsModuleObject
<1>3. HasSites'
  <2>1. ASSUME NEW q \in instances, NEW j \in DOMAIN UsesOf(q)
        PROVE  \E k \in 1..Len(sites') : sites'[k] = Instance(q, j)
    <3>1. PICK k \in 1..Len(sites) : sites[k] = Instance(q, j)
      BY DEF SourceInv, HasSites
    <3>2. IsModuleObject(sites[k].object)
      <4>1. q \in Concrete /\ q[1] \in TemplateIds
        BY RequestFacts
      <4>2. q[1] \in Identifier
        BY <4>1, TemplateFacts
      <4>3. Instance(q, j).object = ModuleObject(q[1])
        BY <4>1, InstanceFields
      <4>. QED
        BY <3>1, <4>2, <4>3, ModuleObjectType
    <3>. QED
      BY <3>1, <3>2
  <2>. QED
    BY <1>1, <2>1 DEF HasSites
<1>4. Attributed'
  BY <1>1 DEF SourceInv, Attributed, IsModuleObject, Request
<1>5. HasCall'
  BY <1>1 DEF SourceInv, HasCall, IsModuleObject, Request
<1>6. AsWritten'
  BY DEF SourceInv, AsWritten
<1>. QED
  BY <1>2, <1>3, <1>4, <1>5, <1>6 DEF SourceInv

-----------------------------------------------------------------------------
(* Functions.                                                               *)

FunctionName(r, w) == MangleFunctionName(r[1], r[2]) \o w
Suffixes(r) == Own(TemplateOf(r[1]))

\* DistinctNames, of two functions.
Lists(t) == [1..Len(t.params) -> Type]
Unlike(p, t, args, w) ==
    \A f \in p.functions : MangleFunctionName(f.id, <<>>) # MangleFunctionName(t.id, args) \o w
Apart(t, args, w, u, other, v) ==
    MangleFunctionName(t.id, args) \o w = MangleFunctionName(u.id, other) \o v
        => t = u /\ args = other /\ w = v
LEMMA DistinctOne ==
    ASSUME NEW p, DistinctNames(p),
           NEW t \in p.templates, NEW args \in Lists(t), NEW w \in Own(t),
           NEW u \in p.templates, NEW other \in Lists(u), NEW v \in Own(u)
    PROVE  Unlike(p, t, args, w) /\ Apart(t, args, w, u, other, v)
<1>1. \A x \in p.templates : \A y \in [1..Len(x.params) -> Type] : \A z \in Own(x) :
         /\ Unlike(p, x, y, z)
         /\ \A a \in p.templates : \A b \in [1..Len(a.params) -> Type] : \A c \in Own(a) :
               Apart(x, y, z, a, b, c)
  BY DEF DistinctNames, Unlike, Apart
<1>2. \A x \in p.templates : \A y \in Lists(x) : \A z \in Own(x) :
         /\ Unlike(p, x, y, z)
         /\ \A a \in p.templates : \A b \in Lists(a) : \A c \in Own(a) : Apart(x, y, z, a, b, c)
  BY <1>1 DEF Lists
<1>. QED
  BY <1>2

\* Every function of every instance has a name of its own.
LEMMA Distinct ==
    ASSUME program \in Program, Replaceable(program), NEW r \in Concrete, NEW w \in Suffixes(r)
    PROVE  /\ \A f \in program.functions : MangleFunctionName(f.id, <<>>) # FunctionName(r, w)
           /\ \A q \in Concrete : \A v \in Suffixes(q) :
                 FunctionName(r, w) = FunctionName(q, v) => r = q /\ w = v
<1>1. \A q \in Concrete : /\ TemplateOf(q[1]) \in program.templates /\ TemplateOf(q[1]).id = q[1]
                          /\ q = <<q[1], q[2]>>
                          /\ q[2] \in [1..Len(TemplateOf(q[1]).params) -> Type]
  <2>1. SUFFICES ASSUME NEW q \in Concrete
                 PROVE  /\ TemplateOf(q[1]) \in program.templates /\ TemplateOf(q[1]).id = q[1]
                        /\ q = <<q[1], q[2]>>
                        /\ q[2] \in [1..Len(TemplateOf(q[1]).params) -> Type]
    OBVIOUS
  <2>2. /\ TemplateOf(q[1]) \in program.templates /\ TemplateOf(q[1]).id = q[1]
        /\ q = <<q[1], q[2]>> /\ q[2] \in Seq(Type) /\ Len(q[2]) = Len(TemplateOf(q[1]).params)
    BY RequestFacts
  <2>3. q[2] \in [1..Len(q[2]) -> Type]
    BY <2>2
  <2>. QED
    BY <2>2, <2>3
<1>2. ASSUME NEW q \in Concrete, NEW v \in Suffixes(q)
      PROVE  /\ \A f \in program.functions : MangleFunctionName(f.id, <<>>) # FunctionName(r, w)
             /\ FunctionName(r, w) = FunctionName(q, v) => r = q /\ w = v
  <2> DEFINE t == TemplateOf(r[1])
             u == TemplateOf(q[1])
             args == r[2]
             other == q[2]
  <2>1. /\ t \in program.templates /\ args \in [1..Len(t.params) -> Type] /\ w \in Own(t)
        /\ u \in program.templates /\ other \in [1..Len(u.params) -> Type] /\ v \in Own(u)
        /\ t.id = r[1] /\ u.id = q[1] /\ r = <<r[1], args>> /\ q = <<q[1], other>>
    BY <1>1, <1>2 DEF Suffixes
  <2>2. DistinctNames(program)
    BY DEF Replaceable
  <2>. HIDE DEF t, u, args, other
  <2>3. Unlike(program, t, args, w) /\ Apart(t, args, w, u, other, v)
    BY <2>1, <2>2, DistinctOne DEF Lists
  <2>4. /\ FunctionName(r, w) = MangleFunctionName(t.id, args) \o w
        /\ FunctionName(q, v) = MangleFunctionName(u.id, other) \o v
    BY <2>1 DEF FunctionName, args, other
  <2>5. t = u /\ args = other => r = q
    BY <2>1
  <2>. QED
    BY <2>3, <2>4, <2>5, Zenon DEF Unlike, Apart
<1>3. r \in Concrete /\ w \in Suffixes(r)
  OBVIOUS
<1>. QED
  BY <1>2, <1>3, Zenon

\* The functions of an instance and of its unit are the same, in two objects.
LEMMA FunctionsOf ==
    ASSUME program \in Program, Replaceable(program), NEW r \in Concrete
    PROVE  /\ UnitFunctions(TemplateOf(r[1]), r[2])
                = {[object |-> r, name |-> FunctionName(r, w), internal |-> FALSE] : w \in Suffixes(r)}
           /\ InstanceFunctions(TemplateOf(r[1]), r[2])
                = {[object |-> ModuleObject(r[1]), name |-> FunctionName(r, w),
                    internal |-> TemplateOf(r[1]).internal] : w \in Suffixes(r)}
           /\ <<>> \in Suffixes(r)
<1>1. TemplateOf(r[1]).extras = {} /\ TemplateOf(r[1]).id = r[1]
  BY ReplaceableFacts DEF PlainTemplate
<1>2. r = <<r[1], r[2]>>
  BY RequestFacts
<1> DEFINE t == TemplateOf(r[1])
           name(w) == MangleFunctionName(t.id, r[2]) \o w
<1>3. \A w : name(w) = FunctionName(r, w)
  BY <1>1 DEF FunctionName
<1>4. /\ UnitFunctions(t, r[2])
           = {[object |-> <<t.id, r[2]>>, name |-> name(w), internal |-> FALSE] : w \in Own(t)}
      /\ InstanceFunctions(t, r[2])
           = {[object |-> ModuleObject(t.id), name |-> name(w), internal |-> t.internal] :
                w \in Own(t) \cup t.extras}
  BY DEF UnitFunctions, InstanceFunctions, Own
<1>5. Own(t) \cup t.extras = Own(t) /\ <<t.id, r[2]>> = r /\ Suffixes(r) = Own(t)
  BY <1>1, <1>2 DEF Suffixes
<1>. HIDE DEF name
<1>6. /\ UnitFunctions(t, r[2])
           = {[object |-> r, name |-> FunctionName(r, w), internal |-> FALSE] : w \in Suffixes(r)}
      /\ InstanceFunctions(t, r[2])
           = {[object |-> ModuleObject(r[1]), name |-> FunctionName(r, w), internal |-> t.internal] :
                w \in Suffixes(r)}
  <2>. HIDE DEF t
  <2>1. t.id = r[1]
    BY <1>1 DEF t
  <2>. QED
    BY <1>3, <1>4, <1>5, <2>1
<1>. QED
  BY <1>6 DEF Suffixes, Own

LEMMA GivenObjects ==
    ASSUME program \in Program, NEW f \in GivenFunctions
    PROVE  /\ IsModuleObject(f.object)
           /\ \E g \in program.functions : /\ g.id \in Identifier /\ f.object = ModuleObject(g.id)
                                           /\ f.name = MangleFunctionName(g.id, <<>>)
                                           /\ f.internal = g.internal
<1>1. PICK g \in program.functions :
         f = [object |-> ModuleObject(g.id), name |-> MangleFunctionName(g.id, <<>>), internal |-> g.internal]
  BY DEF GivenFunctions
<1>2. g.id \in Identifier
  BY ProgramAssumption DEF Programs
<1>. QED
  BY <1>1, <1>2, ModuleObjectType

LEMMA InstanceObjects ==
    ASSUME program \in Program, Replaceable(program), NEW S \in SUBSET Concrete, NEW f
    PROVE  /\ f \in InstancesOf(S) <=>
                 \E r \in S : \E w \in Suffixes(r) :
                    f = [object |-> ModuleObject(r[1]), name |-> FunctionName(r, w),
                         internal |-> TemplateOf(r[1]).internal]
           /\ f \in UnitsOf(S) <=>
                 \E r \in S : \E w \in Suffixes(r) :
                    f = [object |-> r, name |-> FunctionName(r, w), internal |-> FALSE]
           /\ f \in InstancesOf(S) => IsModuleObject(f.object)
           /\ f \in UnitsOf(S) => ~IsModuleObject(f.object) /\ f.object \in S
<1>1. f \in InstancesOf(S) <=>
        \E r \in S : \E w \in Suffixes(r) :
           f = [object |-> ModuleObject(r[1]), name |-> FunctionName(r, w),
                internal |-> TemplateOf(r[1]).internal]
  <2>1. f \in InstancesOf(S) <=> \E r \in S : f \in InstanceFunctions(TemplateOf(r[1]), r[2])
    BY DEF InstancesOf
  <2>. QED
    BY <2>1, FunctionsOf
<1>2. f \in UnitsOf(S) <=>
        \E r \in S : \E w \in Suffixes(r) :
           f = [object |-> r, name |-> FunctionName(r, w), internal |-> FALSE]
  <2>1. f \in UnitsOf(S) <=> \E r \in S : f \in UnitFunctions(TemplateOf(r[1]), r[2])
    BY DEF UnitsOf
  <2>. QED
    BY <2>1, FunctionsOf
<1>3. \A r \in S : r[1] \in Identifier /\ ~IsModuleObject(r)
  BY ReplaceableFacts, RequestFacts
<1>. QED
  BY <1>1, <1>2, <1>3, ModuleObjectType

\* The requests that have units are those that no longer wait.
LEMMA MadeFacts ==
    ASSUME DemandInv
    PROVE  Made = queued \ Waiting /\ Made \subseteq Concrete
<1>1. queued \subseteq Concrete /\ RequestsOnce /\ UnitsRequested
  BY Facts
<1>2. \A r \in queued : ~IsModuleObject(r)
  BY <1>1, Facts, RequestFacts
<1>3. Made \subseteq queued
  BY <1>1 DEF UnitsRequested, Made
<1>4. \A r \in queued : r \in Made <=> HasUnit(r)
  BY <1>2 DEF Made, HasUnit
<1>. QED
  BY <1>1, <1>3, <1>4 DEF RequestsOnce

\* What units are asked for is instantiated in the modules.
LEMMA QueuedInstances ==
    ASSUME DemandInv, SourceInv, pc # "attribute"
    PROVE  queued \subseteq instances
<1>1. /\ program \in Program /\ instances \subseteq Concrete /\ DOMAIN sites = 1..Len(sites)
      /\ \A k \in 1..Len(sites) : sites[k] \in SiteRecord
  BY Facts
<1>2. ModulesAsk \subseteq instances
  <2>1. ASSUME NEW k \in 1..Len(sites), IsModuleObject(sites[k].object), IsGeneric(sites[k])
        PROVE  Request(sites[k]) \in instances
    <3>1. sites[k].kind # "require"
      BY <1>1, <2>1, ModuleSites DEF SourceInv
    <3>. QED
      BY <2>1, <3>1 DEF SourceInv, Attributed, IsGeneric
  <2>. QED
    BY <1>1, <2>1 DEF ModulesAsk
<1>3. ASSUME NEW r \in instances, NEW a \in Asked(r)
      PROVE  a \in instances
  <2> DEFINE t == TemplateOf(r[1])
  <2>1. PICK j \in DOMAIN t.uses : /\ t.uses[j].kind = "call" /\ t.uses[j].to \in TemplateIds
                                   /\ a = <<t.uses[j].to, Substitute(t.params, r[2], t.uses[j].args)>>
    BY <1>3 DEF Asked
  <2>2. j \in DOMAIN UsesOf(r) /\ UsesOf(r)[j] = t.uses[j] /\ a = <<UsesOf(r)[j].to, Actual(r, j)>>
    BY <2>1 DEF UsesOf, Actual
  <2>3. PICK k \in 1..Len(sites) : sites[k] = Instance(r, j)
    BY <2>2 DEF SourceInv, HasSites
  <2>4. r \in Concrete /\ r[1] \in Identifier
    BY <1>1, TemplateFacts, RequestFacts
  <2>5. /\ Instance(r, j).object = ModuleObject(r[1]) /\ Instance(r, j).to = UsesOf(r)[j].to
        /\ Instance(r, j).args = Actual(r, j)
    BY <1>1, <2>1, <2>2, <2>4, InstanceFields
  <2>6. IsModuleObject(sites[k].object) /\ sites[k].to \in TemplateIds /\ Request(sites[k]) = a
    BY <2>1, <2>2, <2>3, <2>4, <2>5, ModuleObjectType DEF Request
  <2>. QED
    BY <2>6 DEF SourceInv, Attributed
<1>4. Closed(instances)
  BY <1>2, <1>3 DEF Closed
<1>. QED
  BY <1>4 DEF DemandInv, Confined

\* What modules instantiate is asked for, by the call that it was instantiated for.
LEMMA InstancesQueued ==
    ASSUME DemandInv, SourceInv, pc \in {"extract", "done"}, at > Len(sites)
    PROVE  instances \subseteq queued
<1>1. at \in Nat /\ Len(sites) \in Nat
  BY Facts
<1>2. \A k \in 1..Len(sites) : k < at
  BY <1>1
<1>3. \A k \in 1..Len(sites) :
         sites[k].kind = "call" /\ sites[k].to \in TemplateIds => Request(sites[k]) \in queued
  BY <1>2 DEF DemandInv, LookedAt, IsGeneric
<1>. QED
  BY <1>3 DEF SourceInv, HasCall

-----------------------------------------------------------------------------
(* The links of units, step by step.                                        *)

LEMMA InitLinks == Init => LinkInv
<1>. SUFFICES ASSUME Init PROVE LinkInv
  OBVIOUS
<1>1. /\ program \in Program /\ pc = "attribute" /\ at = 1 /\ instances = {} /\ functions = GivenFunctions
      /\ DOMAIN sites = DOMAIN program.sites
      /\ \A k \in DOMAIN program.sites : sites[k] = Given(k)
  BY DEF Init, GivenFunctions, Given
<1>2. DemandInv
  BY InitDemands
<1>3. \A k \in 1..Len(sites) : IsModuleObject(sites[k].object)
  BY <1>1, <1>2 DEF DemandInv, OfModules
<1>4. Made = {}
  BY <1>1, GivenObjects DEF Made
<1>5. FromModules /\ HasSites /\ HasCall /\ AsWritten
  BY <1>1, <1>2, Facts DEF FromModules, HasSites, HasCall, AsWritten
<1>6. Attributed
  BY <1>1 DEF Attributed
<1>7. FromUnits /\ HasUnitSites
  BY <1>3, <1>4 DEF FromUnits, HasUnitSites
<1>8. HasFunctions
  BY <1>1, <1>4 DEF HasFunctions, InstancesOf, UnitsOf
<1>9. ModulesDeclare /\ UnitsDeclare
  BY <1>1 DEF ModulesDeclare, UnitsDeclare
<1>. QED
  BY <1>2, <1>5, <1>6, <1>7, <1>8, <1>9 DEF LinkInv, SourceInv

\* Without units there is nothing to know of them.
LEMMA NoUnits ==
    ASSUME DemandInv, pc = "attribute"
    PROVE  FromUnits /\ HasUnitSites /\ Made = {}
<1>1. /\ queued = {} /\ \A f \in functions : IsModuleObject(f.object)
      /\ \A k \in 1..Len(sites) : IsModuleObject(sites[k].object)
  BY DEF DemandInv, RequestInv, UnitsRequested, OfModules
<1>. QED
  BY <1>1 DEF FromUnits, HasUnitSites, Made

\* The functions of the next state, of the same program.
LEMMA FunctionParts ==
    ASSUME UNCHANGED program
    PROVE  HasFunctions' <=>
              functions' = GivenFunctions \cup (IF pc' = "done" THEN {} ELSE InstancesOf(instances'))
                           \cup UnitsOf(Made')
<1>1. GivenFunctions' = GivenFunctions
  BY SameUses
<1>2. \A q : TemplateOf(q[1])' = TemplateOf(q[1])
  BY DEF TemplateOf
<1>3. UnitsOf(Made)' = UnitsOf(Made')
  <2>1. UnitsOf(Made)' = UNION {UnitFunctions(TemplateOf(q[1])', q[2]) : q \in Made'}
    BY DEF UnitsOf, UnitFunctions, MangleFunctionName
  <2>. QED
    BY <1>2, <2>1 DEF UnitsOf
<1>4. InstancesOf(instances)' = InstancesOf(instances')
  <2>1. InstancesOf(instances)' = UNION {InstanceFunctions(TemplateOf(q[1])', q[2]) : q \in instances'}
    BY DEF InstancesOf, InstanceFunctions, MangleFunctionName, ModuleObject
  <2>. QED
    BY <1>2, <2>1 DEF InstancesOf
<1>. QED
  BY <1>1, <1>3, <1>4 DEF HasFunctions

LEMMA AttributeLinks ==
    ASSUME LinkInv, Replaceable(program), Attribute, DemandInv'
    PROVE  LinkInv'
<1> DEFINE r == Request(sites[at])
<1>1. SourceInv'
  BY AttributeSource DEF LinkInv
<1>2. /\ pc = "attribute" /\ pc' = "attribute" /\ UNCHANGED program /\ at \in 1..Len(sites)
      /\ sites[at].to \in TemplateIds /\ program \in Program
  BY Facts DEF Attribute, LinkInv
<1>3. /\ r \in Concrete /\ r[1] = sites[at].to /\ r[2] = sites[at].args
      /\ <<TemplateOf(r[1]).id, r[2]>> = r
  <2>1. r \in Concrete
    BY <1>2, Facts DEF LinkInv, AttributedOK
  <2>. QED
    BY <1>2, <2>1, RequestFacts DEF Request
<1>4. /\ functions' = functions \cup InstanceFunctions(TemplateOf(r[1]), r[2])
      /\ instances' = instances \cup {r}
  BY <1>3 DEF Attribute
<1>. HIDE DEF r
<1>5. /\ \A f \in functions' : IsModuleObject(f.object)
      /\ \A k \in 1..Len(sites') : IsModuleObject(sites'[k].object)
  <2>1. UnitsRequested' /\ OfModules'
    BY DEF DemandInv, RequestInv
  <2>2. queued' = {}
    BY <1>2, <2>1 DEF UnitsRequested
  <2>3. \A f \in functions' : IsModuleObject(f.object)
    BY <2>1, <2>2 DEF UnitsRequested, IsModuleObject
  <2>. QED
    BY <1>2, <2>1, <2>3 DEF OfModules, IsModuleObject
<1>6. Made' = {} /\ Made = {}
  <2>1. Made' = {}
    BY <1>5 DEF Made, IsModuleObject
  <2>. QED
    BY <1>2, <2>1, NoUnits DEF LinkInv
<1>7. FromUnits' /\ HasUnitSites'
  <2>1. FromUnits'
    BY <1>5 DEF FromUnits, IsModuleObject
  <2>2. HasUnitSites'
    BY <1>6 DEF HasUnitSites
  <2>. QED
    BY <2>1, <2>2
<1>8. HasFunctions'
  <2>1. InstancesOf(instances \cup {r}) = InstancesOf(instances) \cup InstanceFunctions(TemplateOf(r[1]), r[2])
    BY DEF InstancesOf
  <2>2. functions = GivenFunctions \cup InstancesOf(instances) \cup UnitsOf(Made)
    BY <1>2 DEF LinkInv, HasFunctions
  <2>3. UnitsOf({}) = {}
    BY DEF UnitsOf
  <2>. QED
    BY <1>2, <1>4, <1>6, <2>1, <2>2, <2>3, FunctionParts
<1>9. ModulesDeclare' /\ UnitsDeclare'
  BY <1>2 DEF ModulesDeclare, UnitsDeclare
<1>. QED
  BY <1>1, <1>7, <1>8, <1>9 DEF LinkInv

\* A step that changes neither sites nor functions, and goes on or not.
LEMMA SameLinks ==
    ASSUME LinkInv, DemandInv', UNCHANGED <<program, sites, functions, instances, declared>>,
           at' = at \/ pc = "attribute",
           \/ pc' = pc
           \/ pc = "extract" /\ pc' = "failed",
           \A k \in 1..Len(sites) :
              (IsModuleObject(sites[k].object) /\ sites[k].to \in TemplateIds
               /\ (pc' = "attribute" => k < at'))
                 => (pc = "attribute" => k < at) \/ Request(sites[k]) \in instances
    PROVE  LinkInv'
<1>1. /\ program \in Program /\ instances \subseteq Concrete /\ Len(sites) \in Nat
      /\ \A k \in 1..Len(sites) : sites[k] \in SiteRecord
  BY Facts DEF LinkInv
<1>2. SourceInv'
  BY <1>1, KeepSource DEF LinkInv
<1>3. Made' = Made
  BY DEF Made, IsModuleObject
<1>4. /\ \A r : UsesOf(r)' = UsesOf(r)
      /\ \A r, j : Unit(r, j)' = Unit(r, j)
      /\ \A s, r, j : Looked(s, r, j)' <=> Looked(s, r, j)
  BY SameUses
<1>5. FromUnits' /\ HasUnitSites'
  <2>1. CASE pc = "attribute"
    <3>1. Made = {} /\ \A k \in 1..Len(sites) : IsModuleObject(sites[k].object)
      BY <2>1, NoUnits DEF LinkInv, DemandInv, OfModules
    <3>. QED
      BY <1>3, <3>1 DEF FromUnits, HasUnitSites, IsModuleObject
  <2>2. CASE at' = at
    <3>1. \A k, r, j : UnitSiteOf(k, r, j)' <=> UnitSiteOf(k, r, j)
      BY <1>4, <2>2 DEF UnitSiteOf
    <3>2. FromUnits'
      BY <1>3, <1>4, <3>1 DEF LinkInv, FromUnits, IsModuleObject
    <3>3. HasUnitSites'
      BY <1>3, <1>4, <3>1 DEF LinkInv, HasUnitSites
    <3>. QED
      BY <3>2, <3>3
  <2>. QED
    BY <2>1, <2>2
<1>6. HasFunctions'
  BY <1>3, FunctionParts DEF LinkInv, HasFunctions
<1>7. ModulesDeclare'
  <2>1. GivenFunctions' = GivenFunctions /\ InstancesOf(instances)' = InstancesOf(instances)
    BY SameUses DEF InstancesOf, InstanceFunctions, TemplateOf, MangleFunctionName, ModuleObject
  <2>2. pc' # "attribute" => pc # "attribute"
    OBVIOUS
  <2>. QED
    BY <2>1, <2>2 DEF LinkInv, ModulesDeclare, IsModuleObject
<1>8. UnitsDeclare'
  <2>1. CASE pc' = "done"
    <3>1. pc = "done"
      BY <2>1
    <3>2. Imports' = Imports /\ UnitExterns' = UnitExterns
      BY DEF Imports, UnitExterns, LiveSites, IsDefinedIn, Kept, Removed, IsCall, IsModuleObject
    <3>. QED
      BY <3>1, <3>2 DEF LinkInv, UnitsDeclare
  <2>. QED
    BY <2>1 DEF UnitsDeclare
<1>. QED
  BY <1>2, <1>5, <1>6, <1>7, <1>8 DEF LinkInv

LEMMA GenerateLinks ==
    ASSUME LinkInv, Generate, DemandInv'
    PROVE  LinkInv'
<1>1. /\ pc = "attribute" /\ pc' = "extract" /\ at > Len(sites)
      /\ UNCHANGED <<program, sites, functions, instances>>
      /\ declared' = {<<s.object, s.name>> : s \in {sites[k] : k \in DOMAIN sites}}
                     \ {<<f.object, f.name>> : f \in functions}
  BY DEF Generate
<1>2. /\ program \in Program /\ instances \subseteq Concrete /\ Len(sites) \in Nat /\ at \in Nat
      /\ DOMAIN sites = 1..Len(sites)
  BY Facts DEF LinkInv
<1>3. /\ Made = {} /\ \A k \in 1..Len(sites) : IsModuleObject(sites[k].object)
  BY <1>1, NoUnits DEF LinkInv, DemandInv, OfModules
<1>4. SourceInv'
  <2>1. \A k \in 1..Len(sites) : k < at
    BY <1>1, <1>2
  <2>. QED
    BY <1>1, <1>2, <2>1, KeepSource DEF LinkInv
<1>5. Made' = Made
  BY <1>1 DEF Made, IsModuleObject
<1>6. FromUnits' /\ HasUnitSites'
  BY <1>1, <1>3, <1>5 DEF FromUnits, HasUnitSites, IsModuleObject
<1>7. HasFunctions'
  BY <1>1, <1>5, FunctionParts DEF LinkInv, HasFunctions
<1>8. ModulesDeclare'
  <2>1. GivenFunctions' = GivenFunctions /\ InstancesOf(instances)' = InstancesOf(instances)
    BY <1>1, SameUses DEF InstancesOf, InstanceFunctions, TemplateOf, MangleFunctionName, ModuleObject
  <2>2. functions = GivenFunctions \cup InstancesOf(instances)
    BY <1>1, <1>3 DEF LinkInv, HasFunctions, UnitsOf
  <2>3. ASSUME NEW k \in 1..Len(sites)
        PROVE  \/ <<sites[k].object, sites[k].name>> \in declared'
               \/ \E f \in functions : f.object = sites[k].object /\ f.name = sites[k].name
    <3>1. <<sites[k].object, sites[k].name>> \in {<<s.object, s.name>> : s \in {sites[i] : i \in DOMAIN sites}}
      BY <1>2
    <3>2. CASE <<sites[k].object, sites[k].name>> \in {<<f.object, f.name>> : f \in functions}
      BY <3>2
    <3>. QED
      BY <1>1, <3>1, <3>2
  <2>. QED
    BY <1>1, <2>1, <2>2, <2>3 DEF ModulesDeclare
<1>9. UnitsDeclare'
  BY <1>1 DEF UnitsDeclare
<1>. QED
  BY <1>4, <1>6, <1>7, <1>8, <1>9 DEF LinkInv

\* A step that looks at one site: one of a module stays, one of a unit then refers to
\* what the instance's does.
LEMMA LookLinks ==
    ASSUME LinkInv, DemandInv', UNCHANGED <<program, pc, functions, instances, declared>>,
           pc = "extract", at \in 1..Len(sites), at' = at + 1, Len(sites') = Len(sites),
           \A k \in 1..Len(sites) : k # at => sites'[k] = sites[k],
           sites'[at].object = sites[at].object,
           IsModuleObject(sites[at].object) => sites'[at] = sites[at],
           ASSUME NEW r \in Made, NEW j \in DOMAIN UsesOf(r), sites[at] = Unit(r, j)
           PROVE  Looked(sites'[at], r, j)
    PROVE  LinkInv'
<1>1. /\ program \in Program /\ instances \subseteq Concrete /\ Len(sites) \in Nat /\ at \in Nat
  BY Facts DEF LinkInv
<1>2. Made' = Made
  BY DEF Made, IsModuleObject
<1>3. /\ \A r : UsesOf(r)' = UsesOf(r)
      /\ \A r, j : Unit(r, j)' = Unit(r, j)
      /\ \A s, r, j : Looked(s, r, j)' <=> Looked(s, r, j)
  BY SameUses
<1>4. /\ \A k \in 1..Len(sites) : sites'[k].object = sites[k].object
      /\ \A k \in 1..Len(sites) : IsModuleObject(sites[k].object) => sites'[k] = sites[k]
  OBVIOUS
<1>5. SourceInv'
  BY <1>1, <1>4, KeepSource DEF LinkInv
<1>6. ASSUME NEW k \in 1..Len(sites), NEW r \in Made, NEW j \in DOMAIN UsesOf(r), UnitSiteOf(k, r, j)
      PROVE  UnitSiteOf(k, r, j)'
  <2>1. UnitSiteOf(k, r, j)' <=> IF k < at' THEN Looked(sites'[k], r, j) ELSE sites'[k] = Unit(r, j)
    BY <1>3 DEF UnitSiteOf
  <2>2. CASE k < at
    <3>1. k # at /\ k < at'
      BY <1>1, <2>2
    <3>. QED
      BY <1>6, <2>1, <2>2, <3>1 DEF UnitSiteOf
  <2>3. CASE k = at
    <3>1. ~(k < at) /\ k < at'
      BY <1>1, <2>3
    <3>2. sites[at] = Unit(r, j)
      BY <1>6, <2>3, <3>1 DEF UnitSiteOf
    <3>3. Looked(sites'[at], r, j)
      BY <3>2
    <3>. QED
      BY <2>1, <2>3, <3>1, <3>3
  <2>4. CASE k > at
    <3>1. k # at /\ ~(k < at') /\ ~(k < at)
      BY <1>1, <2>4
    <3>. QED
      BY <1>6, <2>1, <3>1 DEF UnitSiteOf
  <2>. QED
    BY <1>1, <2>2, <2>3, <2>4
<1>7. FromUnits'
  <2>1. SUFFICES ASSUME NEW k \in 1..Len(sites), ~IsModuleObject(sites[k].object)
                 PROVE  /\ sites[k].object \in Made
                        /\ \E j \in DOMAIN UsesOf(sites[k].object) : UnitSiteOf(k, sites[k].object, j)'
    <3>1. FromUnits' <=> \A k \in 1..Len(sites) : ~IsModuleObject(sites[k].object) =>
                            /\ sites[k].object \in Made
                            /\ \E j \in DOMAIN UsesOf(sites[k].object) :
                                  UnitSiteOf(k, sites[k].object, j)'
      BY <1>2, <1>3, <1>4 DEF FromUnits, UnitSiteOf, IsModuleObject
    <3>. QED
      BY <2>1, <3>1
  <2>2. PICK j \in DOMAIN UsesOf(sites[k].object) : UnitSiteOf(k, sites[k].object, j)
    BY <2>1 DEF LinkInv, FromUnits
  <2> DEFINE r == sites[k].object
  <2>3. r \in Made
    BY <2>1 DEF LinkInv, FromUnits
  <2>4. UnitSiteOf(k, r, j)'
    BY <1>6, <2>2, <2>3
  <2>5. \E i \in DOMAIN UsesOf(r) : IF k < at' THEN Looked(sites'[k], r, i) ELSE sites'[k] = Unit(r, i)
    <3>. HIDE DEF r
    <3>. QED
      BY <1>3, <2>2, <2>4 DEF UnitSiteOf, r
  <2>. QED
    BY <1>3, <1>4, <2>3, <2>5 DEF UnitSiteOf
<1>8. HasUnitSites'
  <2>1. SUFFICES ASSUME NEW r \in Made, NEW j \in DOMAIN UsesOf(r)
                 PROVE  \E k \in 1..Len(sites) : UnitSiteOf(k, r, j)'
    BY <1>2, <1>3 DEF HasUnitSites
  <2>2. PICK k \in 1..Len(sites) : UnitSiteOf(k, r, j)
    BY DEF LinkInv, HasUnitSites
  <2>. QED
    BY <1>6, <2>2
<1>9. HasFunctions'
  BY <1>2, FunctionParts DEF LinkInv, HasFunctions
<1>10. ModulesDeclare'
  <2>1. GivenFunctions' = GivenFunctions /\ InstancesOf(instances)' = InstancesOf(instances)
    BY SameUses DEF InstancesOf, InstanceFunctions, TemplateOf, MangleFunctionName, ModuleObject
  <2>2. \A k \in 1..Len(sites) : IsModuleObject(sites'[k].object) => sites'[k] = sites[k]
    BY <1>4
  <2>. QED
    BY <2>1, <2>2 DEF LinkInv, ModulesDeclare, IsModuleObject
<1>11. UnitsDeclare'
  BY DEF UnitsDeclare
<1>. QED
  BY <1>5, <1>7, <1>8, <1>9, <1>10, <1>11 DEF LinkInv

\* A unit's site, before it is looked at.
LEMMA AtUnit ==
    ASSUME LinkInv, Replaceable(program), pc = "extract",
           NEW r \in Made, NEW j \in DOMAIN UsesOf(r)
    PROVE  /\ program \in Program /\ r \in Concrete /\ ~IsModuleObject(r) /\ UsesOf(r)[j] \in Use
           /\ Unit(r, j).object = r /\ Unit(r, j).home = Instance(r, j).home
           /\ Unit(r, j).kind = UsesOf(r)[j].kind
           /\ \A i \in DOMAIN Actual(r, j) : Actual(r, j)[i] \in Written(program)
<1>1. program \in Program /\ r \in Concrete /\ r \in instances
  BY Facts, MadeFacts, QueuedInstances DEF LinkInv
<1>2. ~IsModuleObject(r)
  BY <1>1, RequestFacts
<1>3. \A i \in DOMAIN r[2] : r[2][i] \in Written(program)
  BY <1>1 DEF LinkInv, SourceInv, AsWritten
<1>. QED
  BY <1>1, <1>2, <1>3, UnitFields, InstanceFields, ActualWritten

LEMMA SkipLinks ==
    ASSUME LinkInv, Replaceable(program), SkipCall, DemandInv'
    PROVE  LinkInv'
<1>1. /\ pc = "extract" /\ at \in 1..Len(sites) /\ at' = at + 1 /\ sites' = sites
      /\ sites[at].kind # "require" /\ ~IsGeneric(sites[at])
      /\ UNCHANGED <<program, pc, functions, instances, declared>>
  BY Facts DEF SkipCall, Looking, LinkInv
<1>2. ASSUME NEW r \in Made, NEW j \in DOMAIN UsesOf(r), sites[at] = Unit(r, j)
      PROVE  Looked(sites[at], r, j)
  <2>1. /\ program \in Program /\ r \in Concrete /\ UsesOf(r)[j] \in Use
        /\ Unit(r, j).object = r /\ Unit(r, j).home = Instance(r, j).home
        /\ Unit(r, j).kind = UsesOf(r)[j].kind
    BY <1>1, AtUnit
  <2>2. Unit(r, j).to = UsesOf(r)[j].to
    BY <2>1, UnitFields
  <2>3. UsesOf(r)[j].kind # "require" /\ ~(UsesOf(r)[j].kind = "call" /\ UsesOf(r)[j].to \in TemplateIds)
    BY <1>1, <1>2, <2>1, <2>2 DEF IsGeneric
  <2>4. Unit(r, j).name = Instance(r, j).name
    BY <2>1, <2>3, UnitNames
  <2>. QED
    BY <1>2, <2>1, <2>3, <2>4 DEF Looked
<1>. QED
  BY <1>1, <1>2, LookLinks

LEMMA MethodLinks ==
    ASSUME LinkInv, Replaceable(program), CallMethod, DemandInv'
    PROVE  LinkInv'
<1>1. PICK m \in MethodTargets(sites[at]) :
         sites' = [sites EXCEPT ![at] = [@ EXCEPT !.kind = "direct", !.to = m, !.args = <<>>,
                                                  !.name = MangleFunctionName(m, <<>>)]]
  BY DEF CallMethod
<1>2. /\ pc = "extract" /\ at \in 1..Len(sites) /\ at' = at + 1
      /\ sites[at].kind = "require" /\ ~IsGeneric(sites[at]) /\ sites[at] \in SiteRecord
      /\ UNCHANGED <<program, pc, functions, instances, declared>>
      /\ sites \in Seq(SiteRecord)
  BY Facts DEF CallMethod, Looking, LinkInv
<1>3. /\ Len(sites') = Len(sites) /\ \A k \in 1..Len(sites) : k # at => sites'[k] = sites[k]
      /\ sites'[at].object = sites[at].object /\ sites'[at].home = sites[at].home
      /\ sites'[at].kind = "direct" /\ sites'[at].name = MangleFunctionName(m, <<>>)
  BY <1>1, <1>2 DEF SiteRecord
<1>4. ~IsModuleObject(sites[at].object)
  BY <1>2, Facts, ModuleSites DEF LinkInv, SourceInv
<1>5. ASSUME NEW r \in Made, NEW j \in DOMAIN UsesOf(r), sites[at] = Unit(r, j)
      PROVE  Looked(sites'[at], r, j)
  <2>1. /\ program \in Program /\ r \in Concrete /\ UsesOf(r)[j] \in Use
        /\ Unit(r, j).object = r /\ Unit(r, j).home = Instance(r, j).home
        /\ Unit(r, j).kind = UsesOf(r)[j].kind
        /\ \A i \in DOMAIN Actual(r, j) : Actual(r, j)[i] \in Written(program)
    BY <1>2, AtUnit
  <2>2. UsesOf(r)[j].kind = "require" /\ ~IsGeneric(Unit(r, j)) /\ m \in MethodTargets(Unit(r, j))
    BY <1>1, <1>2, <1>5, <2>1
  <2>3. /\ Len(UsesOf(r)[j].args) = 1
        /\ MangleFunctionName(m, <<>>) = Instance(r, j).name
        /\ \E n \in program.methods : n.to = m /\ n.require = UsesOf(r)[j].to.words
    BY <2>1, <2>2, RequireNames
  <2>. QED
    BY <1>3, <1>5, <2>1, <2>2, <2>3 DEF Looked
<1>. QED
  BY <1>2, <1>3, <1>4, <1>5, LookLinks

LEMMA TemplateLinks ==
    ASSUME LinkInv, Replaceable(program), RequestTemplate, DemandInv'
    PROVE  LinkInv'
<1>1. /\ pc = "extract" /\ at \in 1..Len(sites) /\ at' = at + 1
      /\ sites[at].kind # "require" /\ IsGeneric(sites[at]) /\ sites[at] \in SiteRecord
      /\ UNCHANGED <<program, pc, functions, instances, declared>>
      /\ sites \in Seq(SiteRecord)
      /\ sites' = [sites EXCEPT ![at].name = RequestedName(sites[at])]
  BY Facts DEF RequestTemplate, Looking, LinkInv
<1>2. /\ Len(sites') = Len(sites) /\ \A k \in 1..Len(sites) : k # at => sites'[k] = sites[k]
      /\ sites'[at] = [sites[at] EXCEPT !.name = RequestedName(sites[at])]
  BY <1>1
<1>3. /\ sites'[at].object = sites[at].object /\ sites'[at].home = sites[at].home
      /\ sites'[at].kind = sites[at].kind /\ sites'[at].name = RequestedName(sites[at])
  BY <1>1, <1>2 DEF SiteRecord
<1>4. ASSUME IsModuleObject(sites[at].object)
      PROVE  sites'[at] = sites[at]
  <2>1. RequestedName(sites[at]) = sites[at].name
    BY <1>1, <1>4, Facts, ModuleSites DEF LinkInv, SourceInv
  <2>2. [sites[at] EXCEPT !.name = sites[at].name] = sites[at]
    BY <1>1 DEF SiteRecord
  <2>. QED
    BY <1>2, <2>1, <2>2
<1>5. ASSUME NEW r \in Made, NEW j \in DOMAIN UsesOf(r), sites[at] = Unit(r, j)
      PROVE  Looked(sites'[at], r, j)
  <2>1. /\ program \in Program /\ r \in Concrete /\ UsesOf(r)[j] \in Use
        /\ Unit(r, j).object = r /\ Unit(r, j).home = Instance(r, j).home
        /\ Unit(r, j).kind = UsesOf(r)[j].kind
    BY <1>1, AtUnit
  <2>2. Unit(r, j).to = UsesOf(r)[j].to
    BY <2>1, UnitFields
  <2>3. UsesOf(r)[j].kind = "call" /\ UsesOf(r)[j].to \in TemplateIds
    BY <1>1, <1>5, <2>1, <2>2 DEF IsGeneric
  <2>4. RequestedName(Unit(r, j)) = Instance(r, j).name
    BY <2>1, <2>3, UnitNames
  <2>. QED
    BY <1>3, <1>5, <2>1, <2>3, <2>4 DEF Looked
<1>. QED
  BY <1>1, <1>2, <1>3, <1>4, <1>5, LookLinks

\* A unit brings the sites of its template's uses, and its functions.
LEMMA InstantiateLinks ==
    ASSUME LinkInv, Replaceable(program), Instantiate, DemandInv'
    PROVE  LinkInv'
<1> DEFINE r == Head(queue)
           t == TemplateOf(r[1])
           added == [k \in DOMAIN t.uses |-> UnitSite(t, r[2], t.uses[k])]
<1>1. /\ program \in Program /\ sites \in Seq(SiteRecord) /\ queue \in Seq(Concrete)
      /\ Len(sites) \in Nat /\ at \in Nat /\ at <= Len(sites) + 1 /\ instances \subseteq Concrete
      /\ functions \subseteq [object : Object, name : Name, internal : BOOLEAN]
  BY Facts DEF LinkInv
<1>2. /\ queue # <<>> /\ pc = "extract" /\ at > Len(sites) /\ sites' = sites \o added
      /\ functions' = functions \cup UnitFunctions(t, r[2])
      /\ UNCHANGED <<program, pc, at, instances, declared>>
  BY DEF Instantiate
<1>3. r \in Concrete /\ ~IsModuleObject(r)
  <2>1. r \in Concrete
    BY <1>1, <1>2
  <2>. QED
    BY <1>1, <2>1, RequestFacts
<1>4. /\ added \in Seq(SiteRecord) /\ DOMAIN UsesOf(r) = 1..Len(added)
      /\ \A k \in 1..Len(added) : added[k] = Unit(r, k) /\ added[k].object = r
  <2>1. /\ added \in Seq(SiteRecord) /\ Len(added) = Len(t.uses) /\ DOMAIN t.uses = 1..Len(t.uses)
        /\ \A k \in 1..Len(added) : added[k].object = r
    BY <1>1, <1>3, UnitSites
  <2>2. \A k \in 1..Len(added) : added[k] = Unit(r, k)
    BY <2>1 DEF Unit, UsesOf
  <2>. QED
    BY <2>1, <2>2 DEF UsesOf
<1>5. UnitFunctions(t, r[2]) = {[object |-> r, name |-> FunctionName(r, w), internal |-> FALSE] : w \in Suffixes(r)}
      /\ <<>> \in Suffixes(r)
  BY <1>1, <1>3, FunctionsOf
<1>6. UnitFunctions(t, r[2]) = UnitFunctions(TemplateOf(r[1]), r[2])
  OBVIOUS
<1>. HIDE DEF r, t, added
<1>7. Made' = Made \cup {r}
  <2>1. Made' = {f.object : f \in {g \in functions' : ~IsModuleObject(g.object)}}
    BY DEF Made, IsModuleObject
  <2>2. \A f \in UnitFunctions(t, r[2]) : f.object = r
    BY <1>5
  <2>3. \E f \in UnitFunctions(t, r[2]) : f.object = r
    <3>1. [object |-> r, name |-> FunctionName(r, <<>>), internal |-> FALSE] \in UnitFunctions(t, r[2])
      BY <1>5
    <3>. QED
      BY <3>1
  <2>. QED
    BY <1>2, <1>3, <2>1, <2>2, <2>3 DEF Made
<1>8. /\ Len(sites') = Len(sites) + Len(added) /\ Len(added) \in Nat
      /\ \A k \in 1..Len(sites) : sites'[k] = sites[k] /\ k \in 1..Len(sites')
      /\ \A j \in 1..Len(added) : sites'[Len(sites) + j] = added[j] /\ Len(sites) + j \in 1..Len(sites')
      /\ \A k \in 1..Len(sites') : k \in 1..Len(sites) \/ \E j \in 1..Len(added) : k = Len(sites) + j
  <2>1. sites' = sites \o added
    BY <1>2
  <2>2. /\ Len(sites') = Len(sites) + Len(added) /\ Len(added) \in Nat
        /\ \A k \in 1..Len(sites) : sites'[k] = sites[k]
        /\ \A j \in 1..Len(added) : sites'[Len(sites) + j] = added[j]
        /\ \A k \in 1..Len(sites') : k \in 1..Len(sites) \/ \E j \in 1..Len(added) : k = Len(sites) + j
    BY <1>1, <1>4, <2>1, Appended
  <2>. QED
    BY <1>1, <2>2
<1>9. /\ \A q : UsesOf(q)' = UsesOf(q)
      /\ \A q, j : Unit(q, j)' = Unit(q, j)
      /\ \A s, q, j : Looked(s, q, j)' <=> Looked(s, q, j)
  BY <1>2, SameUses
<1>10. /\ \A k \in 1..Len(sites) : k < at
       /\ \A j \in 1..Len(added) : ~(Len(sites) + j < at)
  BY <1>1, <1>2, <1>8
<1> DEFINE Later(k, q, j) == IF k < at THEN Looked(sites'[k], q, j) ELSE sites'[k] = Unit(q, j)
<1>11. /\ FromUnits' <=> \A k \in 1..Len(sites') : ~IsModuleObject(sites'[k].object) =>
                            /\ sites'[k].object \in Made'
                            /\ \E j \in DOMAIN UsesOf(sites'[k].object) : Later(k, sites'[k].object, j)
       /\ HasUnitSites' <=> \A q \in Made' : \A j \in DOMAIN UsesOf(q) : \E k \in 1..Len(sites') : Later(k, q, j)
  BY <1>2, <1>9 DEF FromUnits, HasUnitSites, UnitSiteOf, IsModuleObject
<1>12. /\ \A k \in 1..Len(sites) : \A q, j : UnitSiteOf(k, q, j) => Later(k, q, j)
       /\ \A j \in 1..Len(added) : Later(Len(sites) + j, r, j)
  <2>1. \A k \in 1..Len(sites) : \A q, j : UnitSiteOf(k, q, j) => Later(k, q, j)
    BY <1>8, <1>10 DEF UnitSiteOf
  <2>2. \A j \in 1..Len(added) : Later(Len(sites) + j, r, j)
    BY <1>4, <1>8, <1>10
  <2>. QED
    BY <2>1, <2>2
<1>. HIDE DEF Later
<1>13. SourceInv'
  <2>1. \A k \in 1..Len(sites') :
           IsModuleObject(sites'[k].object) => k \in 1..Len(sites) /\ sites'[k] = sites[k]
    <3>1. \A j \in 1..Len(added) : ~IsModuleObject(sites'[Len(sites) + j].object)
      BY <1>3, <1>4, <1>8
    <3>. QED
      BY <1>8, <3>1
  <2>2. \A k \in 1..Len(sites) : IsModuleObject(sites[k].object) => k \in 1..Len(sites') /\ sites'[k] = sites[k]
    BY <1>8
  <2>3. Len(sites') \in Nat
    BY <1>1, <1>8
  <2>4. UNCHANGED <<program, instances>> /\ pc' = "extract" /\ pc = "extract" /\ SourceInv
    BY <1>2 DEF LinkInv
  <2>. QED
    BY <1>1, <2>1, <2>2, <2>3, <2>4, KeepSource
<1>14. FromUnits'
  <2>1. ASSUME NEW k \in 1..Len(sites'), ~IsModuleObject(sites'[k].object)
        PROVE  /\ sites'[k].object \in Made'
               /\ \E j \in DOMAIN UsesOf(sites'[k].object) : Later(k, sites'[k].object, j)
    <3>1. CASE k \in 1..Len(sites)
      <4>1. sites'[k] = sites[k]
        BY <1>8, <3>1
      <4>2. sites[k].object \in Made /\ \E j \in DOMAIN UsesOf(sites[k].object) : UnitSiteOf(k, sites[k].object, j)
        BY <2>1, <3>1, <4>1 DEF LinkInv, FromUnits
      <4>. QED
        BY <1>7, <1>12, <3>1, <4>1, <4>2
    <3>2. CASE \E j \in 1..Len(added) : k = Len(sites) + j
      <4>1. PICK j \in 1..Len(added) : k = Len(sites) + j
        BY <3>2
      <4>2. sites'[k].object = r /\ j \in DOMAIN UsesOf(r) /\ Later(k, r, j)
        BY <1>4, <1>8, <1>12, <4>1
      <4>. QED
        BY <1>7, <4>2
    <3>. QED
      BY <1>8, <3>1, <3>2
  <2>. QED
    BY <1>11, <2>1
<1>15. HasUnitSites'
  <2>1. ASSUME NEW q \in Made', NEW j \in DOMAIN UsesOf(q)
        PROVE  \E k \in 1..Len(sites') : Later(k, q, j)
    <3>1. CASE q \in Made
      <4>1. PICK k \in 1..Len(sites) : UnitSiteOf(k, q, j)
        BY <3>1 DEF LinkInv, HasUnitSites
      <4>. QED
        BY <1>8, <1>12, <4>1
    <3>2. CASE q = r
      <4>1. j \in 1..Len(added)
        BY <1>4, <3>2
      <4>. QED
        BY <1>8, <1>12, <3>2, <4>1
    <3>. QED
      BY <1>7, <3>1, <3>2
  <2>. QED
    BY <1>11, <2>1
<1>16. HasFunctions'
  <2>1. UnitsOf(Made \cup {r}) = UnitsOf(Made) \cup UnitFunctions(TemplateOf(r[1]), r[2])
    BY DEF UnitsOf
  <2>2. functions = GivenFunctions \cup InstancesOf(instances) \cup UnitsOf(Made)
    BY <1>2 DEF LinkInv, HasFunctions
  <2>. QED
    BY <1>2, <1>6, <1>7, <2>1, <2>2, FunctionParts
<1>17. ModulesDeclare'
  <2>1. GivenFunctions' = GivenFunctions /\ InstancesOf(instances)' = InstancesOf(instances)
    BY <1>2, SameUses DEF InstancesOf, InstanceFunctions, TemplateOf, MangleFunctionName, ModuleObject
  <2>2. \A k \in 1..Len(sites') : IsModuleObject(sites'[k].object) => k \in 1..Len(sites) /\ sites'[k] = sites[k]
    BY <1>3, <1>4, <1>8
  <2>. QED
    BY <1>2, <2>1, <2>2 DEF LinkInv, ModulesDeclare, IsModuleObject
<1>18. UnitsDeclare'
  BY <1>2 DEF UnitsDeclare
<1>. QED
  BY <1>13, <1>14, <1>15, <1>16, <1>17, <1>18 DEF LinkInv

\* When nothing is left to do, the units have replaced all instances.
LEMMA KeptFunctions ==
    ASSUME LinkInv, Replaceable(program), pc \in {"extract", "done"}, at > Len(sites), queue = <<>>
    PROVE  /\ Made = queued /\ instances = queued
           /\ Kept = GivenFunctions \cup UnitsOf(Made)
           /\ \A n : n \in Removed <=> \E r \in Made : \E w \in Suffixes(r) : n = FunctionName(r, w)
<1>1. program \in Program /\ queued \subseteq Concrete
  BY Facts DEF LinkInv
<1>2. Waiting = {}
  BY DEF Waiting
<1>3. Made = queued /\ instances = queued
  BY <1>2, MadeFacts, QueuedInstances, InstancesQueued DEF LinkInv
<1>4. Made \in SUBSET Concrete
  BY <1>1, <1>3
<1>5. functions = GivenFunctions \cup (IF pc = "done" THEN {} ELSE InstancesOf(Made)) \cup UnitsOf(Made)
  BY <1>3 DEF LinkInv, HasFunctions
<1>6. \A n : n \in Removed <=> \E f \in UnitsOf(Made) : n = f.name
  <2>1. \A f \in functions : ~IsModuleObject(f.object) <=> f \in UnitsOf(Made)
    BY <1>1, <1>4, <1>5, GivenObjects, InstanceObjects
  <2>. QED
    BY <1>5, <2>1 DEF Removed
<1>7. \A n : n \in Removed <=> \E r \in Made : \E w \in Suffixes(r) : n = FunctionName(r, w)
  <2>1. ASSUME NEW n, n \in Removed
        PROVE  \E r \in Made : \E w \in Suffixes(r) : n = FunctionName(r, w)
    <3>1. PICK f \in UnitsOf(Made) : n = f.name
      BY <1>6, <2>1
    <3>2. \E r \in Made : \E w \in Suffixes(r) :
             f = [object |-> r, name |-> FunctionName(r, w), internal |-> FALSE]
      BY <1>1, <1>4, <3>1, InstanceObjects
    <3>. QED
      BY <3>1, <3>2
  <2>2. ASSUME NEW r \in Made, NEW w \in Suffixes(r)
        PROVE  FunctionName(r, w) \in Removed
    <3> DEFINE f == [object |-> r, name |-> FunctionName(r, w), internal |-> FALSE]
    <3>1. f \in UnitsOf(Made) /\ f.name = FunctionName(r, w)
      BY <1>1, <1>4, InstanceObjects
    <3>. QED
      BY <1>6, <3>1
  <2>. QED
    BY <2>1, <2>2
<1>8. \A f \in GivenFunctions : f.name \notin Removed
  <2>1. ASSUME NEW f \in GivenFunctions, f.name \in Removed
        PROVE  FALSE
    <3>1. PICK g \in program.functions : f.name = MangleFunctionName(g.id, <<>>)
      BY <1>1, GivenObjects
    <3>2. PICK r \in Made : \E w \in Suffixes(r) : f.name = FunctionName(r, w)
      BY <1>7, <2>1
    <3>. QED
      BY <1>1, <1>4, <3>1, <3>2, Distinct
  <2>. QED
    BY <2>1
<1>9. \A f \in InstancesOf(Made) : IsModuleObject(f.object) /\ f.name \in Removed
  <2>1. ASSUME NEW f \in InstancesOf(Made)
        PROVE  IsModuleObject(f.object) /\ f.name \in Removed
    <3>1. \E r \in Made : \E w \in Suffixes(r) :
             f = [object |-> ModuleObject(r[1]), name |-> FunctionName(r, w),
                  internal |-> TemplateOf(r[1]).internal]
      BY <1>1, <1>4, InstanceObjects
    <3>2. IsModuleObject(f.object)
      BY <1>1, <1>4, InstanceObjects
    <3>. QED
      BY <1>7, <3>1, <3>2
  <2>. QED
    BY <2>1
<1>10. \A f \in UnitsOf(Made) : ~IsModuleObject(f.object)
  BY <1>1, <1>4, InstanceObjects
<1>. QED
  BY <1>3, <1>5, <1>7, <1>8, <1>9, <1>10 DEF Kept

LEMMA FinishLinks ==
    ASSUME LinkInv, Replaceable(program), Finish, DemandInv'
    PROVE  LinkInv'
<1>1. /\ pc = "extract" /\ pc' = "done" /\ at > Len(sites) /\ queue = <<>>
      /\ functions' = Kept /\ declared' = declared \cup Imports \cup UnitExterns
      /\ UNCHANGED <<program, at, sites, instances>>
  BY DEF Finish
<1>2. /\ program \in Program /\ instances \subseteq Concrete /\ Len(sites) \in Nat
  BY Facts DEF LinkInv
<1>3. /\ Kept = GivenFunctions \cup UnitsOf(Made) /\ Made = instances
  BY <1>1, KeptFunctions
<1>4. SourceInv'
  BY <1>1, <1>2, KeepSource DEF LinkInv
<1>5. Removed' = Removed /\ Made' = Made
  <2>1. {g \in Kept : ~IsModuleObject(g.object)} = {g \in functions : ~IsModuleObject(g.object)}
    BY DEF Kept
  <2>. QED
    BY <1>1, <2>1 DEF Removed, Made, IsModuleObject
<1>6. Kept' = Kept
  BY <1>1, <1>5 DEF Kept, IsModuleObject
<1>7. LiveSites' = LiveSites /\ \A o, n : IsDefinedIn(o, n)' <=> IsDefinedIn(o, n)
  BY <1>1, <1>6 DEF LiveSites, IsDefinedIn
<1>8. Imports' = Imports /\ UnitExterns' = UnitExterns
  BY <1>5, <1>7 DEF Imports, UnitExterns, IsCall, IsModuleObject
<1>9. UnitsDeclare'
  BY <1>1, <1>8 DEF UnitsDeclare
<1>10. /\ \A r : UsesOf(r)' = UsesOf(r)
       /\ \A r, j : Unit(r, j)' = Unit(r, j)
       /\ \A s, r, j : Looked(s, r, j)' <=> Looked(s, r, j)
  BY <1>1, SameUses
<1>11. \A k, r, j : UnitSiteOf(k, r, j)' <=> UnitSiteOf(k, r, j)
  BY <1>1, <1>10 DEF UnitSiteOf
<1>12. FromUnits' /\ HasUnitSites'
  <2>1. FromUnits'
    BY <1>1, <1>5, <1>10, <1>11 DEF LinkInv, FromUnits, IsModuleObject
  <2>2. HasUnitSites'
    BY <1>1, <1>5, <1>10, <1>11 DEF LinkInv, HasUnitSites
  <2>. QED
    BY <2>1, <2>2
<1>13. HasFunctions'
  BY <1>1, <1>3, <1>5, FunctionParts
<1>14. ModulesDeclare'
  <2>1. GivenFunctions' = GivenFunctions /\ InstancesOf(instances)' = InstancesOf(instances)
    BY <1>1, SameUses DEF InstancesOf, InstanceFunctions, TemplateOf, MangleFunctionName, ModuleObject
  <2>2. declared \subseteq declared'
    BY <1>1
  <2>3. \A k \in 1..Len(sites) : IsModuleObject(sites[k].object) =>
            \/ <<sites[k].object, sites[k].name>> \in declared
            \/ \E f \in GivenFunctions \cup InstancesOf(instances) :
                  f.object = sites[k].object /\ f.name = sites[k].name
    BY <1>1 DEF LinkInv, ModulesDeclare
  <2>. QED
    BY <1>1, <2>1, <2>2, <2>3 DEF ModulesDeclare, IsModuleObject
<1>. QED
  BY <1>4, <1>9, <1>12, <1>13, <1>14 DEF LinkInv

LEMMA NextLinks ==
    ASSUME LinkInv, Replaceable(program), [Next]_vars
    PROVE  LinkInv'
<1>1. DemandInv'
  BY NextDemands DEF LinkInv
<1>2. CASE AttributeKnown
  <2>1. /\ pc = "attribute" /\ pc' = pc /\ at' = at + 1 /\ at \in Nat
        /\ sites[at].to \notin TemplateIds \/ Request(sites[at]) \in instances
        /\ UNCHANGED <<program, sites, functions, instances, declared>>
    BY <1>2, Facts DEF AttributeKnown, LinkInv
  <2>2. \A k \in 1..Len(sites) : k < at' => k < at \/ k = at
    BY <2>1
  <2>. QED
    BY <1>1, <2>1, <2>2, SameLinks
<1>3. CASE Unavailable
  <2>1. /\ pc = "extract" /\ pc' = "failed" /\ at' = at
        /\ UNCHANGED <<program, sites, functions, instances, declared>>
    BY <1>3 DEF Unavailable, Looking
  <2>. QED
    BY <1>1, <2>1, SameLinks
<1>4. CASE UNCHANGED vars
  <2>1. pc' = pc /\ at' = at /\ UNCHANGED <<program, sites, functions, instances, declared>>
    BY <1>4 DEF vars
  <2>. QED
    BY <1>1, <2>1, SameLinks
<1>. QED
  BY <1>1, <1>2, <1>3, <1>4, AttributeLinks, GenerateLinks, SkipLinks, MethodLinks, TemplateLinks,
     InstantiateLinks, FinishLinks DEF Next, Extract, Done

LEMMA StaysReplaceable ==
    ASSUME [Next]_vars
    PROVE  Replaceable(program)' <=> Replaceable(program)
<1>1. UNCHANGED program
  BY DEF Next, Attribute, AttributeKnown, Generate, Extract, SkipCall, CallMethod, Unavailable,
         RequestTemplate, Instantiate, Finish, Done, vars
<1>2. Replaceable(program)' <=> Replaceable(program')
  BY DEF Replaceable, DistinctNames, PlainTemplate, PlainUse, PlainSite, IsFunction, IsPublic,
         IsTemplate, BelongsTo, Written, Writes, Own, IsPrefixOf, MangleFunctionName
<1>. QED
  BY <1>1, <1>2

\* In every behaviour of a program whose units replace its instances.
LEMMA LinkInvariant == Spec => [](Replaceable(program) => LinkInv)
<1>1. Init => (Replaceable(program) => LinkInv)
  BY InitLinks
<1>2. (Replaceable(program) => LinkInv) /\ [Next]_vars => (Replaceable(program) => LinkInv)'
  <2>1. SUFFICES ASSUME Replaceable(program) => LinkInv, [Next]_vars, Replaceable(program)'
                 PROVE  LinkInv'
    OBVIOUS
  <2>2. Replaceable(program)
    BY <2>1, StaysReplaceable
  <2>. QED
    BY <2>1, <2>2, NextLinks
<1>. QED
  BY <1>1, <1>2, PTL DEF Spec

-----------------------------------------------------------------------------
(* At the end.                                                              *)

LEMMA AtEnd ==
    ASSUME LinkInv, Replaceable(program), pc = "done"
    PROVE  /\ program \in Program /\ queued \in SUBSET Concrete
           /\ Made = queued /\ instances = queued
           /\ Kept = functions /\ functions = GivenFunctions \cup UnitsOf(queued)
           /\ DOMAIN sites = 1..Len(sites) /\ \A k \in 1..Len(sites) : k < at
           /\ \A n : n \in Removed <=> \E r \in queued : \E w \in Suffixes(r) : n = FunctionName(r, w)
<1>1. /\ program \in Program /\ queued \in SUBSET Concrete /\ at \in Nat /\ Len(sites) \in Nat
      /\ DOMAIN sites = 1..Len(sites)
  BY Facts DEF LinkInv
<1>2. at > Len(sites) /\ queue = <<>>
  BY DEF LinkInv, DemandInv, Finished
<1>3. /\ Made = queued /\ instances = queued /\ Kept = GivenFunctions \cup UnitsOf(Made)
      /\ \A n : n \in Removed <=> \E r \in Made : \E w \in Suffixes(r) : n = FunctionName(r, w)
  BY <1>2, KeptFunctions
<1>4. functions = GivenFunctions \cup UnitsOf(Made)
  BY DEF LinkInv, HasFunctions
<1>5. \A k \in 1..Len(sites) : k < at
  BY <1>1, <1>2
<1>. QED
  BY <1>1, <1>3, <1>4, <1>5

\* Modules define what they were given, and units what instances are.
LEMMA DefinedAtEnd ==
    ASSUME LinkInv, Replaceable(program), pc = "done", NEW f \in functions
    PROVE  \/ /\ IsModuleObject(f.object)
              /\ \E g \in program.functions :
                    /\ g.id \in Identifier
                    /\ f = [object |-> ModuleObject(g.id), name |-> MangleFunctionName(g.id, <<>>),
                            internal |-> g.internal]
           \/ /\ ~IsModuleObject(f.object)
              /\ \E r \in queued : \E w \in Suffixes(r) :
                    f = [object |-> r, name |-> FunctionName(r, w), internal |-> FALSE]
<1>1. /\ program \in Program /\ queued \in SUBSET Concrete
      /\ functions = GivenFunctions \cup UnitsOf(queued)
  BY AtEnd
<1>2. CASE f \in GivenFunctions
  <2>1. IsModuleObject(f.object)
    BY <1>1, <1>2, GivenObjects
  <2>2. PICK g \in program.functions :
           f = [object |-> ModuleObject(g.id), name |-> MangleFunctionName(g.id, <<>>), internal |-> g.internal]
    BY <1>2 DEF GivenFunctions
  <2>3. g.id \in Identifier
    BY <1>1, ProgramAssumption DEF Programs
  <2>. QED
    BY <2>1, <2>2, <2>3
<1>3. CASE f \in UnitsOf(queued)
  BY <1>1, <1>3, InstanceObjects
<1>. QED
  BY <1>1, <1>2, <1>3

\* A module is left with its own functions.
LEMMA BaseAtEnd ==
    ASSUME LinkInv, Replaceable(program)
    PROVE  BaseUnvarying
<1>1. ASSUME pc = "done", NEW g \in program.functions, NEW f \in functions, f.object = ModuleObject(g.id)
      PROVE  f.name \in {MangleFunctionName(h.id, <<>>) : h \in program.functions}
  <2>1. program \in Program
    BY <1>1, AtEnd
  <2>2. g.id \in Identifier
    BY <2>1, ProgramAssumption DEF Programs
  <2>3. IsModuleObject(f.object)
    BY <1>1, <2>2, ModuleObjectType
  <2>. QED
    BY <1>1, <2>3, DefinedAtEnd
<1>. QED
  BY <1>1 DEF BaseUnvarying

LEMMA BareInjective ==
    ASSUME NEW a \in Identifier, NEW b \in Identifier,
           MangleFunctionName(a, <<>>) = MangleFunctionName(b, <<>>)
    PROVE  a = b
<1> DEFINE m == a.module
           n == b.module
           v == a.words
           w == b.words
<1>1. m \in Word /\ n \in Word /\ v \in Seq(Word) /\ w \in Seq(Word)
  BY DEF Identifier, Name
<1>2. <<m>> \o v = <<n>> \o w
  BY BareName
<1>3. a = [module |-> m, words |-> v] /\ b = [module |-> n, words |-> w]
  BY DEF Identifier
<1>. HIDE DEF m, n, v, w
<1>4. <<m>> \in Seq(Word) /\ <<n>> \in Seq(Word) /\ Len(<<m>>) = 1 /\ Len(<<n>>) = 1
  BY <1>1
<1>5. /\ Len(<<m>> \o v) = 1 + Len(v) /\ \A i \in 1..1 + Len(v) : (<<m>> \o v)[i] = IF i <= 1 THEN <<m>>[i] ELSE v[i - 1]
      /\ Len(<<n>> \o w) = 1 + Len(w) /\ \A i \in 1..1 + Len(w) : (<<n>> \o w)[i] = IF i <= 1 THEN <<n>>[i] ELSE w[i - 1]
  BY <1>1, <1>4, ConcatProperties
<1> DEFINE x == <<m>> \o v
           y == <<n>> \o w
<1>. HIDE DEF x, y
<1>6. /\ x = y /\ Len(x) = 1 + Len(v) /\ Len(y) = 1 + Len(w) /\ Len(v) \in Nat /\ Len(w) \in Nat
      /\ \A i \in 1..1 + Len(v) : x[i] = IF i <= 1 THEN m ELSE v[i - 1]
      /\ \A i \in 1..1 + Len(w) : y[i] = IF i <= 1 THEN n ELSE w[i - 1]
  BY <1>1, <1>2, <1>5 DEF x, y
<1>7. m = n /\ Len(v) = Len(w)
  <2>1. Len(v) = Len(w) /\ 1 \in 1..1 + Len(v) /\ 1 \in 1..1 + Len(w)
    BY <1>6
  <2>. QED
    BY <1>6, <2>1
<1>8. \A i \in 1..Len(v) : v[i] = w[i]
  <2>1. SUFFICES ASSUME NEW i \in 1..Len(v) PROVE v[i] = w[i]
    OBVIOUS
  <2>2. i + 1 \in 1..1 + Len(v) /\ i + 1 \in 1..1 + Len(w) /\ ~(i + 1 <= 1) /\ (i + 1) - 1 = i
    BY <1>6, <1>7
  <2>. QED
    BY <1>6, <2>2
<1>9. v = w
  BY <1>1, <1>7, <1>8, SeqEqual
<1>. QED
  BY <1>3, <1>7, <1>9

\* Nothing is defined twice for all.
LEMMA OnceAtEnd ==
    ASSUME LinkInv, Replaceable(program)
    PROVE  OneDefinition
<1>1. ASSUME pc = "done", NEW f \in functions, NEW g \in functions, f.name = g.name,
             ~f.internal, ~g.internal, IsModuleObject(f.object)
      PROVE  f = g
  <2>1. program \in Program /\ queued \in SUBSET Concrete
    BY <1>1, AtEnd
  <2>2. PICK h \in program.functions :
           /\ h.id \in Identifier
           /\ f = [object |-> ModuleObject(h.id), name |-> MangleFunctionName(h.id, <<>>),
                   internal |-> h.internal]
    BY <1>1, DefinedAtEnd
  <2>3. CASE IsModuleObject(g.object)
    <3>1. PICK i \in program.functions :
             /\ i.id \in Identifier
             /\ g = [object |-> ModuleObject(i.id), name |-> MangleFunctionName(i.id, <<>>),
                     internal |-> i.internal]
      BY <1>1, <2>3, DefinedAtEnd
    <3>2. h.id = i.id
      BY <1>1, <2>2, <3>1, BareInjective
    <3>3. h.internal = FALSE /\ i.internal = FALSE
      <4>1. h.internal \in BOOLEAN /\ i.internal \in BOOLEAN
        BY <2>1, ProgramAssumption DEF Programs
      <4>2. ~h.internal /\ ~i.internal
        BY <1>1, <2>2, <3>1
      <4>. QED
        BY <4>1, <4>2
    <3>. QED
      BY <2>2, <3>1, <3>2, <3>3
  <2>4. CASE ~IsModuleObject(g.object)
    <3>1. PICK r \in queued : \E w \in Suffixes(r) :
             g = [object |-> r, name |-> FunctionName(r, w), internal |-> FALSE]
      BY <1>1, <2>4, DefinedAtEnd
    <3>2. PICK w \in Suffixes(r) : g = [object |-> r, name |-> FunctionName(r, w), internal |-> FALSE]
      BY <3>1
    <3>. QED
      BY <1>1, <2>1, <2>2, <3>2, Distinct
  <2>. QED
    BY <2>3, <2>4
<1>2. ASSUME pc = "done", NEW f \in functions, NEW g \in functions, f.name = g.name,
             ~IsModuleObject(f.object), ~IsModuleObject(g.object)
      PROVE  f = g
  <2>1. program \in Program /\ queued \in SUBSET Concrete
    BY <1>2, AtEnd
  <2>2. PICK r \in queued : \E w \in Suffixes(r) :
           f = [object |-> r, name |-> FunctionName(r, w), internal |-> FALSE]
    BY <1>2, DefinedAtEnd
  <2>3. PICK w \in Suffixes(r) : f = [object |-> r, name |-> FunctionName(r, w), internal |-> FALSE]
    BY <2>2
  <2>4. PICK q \in queued : \E v \in Suffixes(q) :
           g = [object |-> q, name |-> FunctionName(q, v), internal |-> FALSE]
    BY <1>2, DefinedAtEnd
  <2>5. PICK v \in Suffixes(q) : g = [object |-> q, name |-> FunctionName(q, v), internal |-> FALSE]
    BY <2>4
  <2>6. FunctionName(r, w) = FunctionName(q, v)
    BY <1>2, <2>3, <2>5
  <2>7. r = q
    BY <2>1, <2>6, Distinct
  <2>. QED
    BY <2>3, <2>5, <2>6, <2>7
<1>3. ASSUME pc = "done", NEW f \in functions, NEW g \in functions, f.name = g.name,
             ~f.internal, ~g.internal
      PROVE  f = g
  BY <1>1, <1>2, <1>3
<1>. QED
  BY <1>3 DEF OneDefinition

\* A unit agrees with its instance.
LEMMA AgreeAtEnd ==
    ASSUME LinkInv, Replaceable(program)
    PROVE  SameCallees
<1> DEFINE names(object, home) ==
             {s.name : s \in {u \in {sites[k] : k \in DOMAIN sites} : u.object = object /\ u.home = home}}
<1>1. ASSUME pc = "done", NEW r \in queued, NEW w \in Suffixes(r)
      PROVE  names(r, FunctionName(r, w)) = names(ModuleObject(r[1]), FunctionName(r, w))
  <2>1. /\ program \in Program /\ queued \in SUBSET Concrete /\ r \in Concrete
        /\ Made = queued /\ instances = queued /\ DOMAIN sites = 1..Len(sites)
        /\ \A k \in 1..Len(sites) : k < at
    BY <1>1, AtEnd
  <2>2. r[1] \in Identifier /\ ~IsModuleObject(r) /\ IsModuleObject(ModuleObject(r[1]))
    <3>1. r[1] \in Identifier
      BY <2>1, ReplaceableFacts
    <3>. QED
      BY <2>1, <3>1, RequestFacts, ModuleObjectType
  <2>3. ASSUME NEW k \in 1..Len(sites), sites[k].object = r, sites[k].home = FunctionName(r, w)
        PROVE  sites[k].name \in names(ModuleObject(r[1]), FunctionName(r, w))
    <3>1. PICK j \in DOMAIN UsesOf(r) : UnitSiteOf(k, r, j)
      BY <2>2, <2>3 DEF LinkInv, FromUnits
    <3>2. sites[k].home = Instance(r, j).home /\ sites[k].name = Instance(r, j).name
      BY <2>1, <3>1 DEF UnitSiteOf, Looked
    <3>3. PICK i \in 1..Len(sites) : sites[i] = Instance(r, j)
      BY <2>1 DEF LinkInv, SourceInv, HasSites
    <3>4. Instance(r, j).object = ModuleObject(r[1])
      BY <2>1, InstanceFields
    <3>. QED
      BY <2>1, <2>3, <3>2, <3>3, <3>4
  <2>4. ASSUME NEW k \in 1..Len(sites), sites[k].object = ModuleObject(r[1]),
               sites[k].home = FunctionName(r, w)
        PROVE  sites[k].name \in names(r, FunctionName(r, w))
    <3>1. CASE \E j \in DOMAIN program.sites : sites[k] = Given(j)
      <4>1. PICK j \in DOMAIN program.sites : sites[k] = Given(j)
        BY <3>1
      <4>2. Given(j).home = MangleFunctionName(program.sites[j].in, <<>>)
        BY <2>1, GivenFields
      <4>3. PICK f \in program.functions : f.id = program.sites[j].in
        BY DEF Replaceable, PlainSite, IsFunction
      <4>. QED
        BY <2>1, <2>4, <4>1, <4>2, <4>3, Distinct
    <3>2. CASE \E q \in instances : \E j \in DOMAIN UsesOf(q) : sites[k] = Instance(q, j)
      <4>1. PICK q \in instances : \E j \in DOMAIN UsesOf(q) : sites[k] = Instance(q, j)
        BY <3>2
      <4>2. PICK j \in DOMAIN UsesOf(q) : sites[k] = Instance(q, j)
        BY <4>1
      <4>3. q \in Concrete
        BY <2>1
      <4>4. sites[k].home = FunctionName(q, UsesOf(q)[j].home)
        BY <2>1, <4>2, <4>3, InstanceFields DEF FunctionName
      <4>5. UsesOf(q)[j].home \in Suffixes(q)
        <5>1. PlainUse(program, TemplateOf(q[1]), UsesOf(q)[j])
          BY <2>1, <4>3, ReplaceableFacts
        <5>. QED
          BY <5>1 DEF PlainUse, Suffixes
      <4>6. r = q
        BY <2>1, <2>4, <4>3, <4>4, <4>5, Distinct
      <4>7. PICK i \in 1..Len(sites) : UnitSiteOf(i, r, j)
        BY <2>1, <4>6 DEF LinkInv, HasUnitSites
      <4>8. /\ sites[i].object = r /\ sites[i].home = Instance(r, j).home
            /\ sites[i].name = Instance(r, j).name
        BY <2>1, <4>7 DEF UnitSiteOf, Looked
      <4>. QED
        BY <2>1, <2>4, <4>2, <4>6, <4>8
    <3>. QED
      BY <2>2, <2>4, <3>1, <3>2 DEF LinkInv, SourceInv, FromModules
  <2>. QED
    BY <2>1, <2>3, <2>4
<1>2. SameCallees <=>
        (pc = "done" => \A r \in queued : \A w \in {<<>>} \cup TemplateOf(r[1]).wrappers :
            names(r, MangleFunctionName(r[1], r[2]) \o w)
              = names(ModuleObject(r[1]), MangleFunctionName(r[1], r[2]) \o w))
  BY DEF SameCallees
<1>. HIDE DEF names
<1>. QED
  BY <1>1, <1>2 DEF FunctionName, Suffixes, Own

\* What a template needs no arguments for has none.
LEMMA NoArguments ==
    ASSUME program \in Program, NEW to, NEW args, Fits(program, to, args), ~IsTemplate(program, to)
    PROVE  args = <<>>
  BY DEF Fits, IsTemplate

\* What a template is meant by is one of its functions.
LEMMA RequestSuffix ==
    ASSUME program \in Program, NEW r \in Concrete, NEW suffix, BelongsTo(program, suffix, r[1])
    PROVE  suffix \in Suffixes(r)
<1>1. PICK t \in program.templates : t.id = r[1] /\ suffix \in Own(t)
  BY DEF BelongsTo
<1>2. TemplateOf(r[1]) \in program.templates /\ TemplateOf(r[1]).id = r[1]
  BY RequestFacts
<1>3. t = TemplateOf(r[1])
  BY <1>1, <1>2, ProgramAssumption DEF Accepts
<1>. QED
  BY <1>1, <1>3 DEF Suffixes

\* The function that a unit refers to is defined for all.
LEMMA UnitTarget ==
    ASSUME LinkInv, Replaceable(program), pc = "done", NEW k \in 1..Len(sites),
           NEW r \in queued, NEW j \in DOMAIN UsesOf(r), Looked(sites[k], r, j)
    PROVE  \E f \in functions : f.name = sites[k].name /\ ~f.internal
<1> DEFINE use == UsesOf(r)[j]
           t == TemplateOf(r[1])
           actual == Actual(r, j)
<1>1. /\ program \in Program /\ queued \in SUBSET Concrete /\ r \in Concrete
      /\ functions = GivenFunctions \cup UnitsOf(queued)
  BY AtEnd
<1>2. PlainUse(program, t, use) /\ use \in Use /\ t \in program.templates
  BY <1>1, ReplaceableFacts, InstanceFields
<1>3. ASSUME NEW id, IsPublic(program, id), sites[k].name = MangleFunctionName(id, <<>>)
      PROVE  \E f \in functions : f.name = sites[k].name /\ ~f.internal
  <2>1. PICK g \in program.functions : g.id = id /\ ~g.internal
    BY <1>3 DEF IsPublic
  <2> DEFINE f == [object |-> ModuleObject(g.id), name |-> MangleFunctionName(g.id, <<>>), internal |-> g.internal]
  <2>2. f \in functions
    BY <1>1 DEF GivenFunctions
  <2>3. f.name = sites[k].name /\ ~f.internal
    BY <1>3, <2>1
  <2>. QED
    BY <2>2, <2>3
<1>4. CASE use.kind = "require"
  <2>1. PICK m \in program.methods :
           m.require = use.to.words /\ sites[k].name = MangleFunctionName(m.to, <<>>)
    BY <1>4 DEF Looked
  <2>2. IsPublic(program, m.to)
    BY <1>2, <1>4, <2>1 DEF PlainUse, Looked
  <2>. QED
    BY <1>3, <2>1, <2>2
<1>5. CASE use.kind # "require" /\ ~IsTemplate(program, use.to)
  <2>1. use.suffix = <<>> /\ IsPublic(program, use.to)
    BY <1>2, <1>5 DEF PlainUse
  <2>2. /\ sites[k].name = MangleFunctionName(use.to, actual) \o use.suffix
        /\ Fits(program, use.to, actual)
    BY <1>1, <1>5, InstanceFields DEF Looked
  <2>3. actual = <<>>
    BY <1>1, <1>5, <2>2, NoArguments
  <2>4. MangleFunctionName(use.to, <<>>) \o <<>> = MangleFunctionName(use.to, <<>>)
    <3>1. MangleFunctionName(use.to, <<>>) \in Name
      BY <1>2, BareName DEF Use
    <3>. QED
      BY <3>1, ConcatEmptySeq DEF Name
  <2>5. sites[k].name = MangleFunctionName(use.to, <<>>)
    BY <2>1, <2>2, <2>3, <2>4
  <2>. QED
    BY <1>3, <2>1, <2>5
<1>6. CASE use.kind # "require" /\ IsTemplate(program, use.to)
  <2> DEFINE q == <<use.to, actual>>
  <2>1. use.kind \in {"call", "direct"} /\ BelongsTo(program, use.suffix, use.to)
    BY <1>2, <1>6 DEF PlainUse, Use
  <2>2. /\ sites[k].name = MangleFunctionName(use.to, actual) \o use.suffix
    BY <1>1, <1>6, InstanceFields DEF Looked
  <2>3. q \in queued
    <3>1. CASE use.kind = "direct"
      BY <1>1, <1>6, <3>1, DirectCalls
    <3>2. CASE use.kind = "call"
      <4>1. use.to \in TemplateIds
        BY <1>6 DEF IsTemplate, TemplateIds
      <4>2. q \in Asked(r)
        BY <3>2, <4>1 DEF Asked, Actual, UsesOf
      <4>3. Closed(queued)
        BY EndClosed DEF LinkInv
      <4>. QED
        BY <4>2, <4>3 DEF Closed
    <3>. QED
      BY <2>1, <3>1, <3>2
  <2>4. use.suffix \in Suffixes(q)
    BY <1>1, <2>1, <2>3, RequestSuffix
  <2>5. sites[k].name = FunctionName(q, use.suffix)
    BY <2>2 DEF FunctionName
  <2>. HIDE DEF q
  <2> DEFINE f == [object |-> q, name |-> FunctionName(q, use.suffix), internal |-> FALSE]
  <2>6. f \in functions
    BY <1>1, <2>3, <2>4, InstanceObjects
  <2>. QED
    BY <2>5, <2>6
<1>. QED
  BY <1>4, <1>5, <1>6

\* What a unit refers to resolves: a call because the unit declares it, and an address
\* because the unit calls what it takes the address of.
LEMMA UnitResolves ==
    ASSUME LinkInv, Replaceable(program), pc = "done", NEW k \in 1..Len(sites),
           ~IsModuleObject(sites[k].object)
    PROVE  Resolves(sites[k])
<1> DEFINE r == sites[k].object
<1>1. /\ program \in Program /\ queued \in SUBSET Concrete /\ Made = queued /\ Kept = functions
      /\ functions = GivenFunctions \cup UnitsOf(queued) /\ DOMAIN sites = 1..Len(sites)
      /\ \A i \in 1..Len(sites) : i < at
  BY AtEnd
<1>2. r \in queued /\ \E j \in DOMAIN UsesOf(r) : UnitSiteOf(k, r, j)
  BY <1>1 DEF LinkInv, FromUnits
<1>3. r \in Concrete
  BY <1>1, <1>2
<1>. HIDE DEF r
<1>4. PICK j \in DOMAIN UsesOf(r) : UnitSiteOf(k, r, j)
  BY <1>2
<1>5. Looked(sites[k], r, j)
  BY <1>1, <1>4 DEF UnitSiteOf
<1> DEFINE t == TemplateOf(r[1])
           use == UsesOf(r)[j]
<1>6. PlainUse(program, t, use) /\ use \in Use
  BY <1>1, <1>3, ReplaceableFacts, InstanceFields
\* A unit's call of a function declares it, or the function is the unit's own.
<1>7. ASSUME NEW i \in 1..Len(sites), NEW h \in DOMAIN UsesOf(r), Looked(sites[i], r, h),
             UsesOf(r)[h].kind # "address"
      PROVE  \/ IsDefinedIn(r, sites[i].name)
             \/ <<r, sites[i].name>> \in declared
  <2>1. sites[i].object = r /\ IsCall(sites[i]) /\ ~IsModuleObject(r)
    BY <1>1, <1>3, <1>7, RequestFacts DEF Looked, IsCall
  <2>2. sites[i].home = FunctionName(r, UsesOf(r)[h].home)
    BY <1>1, <1>3, <1>7, InstanceFields DEF Looked, FunctionName
  <2>3. UsesOf(r)[h].home \in Suffixes(r)
    <3>1. PlainUse(program, t, UsesOf(r)[h])
      BY <1>1, <1>3, ReplaceableFacts
    <3>. QED
      BY <3>1 DEF PlainUse, Suffixes
  <2>4. IsDefinedIn(r, sites[i].home)
    <3> DEFINE f == [object |-> r, name |-> FunctionName(r, UsesOf(r)[h].home), internal |-> FALSE]
    <3>1. f \in functions
      BY <1>1, <1>2, <2>3, InstanceObjects
    <3>2. f.object = r /\ f.name = sites[i].home
      BY <2>2
    <3>. QED
      BY <1>1, <3>1, <3>2 DEF IsDefinedIn
  <2>5. sites[i] \in LiveSites
    BY <1>1, <2>1, <2>4 DEF LiveSites
  <2>6. ~IsDefinedIn(r, sites[i].name) => <<r, sites[i].name>> \in UnitExterns
    BY <2>1, <2>5 DEF UnitExterns
  <2>. QED
    BY <2>6 DEF LinkInv, UnitsDeclare
<1>8. \/ IsDefinedIn(r, sites[k].name)
      \/ <<r, sites[k].name>> \in declared
  <2>1. CASE use.kind # "address"
    BY <1>5, <1>7, <2>1
  <2>2. CASE use.kind = "address"
    <3>1. PICK h \in DOMAIN t.uses : /\ t.uses[h].kind \in {"call", "direct"} /\ t.uses[h].to = use.to
                                     /\ t.uses[h].suffix = use.suffix /\ t.uses[h].home \in Own(t)
      BY <1>6, <2>2 DEF PlainUse
    <3>2. h \in DOMAIN UsesOf(r) /\ UsesOf(r)[h] = t.uses[h]
      BY DEF UsesOf
    <3>3. ~IsTemplate(program, use.to)
      BY <1>6, <2>2 DEF PlainUse
    <3>4. Actual(r, j) = <<>> /\ Actual(r, h) = <<>>
      <4>1. Fits(program, use.to, Actual(r, j)) /\ Fits(program, UsesOf(r)[h].to, Actual(r, h))
        BY <1>1, <1>3, <2>2, <3>1, <3>2, InstanceFields
      <4>. QED
        BY <1>1, <3>1, <3>2, <3>3, <4>1, NoArguments
    <3>5. Instance(r, j).name = Instance(r, h).name
      <4>1. /\ Instance(r, j).name = MangleFunctionName(use.to, Actual(r, j)) \o use.suffix
            /\ Instance(r, h).name = MangleFunctionName(UsesOf(r)[h].to, Actual(r, h)) \o UsesOf(r)[h].suffix
        BY <1>1, <1>3, <2>2, <3>1, <3>2, InstanceFields
      <4>2. UsesOf(r)[h].to = use.to /\ UsesOf(r)[h].suffix = use.suffix
        BY <3>1, <3>2
      <4>. QED
        BY <3>4, <4>1, <4>2
    <3>6. PICK i \in 1..Len(sites) : UnitSiteOf(i, r, h)
      BY <1>1, <1>2, <3>2 DEF LinkInv, HasUnitSites
    <3>7. Looked(sites[i], r, h)
      BY <1>1, <3>6 DEF UnitSiteOf
    <3>8. sites[i].name = sites[k].name
      BY <1>5, <3>5, <3>7 DEF Looked
    <3>. QED
      BY <1>7, <3>1, <3>2, <3>7, <3>8
  <2>. QED
    BY <2>1, <2>2
<1>9. \E f \in functions : f.name = sites[k].name /\ ~f.internal
  BY <1>2, <1>5, UnitTarget
<1>10. sites[k].object = r
  BY DEF r
<1>. QED
  BY <1>1, <1>8, <1>9, <1>10 DEF Resolves, IsDefinedIn

\* So does what a function of a module refers to, unless the function went into a unit.
LEMMA ModuleResolves ==
    ASSUME LinkInv, Replaceable(program), pc = "done", NEW k \in 1..Len(sites),
           IsModuleObject(sites[k].object), sites[k] \in LiveSites
    PROVE  Resolves(sites[k])
<1>1. /\ program \in Program /\ queued \in SUBSET Concrete /\ instances = queued /\ Kept = functions
      /\ functions = GivenFunctions \cup UnitsOf(queued) /\ DOMAIN sites = 1..Len(sites)
      /\ \A n : n \in Removed <=> \E r \in queued : \E w \in Suffixes(r) : n = FunctionName(r, w)
  BY AtEnd
\* A module defines nothing of the name of an instance.
<1>2. ASSUME NEW object, IsModuleObject(object), NEW q \in queued, NEW v \in Suffixes(q),
             IsDefinedIn(object, FunctionName(q, v))
      PROVE  FALSE
  <2>1. PICK f \in functions : f.object = object /\ f.name = FunctionName(q, v)
    BY <1>1, <1>2 DEF IsDefinedIn
  <2>2. \E g \in program.functions : f.name = MangleFunctionName(g.id, <<>>)
    BY <1>2, <2>1, DefinedAtEnd
  <2>. QED
    BY <1>1, <2>1, <2>2, Distinct
<1>3. CASE \E r \in instances : \E j \in DOMAIN UsesOf(r) : sites[k] = Instance(r, j)
  <2>1. PICK r \in instances : \E j \in DOMAIN UsesOf(r) : sites[k] = Instance(r, j)
    BY <1>3
  <2>2. PICK j \in DOMAIN UsesOf(r) : sites[k] = Instance(r, j)
    BY <2>1
  <2>3. r \in Concrete /\ r \in queued
    BY <1>1
  <2>4. sites[k].home = FunctionName(r, UsesOf(r)[j].home)
    BY <1>1, <2>2, <2>3, InstanceFields DEF FunctionName
  <2>5. UsesOf(r)[j].home \in Suffixes(r)
    <3>1. PlainUse(program, TemplateOf(r[1]), UsesOf(r)[j])
      BY <1>1, <2>3, ReplaceableFacts
    <3>. QED
      BY <3>1 DEF PlainUse, Suffixes
  <2>6. IsDefinedIn(sites[k].object, sites[k].home)
    BY DEF LiveSites
  <2>. QED
    BY <1>2, <2>3, <2>4, <2>5, <2>6
<1>4. CASE \E j \in DOMAIN program.sites : sites[k] = Given(j)
  <2>1. PICK j \in DOMAIN program.sites : sites[k] = Given(j)
    BY <1>4
  <2> DEFINE use == program.sites[j].use
             in == program.sites[j].in
  <2>2. /\ in \in Identifier /\ use \in Use /\ Fits(program, use.to, use.args)
        /\ sites[k].object = ModuleObject(in) /\ sites[k].kind = use.kind
        /\ sites[k].to = use.to /\ sites[k].args = use.args
        /\ sites[k].name = MangleFunctionName(use.to, use.args) \o use.suffix
    BY <1>1, <2>1, GivenFields
  <2>3. PlainSite(program, program.sites[j])
    BY DEF Replaceable
  <2>4. CASE IsTemplate(program, use.to)
    <3> DEFINE q == <<use.to, use.args>>
    <3>1. use.kind = "call" /\ BelongsTo(program, use.suffix, use.to) /\ use.to \in TemplateIds
      BY <2>3, <2>4 DEF PlainSite, IsTemplate, TemplateIds
    <3>2. q \in queued
      <4>1. IsGeneric(sites[k]) /\ Request(sites[k]) = q
        BY <2>2, <3>1 DEF IsGeneric, Request
      <4>2. q \in ModulesAsk
        BY <1>1, <4>1 DEF ModulesAsk
      <4>3. Closed(queued)
        BY EndClosed DEF LinkInv
      <4>. QED
        BY <4>2, <4>3 DEF Closed
    <3>3. use.suffix \in Suffixes(q)
      BY <1>1, <3>1, <3>2, RequestSuffix
    <3>4. sites[k].name = FunctionName(q, use.suffix)
      BY <2>2 DEF FunctionName
    <3>5. IsCall(sites[k])
      BY <2>2, <3>1 DEF IsCall
    <3>. HIDE DEF q, use
    <3> DEFINE f == [object |-> q, name |-> FunctionName(q, use.suffix), internal |-> FALSE]
    <3>6. f \in functions /\ f.name = sites[k].name /\ ~f.internal
      BY <1>1, <3>2, <3>3, <3>4, InstanceObjects
    <3>7. ~IsDefinedIn(sites[k].object, sites[k].name)
      BY <1>2, <3>2, <3>3, <3>4
    <3>8. <<sites[k].object, sites[k].name>> \in Imports
      BY <1>1, <3>2, <3>3, <3>4, <3>5, <3>7 DEF Imports
    <3>9. <<sites[k].object, sites[k].name>> \in declared
      BY <3>8 DEF LinkInv, UnitsDeclare
    <3>. QED
      BY <3>6, <3>9 DEF Resolves
  <2>5. CASE ~IsTemplate(program, use.to)
    <3>1. use.suffix = <<>> /\ \E f \in program.functions :
                                  f.id = use.to /\ (f.internal => use.to.module = in.module)
      BY <2>3, <2>5 DEF PlainSite
    <3>2. PICK g \in program.functions : g.id = use.to /\ (g.internal => use.to.module = in.module)
      BY <3>1
    <3>3. use.args = <<>>
      BY <1>1, <2>2, <2>5, NoArguments
    <3>4. sites[k].name = MangleFunctionName(g.id, <<>>)
      <4>1. g.id \in Identifier
        BY <2>2, <3>2 DEF Use
      <4>2. MangleFunctionName(g.id, <<>>) \o <<>> = MangleFunctionName(g.id, <<>>)
        BY <4>1, BareName, ConcatEmptySeq DEF Name
      <4>3. sites[k].name = MangleFunctionName(g.id, <<>>) \o <<>>
        BY <2>2, <3>1, <3>2, <3>3
      <4>. QED
        BY <4>2, <4>3
    <3> DEFINE f == [object |-> ModuleObject(g.id), name |-> MangleFunctionName(g.id, <<>>),
                     internal |-> g.internal]
    <3>5. f \in functions /\ f.name = sites[k].name
      BY <1>1, <3>4 DEF GivenFunctions
    <3>6. CASE use.to.module = in.module
      <4>1. ModuleObject(in) = ModuleObject(use.to)
        <5>1. in \in Identifier /\ use.to \in Identifier
          BY <2>2 DEF Use
        <5>2. in = [module |-> in.module, words |-> in.words]
              /\ use.to = [module |-> use.to.module, words |-> use.to.words]
          BY <5>1 DEF Identifier
        <5>. QED
          BY <3>6, <5>1, <5>2 DEF ModuleObject, Identifier
      <4>2. f.object = sites[k].object
        BY <2>2, <3>2, <4>1
      <4>. QED
        BY <3>5, <4>2 DEF Resolves
    <3>7. CASE ~g.internal
      <4>1. CASE <<sites[k].object, sites[k].name>> \in declared
        BY <3>5, <3>7, <4>1 DEF Resolves
      <4>2. CASE \E d \in GivenFunctions \cup InstancesOf(instances) :
                    d.object = sites[k].object /\ d.name = sites[k].name
        <5>1. PICK d \in GivenFunctions \cup InstancesOf(instances) :
                 d.object = sites[k].object /\ d.name = sites[k].name
          BY <4>2
        <5>2. CASE d \in GivenFunctions
          BY <1>1, <5>1, <5>2 DEF Resolves
        <5>3. CASE d \in InstancesOf(instances)
          <6>1. \E q \in queued : \E v \in Suffixes(q) :
                   d = [object |-> ModuleObject(q[1]), name |-> FunctionName(q, v),
                        internal |-> TemplateOf(q[1]).internal]
            BY <1>1, <5>3, InstanceObjects
          <6>2. \E q \in queued : \E v \in Suffixes(q) : d.name = FunctionName(q, v)
            BY <6>1
          <6>. QED
            BY <1>1, <3>4, <5>1, <6>2, Distinct
        <5>. QED
          BY <5>1, <5>2, <5>3
      <4>. QED
        BY <4>1, <4>2 DEF LinkInv, ModulesDeclare
    <3>. QED
      BY <3>2, <3>6, <3>7
  <2>. QED
    BY <2>4, <2>5
<1>. QED
  BY <1>3, <1>4 DEF LinkInv, SourceInv, FromModules

LEMMA ResolvedAtEnd ==
    ASSUME LinkInv, Replaceable(program)
    PROVE  CallsResolve
<1>1. ASSUME pc = "done", NEW s \in LiveSites
      PROVE  Resolves(s)
  <2>1. DOMAIN sites = 1..Len(sites)
    BY <1>1, AtEnd
  <2>2. PICK k \in 1..Len(sites) : s = sites[k]
    BY <2>1 DEF LiveSites
  <2>. QED
    BY <1>1, <2>2, UnitResolves, ModuleResolves
<1>. QED
  BY <1>1 DEF CallsResolve

\* Every call in what is linked means one function. The instances that extraction takes
\* out of the modules (specializations.go:215-224) are found in their units, because the
\* modules declare what they call of them (addSpecializationImports, :247) and the units
\* all that they do not define (addSpecializationExterns, :329), and no two objects define
\* one name. Shown for the programs without the cases in which the loader goes wrong.
THEOREM CalleesDefinedOnce == Spec => [](Replaceable(program) => CallsMeanOne)
<1>1. (Replaceable(program) => LinkInv) => (Replaceable(program) => CallsMeanOne)
  BY ResolvedAtEnd, OnceAtEnd DEF CallsMeanOne
<1>. QED
  BY <1>1, LinkInvariant, PTL

\* The two ways to instantiate a template agree: after renameCallTarget has replaced the
\* names (specializations.go:185-192, 311), a unit refers to what the instance refers to
\* that semantic analysis made and checked (sema/generics.go).
THEOREM UnitsAgree == Spec => [](Replaceable(program) => SameCallees)
<1>1. (Replaceable(program) => LinkInv) => (Replaceable(program) => SameCallees)
  BY AgreeAtEnd
<1>. QED
  BY <1>1, LinkInvariant, PTL

\* What other modules ask of a module's templates leaves no trace in it: the instances that
\* semantic analysis put there are gone when extraction ends (specializations.go:215-224).
THEOREM ModulesUnvarying == Spec => [](Replaceable(program) => BaseUnvarying)
<1>1. (Replaceable(program) => LinkInv) => (Replaceable(program) => BaseUnvarying)
  BY BaseAtEnd
<1>. QED
  BY <1>1, LinkInvariant, PTL

-----------------------------------------------------------------------------
(* Instantiation and extraction end.                                        *)

\* What such a program can instantiate: its templates, for the types it writes.
Instantiable == {r \in Concrete : \A i \in DOMAIN r[2] : r[2][i] \in Written(program)}

AttributionShrinks ==
    \/ instances \subseteq instances' /\ instances # instances' /\ instances' \subseteq Instantiable
    \/ UNCHANGED <<instances, sites>> /\ at' = at + 1 /\ at <= Len(sites)

\* A new request is one of the instances; a unit takes its request off the queue; any
\* other call is gone past.
ExtractionShrinks ==
    /\ instances' = instances
    /\ \/ queued \subseteq queued' /\ queued # queued' /\ queued' \subseteq instances
       \/ queued' = queued /\ queue # <<>> /\ queue' = Tail(queue)
       \/ UNCHANGED <<queued, queue>> /\ Len(sites') = Len(sites) /\ at' = at + 1 /\ at <= Len(sites)

\* A step leaves its phase for a later one or shrinks what is left of it.
Shrinking ==
    /\ program' = program
    /\ \/ pc = "attribute" /\ pc' = "attribute" /\ AttributionShrinks
       \/ pc = "attribute" /\ pc' = "extract"
       \/ pc = "extract" /\ pc' = "extract" /\ ExtractionShrinks
       \/ pc = "extract" /\ pc' \in {"done", "failed"}
Shrinks == [][Replaceable(program) => Shrinking]_vars

\* What holds of the instances and the requests in every state.
Bounded ==
    /\ instances \subseteq Instantiable
    /\ pc # "attribute" => queued \subseteq instances

LEMMA BoundedInv == LinkInv => Bounded
<1>. SUFFICES ASSUME LinkInv PROVE Bounded
  OBVIOUS
<1>1. instances \subseteq Instantiable
  BY Facts DEF LinkInv, SourceInv, AsWritten, Instantiable
<1>. QED
  BY <1>1, QueuedInstances DEF LinkInv, Bounded

LEMMA StepShrinks ==
    ASSUME Replaceable(program), LinkInv, Bounded', Next, vars' # vars
    PROVE  Shrinking
<1>t. sites \in Seq(SiteRecord) /\ Len(sites) \in Nat /\ DOMAIN sites = 1..Len(sites) /\ at \in Nat
  BY Facts DEF LinkInv
<1>1. CASE Attribute
  <2>1. /\ pc = "attribute" /\ pc' = "attribute" /\ program' = program
        /\ sites[at].to \in TemplateIds /\ Request(sites[at]) \notin instances
        /\ instances' = instances \cup {<<TemplateOf(sites[at].to).id, sites[at].args>>}
        /\ at \in 1..Len(sites)
    BY <1>1, Facts DEF Attribute, LinkInv
  <2>2. AttributedOK(sites[at])
    BY <2>1, Facts DEF LinkInv
  <2>3. Request(sites[at]) \in Concrete /\ Request(sites[at])[1] = sites[at].to
    BY <2>1, <2>2 DEF AttributedOK, Request
  <2>4. TemplateOf(sites[at].to).id = sites[at].to
    BY <2>3, RequestFacts, Facts DEF LinkInv
  <2>5. instances' = instances \cup {Request(sites[at])}
    BY <2>1, <2>4 DEF Request
  <2>6. Instantiable' = Instantiable
    <3>1. Concrete' = Concrete /\ Written(program') = Written(program)
      BY <2>1 DEF Concrete, TemplateIds, TemplateOf
    <3>. QED
      BY <2>1, <3>1 DEF Instantiable, Written
  <2>. QED
    BY <2>1, <2>5, <2>6 DEF Shrinking, AttributionShrinks, Bounded
<1>2. CASE AttributeKnown
  BY <1>2 DEF AttributeKnown, Shrinking, AttributionShrinks
<1>3. CASE Generate
  BY <1>3 DEF Generate, Shrinking
<1>4. CASE SkipCall
  BY <1>4 DEF SkipCall, Looking, Shrinking, ExtractionShrinks
<1>l. ASSUME NEW s, sites' = [sites EXCEPT ![at] = s] PROVE Len(sites') = Len(sites)
  BY <1>t, <1>l
<1>5. CASE CallMethod
  <2>1. Len(sites') = Len(sites)
    BY <1>5, <1>l DEF CallMethod
  <2>. QED
    BY <1>5, <2>1 DEF CallMethod, Looking, Shrinking, ExtractionShrinks
<1>6. CASE Unavailable
  BY <1>6 DEF Unavailable, Looking, Shrinking
<1>7. CASE RequestTemplate
  <2> DEFINE r == Request(sites[at])
  <2>1. /\ pc = "extract" /\ pc' = "extract" /\ program' = program /\ instances' = instances
        /\ queued' = queued \cup {r} /\ queue' = (IF r \in queued THEN queue ELSE Append(queue, r))
        /\ at' = at + 1 /\ at <= Len(sites)
    BY <1>7 DEF RequestTemplate, Looking, Enqueue
  <2>2. Len(sites') = Len(sites)
    BY <1>7, <1>t DEF RequestTemplate
  <2>3. CASE r \in queued
    <3>1. queued' = queued /\ queue' = queue
      BY <2>1, <2>3
    <3>. QED
      BY <2>1, <2>2, <3>1 DEF Shrinking, ExtractionShrinks
  <2>4. CASE r \notin queued
    <3>1. queued \subseteq queued' /\ queued # queued' /\ queued' \subseteq instances
      BY <2>1, <2>4 DEF Bounded
    <3>. QED
      BY <2>1, <3>1 DEF Shrinking, ExtractionShrinks
  <2>. QED
    BY <2>3, <2>4
<1>8. CASE Instantiate
  BY <1>8 DEF Instantiate, Shrinking, ExtractionShrinks
<1>9. CASE Finish
  BY <1>9 DEF Finish, Shrinking
<1>10. CASE Done
  BY <1>10 DEF Done
<1>. QED
  BY <1>1, <1>2, <1>3, <1>4, <1>5, <1>6, <1>7, <1>8, <1>9, <1>10 DEF Next, Extract

\* Each step of attribution and extraction leaves its phase or shrinks what is left of it:
\* programs are instantiated for the types they write, also where templates instantiate
\* each other or themselves, and the loader's queue asks for nothing that semantic
\* analysis did not instantiate (sema/generics.go, specializations.go:120-193). Types are
\* not made of parameters here: a template that calls itself for ever larger types is not
\* among the programs.
THEOREM InstantiationShrinks == Spec => Shrinks
<1>1. ASSUME Replaceable(program) => LinkInv, (Replaceable(program) => Bounded)', [Next]_vars
      PROVE  [Replaceable(program) => Shrinking]_vars
  <2>1. CASE UNCHANGED vars
    BY <2>1
  <2>2. CASE vars' # vars /\ Replaceable(program)
    <3>1. Replaceable(program)'
      BY <1>1, <2>2, StaysReplaceable
    <3>. QED
      BY <1>1, <2>2, <3>1, StepShrinks
  <2>. QED
    BY <2>1, <2>2
<1>2. (Replaceable(program) => LinkInv) => (Replaceable(program) => Bounded)
  BY BoundedInv
<1>. QED
  BY <1>1, <1>2, LinkInvariant, PTL DEF Spec, Shrinks
=============================================================================
