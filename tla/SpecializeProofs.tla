-------------------------- MODULE SpecializeProofs --------------------------
(***************************************************************************)
(* Theorems about generic functions, for every program over any types,     *)
(* words and templates.                                                    *)
(***************************************************************************)
EXTENDS Specialize, SequenceTheorems, TLAPS

-----------------------------------------------------------------------------
(* Programs.                                                                *)

LEMMA TemplateFacts ==
    ASSUME program \in Program, NEW id \in TemplateIds
    PROVE  /\ TemplateOf(id) \in program.templates
           /\ TemplateOf(id).id = id
           /\ TemplateOf(id) \in Template
           /\ id \in Identifier /\ id.words # <<>>
<1>1. program \in Programs /\ Accepts(program)
  BY ProgramAssumption
<1>2. PICK t \in program.templates : t.id = id
  BY DEF TemplateIds
<1>3. TemplateOf(id) \in program.templates /\ TemplateOf(id).id = id
  BY <1>2 DEF TemplateOf
<1>4. TemplateOf(id) \in Template
  BY <1>1, <1>3 DEF Programs
<1>. QED
  BY <1>1, <1>3, <1>4 DEF Accepts, Template

LEMMA FitsTemplate ==
    ASSUME program \in Program, NEW to \in TemplateIds, NEW args \in Seq(Type), Fits(program, to, args)
    PROVE  <<to, args>> \in Concrete
  BY TemplateFacts DEF Fits, Concrete

\* What a template of the program refers to.
LEMMA UseFacts ==
    ASSUME program \in Program, NEW t \in program.templates, NEW k \in DOMAIN t.uses
    PROVE  /\ t \in Template
           /\ t.uses \in Seq(Use) /\ DOMAIN t.uses = 1..Len(t.uses) /\ Len(t.uses) \in Nat
           /\ t.uses[k] \in Use
           /\ t.uses[k].args \in Seq(Type \cup {t.params[i] : i \in DOMAIN t.params})
           /\ t.uses[k].kind # "require" => Fits(program, t.uses[k].to, t.uses[k].args)
           /\ t.uses[k].kind = "require" =>
                 /\ t.uses[k].args # <<>>
                 /\ \A type \in Type :
                       Declared(program, type, t.uses[k].to.words)
                       \cup Inherited(program, t.uses[k].to.words) # {}
                 /\ \A m \in program.methods :
                       m.require = t.uses[k].to.words => Fits(program, m.to, Tail(t.uses[k].args))
                 /\ \A m \in Inherited(program, t.uses[k].to.words) :
                       Fits(program, m.to, t.uses[k].args)
<1>1. program \in Programs /\ Accepts(program)
  BY ProgramAssumption
<1>2. t \in Template
  BY <1>1 DEF Programs
<1>3. t.uses \in Seq(Use)
  BY <1>2 DEF Template
<1>4. DOMAIN t.uses = 1..Len(t.uses) /\ Len(t.uses) \in Nat /\ t.uses[k] \in Use
  BY <1>3
<1>. QED
  BY <1>1, <1>2, <1>3, <1>4 DEF Accepts

-----------------------------------------------------------------------------
(* Names and arguments.                                                     *)

LEMMA ArgumentNames ==
    ASSUME NEW args \in Seq(Type)
    PROVE  [i \in DOMAIN args |-> args[i].name] \in Name
<1>1. Len(args) \in Nat /\ DOMAIN args = 1..Len(args) /\ \A i \in 1..Len(args) : args[i] \in Type
  OBVIOUS
<1>2. \A i \in 1..Len(args) : args[i].name \in Word
  BY <1>1, TypeAssumption
<1>. QED
  BY <1>1, <1>2 DEF Name

LEMMA NameConcat ==
    ASSUME NEW a \in Name, NEW b \in Name
    PROVE  a \o b \in Name
  BY ConcatProperties DEF Name

LEMMA MangleType ==
    ASSUME NEW id \in Identifier, NEW args \in Seq(Type)
    PROVE  MangleFunctionName(id, args) \in Name
<1>a. id.module \in Word /\ id.words \in Name /\ "$" \in Word
  BY TypeAssumption DEF Identifier
<1>b. \A w \in Word : <<w>> \in Seq(Word)
  OBVIOUS
<1>1. <<id.module>> \in Name /\ id.words \in Name /\ <<"$">> \in Name /\ <<>> \in Name
  BY <1>a, <1>b DEF Name
<1>2. <<id.module>> \o id.words \in Name
  BY <1>1, NameConcat
<1>3. <<"$">> \o [i \in DOMAIN args |-> args[i].name] \in Name
  BY <1>1, NameConcat, ArgumentNames
<1>. QED
  BY <1>1, <1>2, <1>3, NameConcat DEF MangleFunctionName

LEMMA RenameType ==
    ASSUME NEW name \in Name, NEW old \in Name, NEW new \in Name
    PROVE  Rename(name, old, new) \in Name
<1>1. Len(old) \in Nat /\ Len(name) \in Nat /\ \A i \in 1..Len(name) : name[i] \in Word
  BY DEF Name
<1>2. SubSeq(name, Len(old) + 1, Len(name)) \in Name
  <2>1. \A i \in (Len(old) + 1)..Len(name) : name[i] \in Word
    BY <1>1
  <2>. QED
    BY <2>1, <1>1, SubSeqProperties DEF Name
<1>. QED
  BY <1>2, NameConcat DEF Rename

LEMMA SubstituteFacts ==
    ASSUME NEW params \in Seq(Parameter), NEW args \in Seq(Type), Len(args) = Len(params),
           NEW uses \in Seq(Type \cup {params[i] : i \in DOMAIN params})
    PROVE  /\ Substitute(params, args, uses) \in Seq(Type)
           /\ Len(Substitute(params, args, uses)) = Len(uses)
<1>1. /\ DOMAIN params = 1..Len(params) /\ DOMAIN args = 1..Len(params)
      /\ \A i \in DOMAIN args : args[i] \in Type
      /\ Len(uses) \in Nat /\ DOMAIN uses = 1..Len(uses)
      /\ \A i \in 1..Len(uses) : uses[i] \in Type \cup {params[j] : j \in DOMAIN params}
  OBVIOUS
<1>2. ASSUME NEW i \in 1..Len(uses)  PROVE Bind(params, args, uses[i]) \in Type
  <2>1. CASE \E j \in DOMAIN params : params[j] = uses[i]
    BY <1>1, <2>1 DEF Bind
  <2>2. CASE ~\E j \in DOMAIN params : params[j] = uses[i]
    BY <1>1, <2>2 DEF Bind
  <2>. QED
    BY <2>1, <2>2
<1>3. Substitute(params, args, uses) = [i \in 1..Len(uses) |-> Bind(params, args, uses[i])]
  BY <1>1 DEF Substitute
<1>. QED
  BY <1>1, <1>2, <1>3

-----------------------------------------------------------------------------
(* Types. What is called has the arguments that it takes.                   *)

SiteOK(s) ==
    /\ s \in SiteRecord
    /\ s.kind = "call" /\ s.to \in TemplateIds => Request(s) \in Concrete
AttributedOK(s) ==
    /\ SiteOK(s)
    /\ s.kind # "require"
    /\ IsModuleObject(s.object)
    /\ s.to \in TemplateIds => Request(s) \in Concrete

TypeInv ==
    /\ TypeOK
    /\ \A k \in 1..Len(sites) : SiteOK(sites[k])
    /\ pc = "attribute" => \A k \in 1..Len(sites) : AttributedOK(sites[k])

LEMMA ModuleObjectType ==
    ASSUME NEW id \in Identifier
    PROVE  ModuleObject(id) \in Object /\ IsModuleObject(ModuleObject(id))
<1>1. <<>> \in Name /\ <<>> \in Seq(Type)
  BY DEF Name
<1>. QED
  BY <1>1 DEF ModuleObject, IsModuleObject, Object, Identifier

\* What a requirement means for the types a template is instantiated with.
LEMMA ConformingFacts ==
    ASSUME program \in Program, NEW t \in program.templates, NEW k \in DOMAIN t.uses,
           t.uses[k].kind = "require",
           NEW actual \in Seq(Type), Len(actual) = Len(t.uses[k].args)
    PROVE  LET target == Conforming(actual, t.uses[k].to.words)
           IN  /\ target.to \in Identifier
               /\ target.args \in Seq(Type)
               /\ Fits(program, target.to, target.args)
<1> DEFINE use == t.uses[k]
           own == Declared(program, Head(actual), use.to.words)
<1>1. /\ use.args # <<>> /\ use.args \in Seq(Type \cup {t.params[i] : i \in DOMAIN t.params})
      /\ \A type \in Type :
            Declared(program, type, use.to.words) \cup Inherited(program, use.to.words) # {}
      /\ \A m \in program.methods : m.require = use.to.words => Fits(program, m.to, Tail(use.args))
      /\ \A m \in Inherited(program, use.to.words) : Fits(program, m.to, use.args)
  BY UseFacts
<1>2. actual # <<>> /\ Head(actual) \in Type /\ Tail(actual) \in Seq(Type)
      /\ Len(Tail(actual)) = Len(Tail(use.args))
  BY <1>1
<1>3. \A m \in program.methods \cup program.defaults : m.to \in Identifier
  BY ProgramAssumption DEF Programs, Method
<1>4. ASSUME NEW to, NEW a \in Seq(Type), NEW b \in Seq(Type \cup {t.params[i] : i \in DOMAIN t.params}),
             Len(a) = Len(b), Fits(program, to, b)
      PROVE  Fits(program, to, a)
  BY <1>4 DEF Fits
<1>5. CASE own # {}
  <2>1. PICK m \in own : m = CHOOSE n \in own : TRUE
    BY <1>5
  <2>2. m \in program.methods /\ m.require = use.to.words
    BY <2>1 DEF Declared
  <2>3. Conforming(actual, use.to.words) = [to |-> m.to, args |-> Tail(actual)]
    BY <2>1, <1>5 DEF Conforming
  <2>4. Tail(use.args) \in Seq(Type \cup {t.params[i] : i \in DOMAIN t.params})
    BY <1>1
  <2>5. Fits(program, m.to, Tail(use.args))
    BY <2>2, <1>1
  <2>6. Fits(program, m.to, Tail(actual))
    BY <2>4, <2>5, <1>2, <1>4
  <2>. QED
    BY <2>2, <2>3, <2>6, <1>2, <1>3
<1>6. CASE own = {}
  <2>1. Inherited(program, use.to.words) # {}
    BY <1>1, <1>2, <1>6
  <2>2. PICK m \in Inherited(program, use.to.words) :
           m = CHOOSE n \in Inherited(program, use.to.words) : TRUE
    BY <2>1
  <2>3. m \in program.defaults
    BY <2>2 DEF Inherited
  <2>4. Conforming(actual, use.to.words) = [to |-> m.to, args |-> actual]
    BY <2>2, <1>6 DEF Conforming
  <2>5. Fits(program, m.to, use.args)
    BY <2>2, <1>1
  <2>6. Fits(program, m.to, actual)
    BY <2>5, <1>1, <1>4
  <2>. QED
    BY <2>3, <2>4, <2>6, <1>3
<1>. QED
  BY <1>5, <1>6

\* The two ways to instantiate what a template refers to.
LEMMA InstanceSiteType ==
    ASSUME program \in Program, NEW t \in program.templates, NEW k \in DOMAIN t.uses,
           NEW args \in Seq(Type), Len(args) = Len(t.params)
    PROVE  AttributedOK(InstanceSite(t, args, t.uses[k]))
<1> DEFINE use == t.uses[k]
           actual == Substitute(t.params, args, use.args)
           required == Conforming(actual, use.to.words)
           target == IF use.kind = "require" THEN required ELSE [to |-> use.to, args |-> actual]
           kind == IF use.kind = "require" THEN "call" ELSE use.kind
           site == InstanceSite(t, args, use)
<1>1. /\ t \in Template /\ use \in Use
      /\ use.args \in Seq(Type \cup {t.params[i] : i \in DOMAIN t.params})
      /\ use.kind # "require" => Fits(program, use.to, use.args)
  BY UseFacts
<1>2. t.params \in Seq(Parameter) /\ t.id \in Identifier
  BY <1>1 DEF Template
<1>3. actual \in Seq(Type) /\ Len(actual) = Len(use.args)
  BY <1>1, <1>2, SubstituteFacts
<1>4. target.to \in Identifier /\ target.args \in Seq(Type) /\ Fits(program, target.to, target.args)
  <2>1. CASE use.kind = "require"
    BY <2>1, <1>3, ConformingFacts
  <2>2. CASE use.kind # "require"
    <3>1. Fits(program, use.to, actual)
      BY <2>2, <1>1, <1>3 DEF Fits
    <3>. QED
      BY <2>2, <3>1, <1>1, <1>3 DEF Use
  <2>. QED
    BY <2>1, <2>2
<1>5. use.home \in Name /\ use.suffix \in Name /\ kind \in {"call", "direct", "address"}
  BY <1>1 DEF Use
<1>6. /\ MangleFunctionName(t.id, args) \o use.home \in Name
      /\ MangleFunctionName(target.to, target.args) \o use.suffix \in Name
  BY <1>2, <1>4, <1>5, MangleType, NameConcat
<1>7. site = [object |-> ModuleObject(t.id), home |-> MangleFunctionName(t.id, args) \o use.home,
              kind |-> kind, to |-> target.to, args |-> target.args,
              name |-> MangleFunctionName(target.to, target.args) \o use.suffix]
  <2>1. use = [home |-> use.home, kind |-> use.kind, to |-> use.to, args |-> use.args,
               suffix |-> use.suffix]
    BY <1>1 DEF Use
  <2>. QED
    BY <2>1 DEF InstanceSite, Site
<1>. HIDE DEF use, actual, required, target, kind, site
<1>8. site \in SiteRecord
  BY <1>2, <1>4, <1>5, <1>6, <1>7, ModuleObjectType DEF SiteRecord
<1>9. site.to \in TemplateIds => Request(site) \in Concrete
  BY <1>4, <1>7, FitsTemplate DEF Request
<1>10. AttributedOK(site)
  BY <1>2, <1>5, <1>7, <1>8, <1>9, ModuleObjectType DEF AttributedOK, SiteOK
<1>. QED
  BY <1>10 DEF site, use

LEMMA UnitSiteType ==
    ASSUME program \in Program, NEW t \in program.templates, NEW k \in DOMAIN t.uses,
           NEW args \in Seq(Type), Len(args) = Len(t.params)
    PROVE  /\ SiteOK(UnitSite(t, args, t.uses[k]))
           /\ UnitSite(t, args, t.uses[k]).object = <<t.id, args>>
           /\ UnitSite(t, args, t.uses[k]).kind = t.uses[k].kind
           /\ Request(UnitSite(t, args, t.uses[k]))
                 = <<t.uses[k].to, Substitute(t.params, args, t.uses[k].args)>>
<1> DEFINE use == t.uses[k]
           actual == Substitute(t.params, args, use.args)
           specialized == MangleFunctionName(t.id, args)
           name == MangleFunctionName(use.to, <<>>) \o use.suffix
           renamed == IF use.kind = "address" THEN name
                      ELSE Rename(name, MangleFunctionName(t.id, <<>>), specialized)
           site == UnitSite(t, args, use)
<1>1. /\ t \in Template /\ use \in Use
      /\ use.args \in Seq(Type \cup {t.params[i] : i \in DOMAIN t.params})
      /\ use.kind # "require" => Fits(program, use.to, use.args)
  BY UseFacts
<1>2. t.params \in Seq(Parameter) /\ t.id \in Identifier
  BY <1>1 DEF Template
<1>3. actual \in Seq(Type) /\ Len(actual) = Len(use.args)
  BY <1>1, <1>2, SubstituteFacts
<1>4. use.home \in Name /\ use.suffix \in Name /\ use.to \in Identifier
      /\ use.kind \in {"call", "direct", "address", "require"}
  BY <1>1 DEF Use
<1>5. <<>> \in Seq(Type)
  OBVIOUS
<1>6. specialized \in Name /\ MangleFunctionName(t.id, <<>>) \in Name
      /\ MangleFunctionName(use.to, <<>>) \in Name
  BY <1>2, <1>4, <1>5, MangleType
<1>7. specialized \o use.home \in Name /\ name \in Name
  BY <1>4, <1>6, NameConcat
<1>8. renamed \in Name
  BY <1>6, <1>7, RenameType
<1>9. site = [object |-> <<t.id, args>>, home |-> specialized \o use.home, kind |-> use.kind,
              to |-> use.to, args |-> actual, name |-> renamed]
  BY DEF UnitSite, Site
<1>10. site \in SiteRecord
  BY <1>2, <1>3, <1>4, <1>7, <1>8, <1>9 DEF SiteRecord, Object
<1>11. site.kind = "call" /\ site.to \in TemplateIds => Request(site) \in Concrete
  <2>1. SUFFICES ASSUME use.kind = "call", use.to \in TemplateIds
                 PROVE  <<use.to, actual>> \in Concrete
    BY <1>9 DEF Request
  <2>2. Fits(program, use.to, actual)
    BY <2>1, <1>1, <1>3 DEF Fits
  <2>. QED
    BY <2>1, <2>2, <1>3, FitsTemplate
<1>. QED
  BY <1>9, <1>10, <1>11 DEF SiteOK, Request

\* The elements of two sequences, one after the other.
LEMMA Concatenated ==
    ASSUME NEW S, NEW s \in Seq(S), NEW u \in Seq(S)
    PROVE  /\ s \o u \in Seq(S)
           /\ Len(s \o u) = Len(s) + Len(u) /\ Len(s) \in Nat /\ Len(u) \in Nat
           /\ \A k \in 1..Len(s) : (s \o u)[k] = s[k]
           /\ \A j \in 1..Len(u) : (s \o u)[Len(s) + j] = u[j]
           /\ \A k \in 1..Len(s \o u) :
                 \/ k \in 1..Len(s)
                 \/ \E j \in 1..Len(u) : k = Len(s) + j
<1>1. Len(s) \in Nat /\ Len(u) \in Nat
  OBVIOUS
<1>2. /\ s \o u \in Seq(S)
      /\ Len(s \o u) = Len(s) + Len(u)
      /\ \A i \in 1..Len(s) + Len(u) : (s \o u)[i] = IF i <= Len(s) THEN s[i] ELSE u[i - Len(s)]
  BY ConcatProperties
<1>3. ASSUME NEW k \in 1..Len(s \o u), k \notin 1..Len(s)
      PROVE  \E j \in 1..Len(u) : k = Len(s) + j
  <2>1. k - Len(s) \in 1..Len(u) /\ k = Len(s) + (k - Len(s))
    BY <1>1, <1>2, <1>3
  <2>. QED
    BY <2>1
<1>4. ASSUME NEW j \in 1..Len(u)  PROVE (s \o u)[Len(s) + j] = u[j]
  <2>1. Len(s) + j \in 1..Len(s) + Len(u) /\ ~(Len(s) + j <= Len(s)) /\ (Len(s) + j) - Len(s) = j
    BY <1>1
  <2>. QED
    BY <2>1, <1>2
<1>5. \A k \in 1..Len(s) : k \in 1..Len(s) + Len(u) /\ k <= Len(s)
  BY <1>1
<1>. QED
  BY <1>1, <1>2, <1>3, <1>4, <1>5

\* Sites are only added at the end.
LEMMA Appended ==
    ASSUME NEW added, added \in Seq(SiteRecord), sites \in Seq(SiteRecord), sites' = sites \o added
    PROVE  /\ sites' \in Seq(SiteRecord)
           /\ Len(sites') = Len(sites) + Len(added) /\ Len(sites) \in Nat /\ Len(added) \in Nat
           /\ \A k \in 1..Len(sites) : sites'[k] = sites[k]
           /\ \A j \in 1..Len(added) : sites'[Len(sites) + j] = added[j]
           /\ \A k \in 1..Len(sites') :
                 \/ k \in 1..Len(sites)
                 \/ \E j \in 1..Len(added) : k = Len(sites) + j
<1>. DEFINE S == SiteRecord
<1>1. sites \in Seq(S) /\ added \in Seq(S)
  OBVIOUS
<1>. HIDE DEF S
<1>2. /\ sites \o added \in Seq(S)
      /\ Len(sites \o added) = Len(sites) + Len(added) /\ Len(sites) \in Nat /\ Len(added) \in Nat
      /\ \A k \in 1..Len(sites) : (sites \o added)[k] = sites[k]
      /\ \A j \in 1..Len(added) : (sites \o added)[Len(sites) + j] = added[j]
      /\ \A k \in 1..Len(sites \o added) :
            \/ k \in 1..Len(sites)
            \/ \E j \in 1..Len(added) : k = Len(sites) + j
  BY <1>1, Concatenated
<1>. QED
  BY <1>2 DEF S

\* The arguments of a request are those its template takes.
LEMMA RequestFacts ==
    ASSUME program \in Program, NEW r \in Concrete
    PROVE  /\ r = <<r[1], r[2]>> /\ r[1] \in TemplateIds /\ r[2] \in Seq(Type)
           /\ TemplateOf(r[1]) \in program.templates /\ TemplateOf(r[1]).id = r[1]
           /\ Len(r[2]) = Len(TemplateOf(r[1]).params)
           /\ r \in Object /\ ~IsModuleObject(r)
  BY TemplateFacts DEF Concrete, Object, IsModuleObject

\* The sites that an instance and a unit add.
LEMMA InstanceSites ==
    ASSUME program \in Program, NEW r \in Concrete
    PROVE  LET t == TemplateOf(r[1])
               added == [k \in DOMAIN t.uses |-> InstanceSite(t, r[2], t.uses[k])]
           IN  /\ added \in Seq(SiteRecord)
               /\ \A k \in 1..Len(added) : AttributedOK(added[k])
<1> DEFINE t == TemplateOf(r[1])
           added == [k \in DOMAIN t.uses |-> InstanceSite(t, r[2], t.uses[k])]
<1>1. t \in program.templates /\ r[2] \in Seq(Type) /\ Len(r[2]) = Len(t.params)
  BY RequestFacts
<1>2. \A k \in DOMAIN t.uses : AttributedOK(InstanceSite(t, r[2], t.uses[k]))
  BY <1>1, InstanceSiteType
<1>3. t.uses \in Seq(Use)
  BY <1>1, ProgramAssumption DEF Programs, Template
<1>. HIDE DEF t
<1>4. Len(t.uses) \in Nat /\ DOMAIN t.uses = 1..Len(t.uses)
  BY <1>3
<1>5. \A k \in 1..Len(t.uses) : added[k] \in SiteRecord
  BY <1>2, <1>4 DEF AttributedOK, SiteOK
<1>6. added \in [1..Len(t.uses) -> SiteRecord]
  BY <1>4, <1>5
<1>7. added \in Seq(SiteRecord) /\ Len(added) = Len(t.uses)
  <2>. HIDE DEF added
  <2>. QED
    BY <1>4, <1>6
<1>. QED
  BY <1>2, <1>4, <1>7 DEF t

LEMMA UnitSites ==
    ASSUME program \in Program, NEW r \in Concrete
    PROVE  LET t == TemplateOf(r[1])
               added == [k \in DOMAIN t.uses |-> UnitSite(t, r[2], t.uses[k])]
           IN  /\ added \in Seq(SiteRecord) /\ Len(added) = Len(t.uses) /\ DOMAIN t.uses = 1..Len(t.uses)
               /\ \A k \in 1..Len(added) :
                     /\ SiteOK(added[k])
                     /\ added[k].object = r
                     /\ added[k].kind = t.uses[k].kind
                     /\ Request(added[k]) = <<t.uses[k].to, Substitute(t.params, r[2], t.uses[k].args)>>
<1> DEFINE t == TemplateOf(r[1])
           added == [k \in DOMAIN t.uses |-> UnitSite(t, r[2], t.uses[k])]
<1>1. t \in program.templates /\ r[2] \in Seq(Type) /\ Len(r[2]) = Len(t.params) /\ <<t.id, r[2]>> = r
  BY RequestFacts
<1>2. \A k \in DOMAIN t.uses :
         LET site == UnitSite(t, r[2], t.uses[k])
         IN  /\ SiteOK(site)
             /\ site.object = r
             /\ site.kind = t.uses[k].kind
             /\ Request(site) = <<t.uses[k].to, Substitute(t.params, r[2], t.uses[k].args)>>
  BY <1>1, UnitSiteType
<1>3. t.uses \in Seq(Use)
  BY <1>1, ProgramAssumption DEF Programs, Template
<1>. HIDE DEF t
<1>4. Len(t.uses) \in Nat /\ DOMAIN t.uses = 1..Len(t.uses)
  BY <1>3
<1>5. \A k \in 1..Len(t.uses) : added[k] \in SiteRecord
  BY <1>2, <1>4 DEF SiteOK
<1>6. added \in [1..Len(t.uses) -> SiteRecord]
  BY <1>4, <1>5
<1>7. added \in Seq(SiteRecord) /\ Len(added) = Len(t.uses)
  <2>. HIDE DEF added
  <2>. QED
    BY <1>4, <1>6
<1>. QED
  BY <1>2, <1>4, <1>7 DEF t

LEMMA GivenSiteType ==
    ASSUME program \in Program, NEW in \in Identifier, NEW use \in Use,
           use.kind # "require", use.args \in Seq(Type), Fits(program, use.to, use.args)
    PROVE  AttributedOK(Site(ModuleObject(in), MangleFunctionName(in, <<>>), use, use.args,
                             MangleFunctionName(use.to, use.args) \o use.suffix))
<1> DEFINE home == MangleFunctionName(in, <<>>)
           name == MangleFunctionName(use.to, use.args) \o use.suffix
           site == Site(ModuleObject(in), home, use, use.args, name)
<1>1. use.suffix \in Name /\ use.to \in Identifier /\ use.kind \in {"call", "direct", "address"}
  BY DEF Use
<1>2. <<>> \in Seq(Type)
  OBVIOUS
<1>3. home \in Name /\ name \in Name
  BY <1>1, <1>2, MangleType, NameConcat
<1>4. site = [object |-> ModuleObject(in), home |-> home, kind |-> use.kind, to |-> use.to,
              args |-> use.args, name |-> name]
  BY DEF Site
<1>. HIDE DEF home, name, site
<1>5. site \in SiteRecord
  BY <1>1, <1>3, <1>4, ModuleObjectType DEF SiteRecord
<1>6. site.to \in TemplateIds => Request(site) \in Concrete
  BY <1>4, FitsTemplate DEF Request
<1>7. AttributedOK(site)
  BY <1>1, <1>4, <1>5, <1>6, ModuleObjectType DEF AttributedOK, SiteOK
<1>. QED
  BY <1>7 DEF site, home, name

LEMMA InitTyped == Init => TypeInv
<1> SUFFICES ASSUME Init PROVE TypeInv
  OBVIOUS
<1> DEFINE n == Len(program.sites)
<1>1. program \in Program /\ program \in Programs /\ Accepts(program)
  BY ProgramAssumption DEF Init
<1>2. program.sites \in Seq([in : Identifier, use : Use])
  BY <1>1 DEF Programs
<1>3. n \in Nat /\ DOMAIN program.sites = 1..n
      /\ \A k \in 1..n : program.sites[k] \in [in : Identifier, use : Use]
  BY <1>2, ElementOfSeq, LenProperties
<1>4. ASSUME NEW k \in 1..n
      PROVE  AttributedOK(sites[k])
  <2> DEFINE in == program.sites[k].in
             use == program.sites[k].use
  <2>1. in \in Identifier /\ use \in Use
    BY <1>3
  <2>2. use.kind # "require" /\ use.args \in Seq(Type) /\ Fits(program, use.to, use.args)
    BY <1>1, <1>3 DEF Accepts
  <2>3. sites[k] = Site(ModuleObject(in), MangleFunctionName(in, <<>>), use, use.args,
                        MangleFunctionName(use.to, use.args) \o use.suffix)
    BY <1>3 DEF Init
  <2>. HIDE DEF in, use
  <2>. QED
    BY <1>1, <2>1, <2>2, <2>3, GivenSiteType
<1>5. sites \in [1..n -> SiteRecord]
  <2>1. sites = [k \in 1..n |-> sites[k]]
    BY <1>3 DEF Init
  <2>2. \A k \in 1..n : sites[k] \in SiteRecord
    BY <1>4 DEF AttributedOK, SiteOK
  <2>. QED
    BY <2>1, <2>2
<1>6. sites \in Seq(SiteRecord) /\ Len(sites) = n
  <2>. HIDE DEF n
  <2>. QED
    BY <1>3, <1>5
<1>7. functions \subseteq [object : Object, name : Name, internal : BOOLEAN]
  <2>1. <<>> \in Seq(Type)
    OBVIOUS
  <2>2. ASSUME NEW f \in program.functions
        PROVE  [object |-> ModuleObject(f.id), name |-> MangleFunctionName(f.id, <<>>),
                internal |-> f.internal] \in [object : Object, name : Name, internal : BOOLEAN]
    <3>1. f.id \in Identifier /\ f.internal \in BOOLEAN
      BY <1>1 DEF Programs
    <3>2. ModuleObject(f.id) \in Object /\ MangleFunctionName(f.id, <<>>) \in Name
      BY <2>1, <3>1, MangleType, ModuleObjectType
    <3>. QED
      BY <3>1, <3>2
  <2>. QED
    BY <2>2 DEF Init
<1>8. queue \in Seq(Concrete)
  BY DEF Init
<1>9. TypeOK
  BY <1>1, <1>3, <1>6, <1>7, <1>8 DEF TypeOK, Init
<1>. QED
  BY <1>4, <1>6, <1>9 DEF TypeInv, AttributedOK

\* All steps keep the program.
LEMMA SameProgram ==
    ASSUME UNCHANGED program
    PROVE  /\ TemplateIds' = TemplateIds /\ Concrete' = Concrete /\ Template' = Template
           /\ Object' = Object /\ SiteRecord' = SiteRecord /\ Name' = Name
  BY DEF TemplateIds, TemplateOf, Concrete, Template, Object, SiteRecord, Name

LEMMA NextTyped ==
    ASSUME TypeInv, [Next]_vars
    PROVE  TypeInv'
<1>. USE DEF TypeInv
<1>1. /\ program \in Program /\ sites \in Seq(SiteRecord) /\ Len(sites) \in Nat /\ at \in Nat \ {0}
      /\ queue \in Seq(Concrete)
  BY DEF TypeOK
<1>a. \A k \in DOMAIN sites : sites[k].object \in Object /\ sites[k].name \in Name
  <2>1. \A k \in DOMAIN sites : sites[k] \in SiteRecord
    BY <1>1
  <2>. QED
    BY <2>1 DEF SiteRecord
<1>b. \A k \in 1..Len(sites) : SiteOK(sites[k])
  OBVIOUS
<1>2. CASE Attribute
  <2> DEFINE r == Request(sites[at])
             t == TemplateOf(r[1])
             added == [k \in DOMAIN t.uses |-> InstanceSite(t, r[2], t.uses[k])]
  <2>1. r \in Concrete /\ r[1] = sites[at].to /\ r[2] = sites[at].args
    BY <1>1, <1>2 DEF Attribute, AttributedOK, Request
  <2>2. t \in program.templates /\ r = <<t.id, r[2]>>
    BY <1>1, <2>1, RequestFacts
  <2>3. added \in Seq(SiteRecord) /\ \A k \in 1..Len(added) : AttributedOK(added[k])
    BY <1>1, <2>1, InstanceSites
  <2>4. /\ sites' = sites \o added /\ functions' = functions \cup InstanceFunctions(t, r[2])
        /\ instances' = instances \cup {r} /\ at' = at + 1 /\ pc = "attribute" /\ at <= Len(sites)
        /\ UNCHANGED <<program, pc, queue, queued, declared>>
    BY <1>2, <2>1, <2>2 DEF Attribute
  <2>5. InstanceFunctions(t, r[2]) \subseteq [object : Object, name : Name, internal : BOOLEAN]
    <3>1. t.id \in Identifier /\ t.internal \in BOOLEAN /\ t.wrappers \subseteq Name
          /\ t.extras \subseteq Name /\ r[2] \in Seq(Type)
      BY <1>1, <2>1, <2>2, RequestFacts, ProgramAssumption DEF Programs, Template
    <3>2. MangleFunctionName(t.id, r[2]) \in Name /\ ModuleObject(t.id) \in Object
      BY <3>1, MangleType, ModuleObjectType
    <3>3. <<>> \in Name
      BY DEF Name
    <3>. HIDE DEF t, r
    <3>4. \A w \in {<<>>} \cup t.wrappers \cup t.extras : MangleFunctionName(t.id, r[2]) \o w \in Name
      BY <3>1, <3>2, <3>3, NameConcat
    <3>5. \A w \in {<<>>} \cup t.wrappers \cup t.extras :
             [object |-> ModuleObject(t.id), name |-> MangleFunctionName(t.id, r[2]) \o w,
              internal |-> t.internal] \in [object : Object, name : Name, internal : BOOLEAN]
      BY <3>1, <3>2, <3>4
    <3>. QED
      BY <3>5 DEF InstanceFunctions
  <2>. HIDE DEF r, t, added
  <2>6. /\ sites' \in Seq(SiteRecord) /\ Len(sites') = Len(sites) + Len(added) /\ Len(added) \in Nat
        /\ \A k \in 1..Len(sites') : AttributedOK(sites'[k])
    <3>1. \A k \in 1..Len(sites) : AttributedOK(sites[k])
      BY <2>4
    <3>. HIDE DEF TypeInv
    <3>2. sites \in Seq(SiteRecord) /\ sites' = sites \o added
      BY <1>1, <2>4
    <3>. QED
      BY <2>3, <3>1, <3>2, Appended
  <2>7. TypeOK'
    BY <1>1, <2>1, <2>4, <2>5, <2>6, SameProgram DEF TypeOK
  <2>8. \A k \in 1..Len(sites') : AttributedOK(sites[k])'
    BY <2>4, <2>6, SameProgram DEF AttributedOK, SiteOK, Request, IsModuleObject
  <2>. QED
    BY <2>7, <2>8 DEF AttributedOK
<1>3. CASE AttributeKnown
  BY <1>1, <1>3, SameProgram DEF AttributeKnown, TypeOK, AttributedOK, SiteOK
<1>4. CASE Generate
  <2>1. /\ UNCHANGED <<program, sites, functions, instances, queue, queued>>
        /\ pc' = "extract" /\ at' = 1
        /\ declared' \subseteq {<<s.object, s.name>> : s \in {sites[k] : k \in DOMAIN sites}}
    BY <1>4 DEF Generate
  <2>2. \A s \in {sites[k] : k \in DOMAIN sites} : <<s.object, s.name>> \in Object \X Name
    BY <1>a
  <2>3. declared' \subseteq Object \X Name
    BY <2>1, <2>2
  <2>. QED
    BY <1>1, <2>1, <2>3, SameProgram DEF TypeOK, SiteOK
<1>5. CASE SkipCall
  BY <1>1, <1>5, SameProgram DEF SkipCall, Looking, TypeOK, SiteOK
<1>6. CASE CallMethod
  <2>1. PICK m \in MethodTargets(sites[at]) :
           sites' = [sites EXCEPT ![at] = [@ EXCEPT !.kind = "direct", !.to = m, !.args = <<>>,
                                                    !.name = MangleFunctionName(m, <<>>)]]
    BY <1>6 DEF CallMethod
  <2> DEFINE s == [sites[at] EXCEPT !.kind = "direct", !.to = m, !.args = <<>>,
                                    !.name = MangleFunctionName(m, <<>>)]
  <2>2. /\ at \in 1..Len(sites) /\ sites[at] \in SiteRecord /\ at' = at + 1 /\ pc = "extract"
        /\ UNCHANGED <<program, pc, functions, instances, queue, queued, declared>>
    BY <1>1, <1>6 DEF CallMethod, Looking
  <2>3. m \in Identifier
    BY <1>1, <2>1, ProgramAssumption DEF MethodTargets, Programs, Method
  <2>4. <<>> \in Seq(Type)
    OBVIOUS
  <2>5. MangleFunctionName(m, <<>>) \in Name
    BY <2>3, <2>4, MangleType
  <2>6. s \in SiteRecord /\ s.kind = "direct"
    BY <2>2, <2>3, <2>4, <2>5 DEF SiteRecord
  <2>7. sites' = [sites EXCEPT ![at] = s]
    BY <2>1
  <2>. HIDE DEF s
  <2>8. sites' \in Seq(SiteRecord) /\ Len(sites') = Len(sites)
    BY <1>1, <2>2, <2>6, <2>7
  <2>9. TypeOK'
    BY <1>1, <2>2, <2>8, SameProgram DEF TypeOK
  <2>10. \A k \in 1..Len(sites) : sites'[k] = IF k = at THEN s ELSE sites[k]
    BY <1>1, <2>7
  <2>11. \A k \in 1..Len(sites') : SiteOK(sites[k])'
    BY <2>2, <2>6, <2>8, <2>10, SameProgram DEF SiteOK, Request
  <2>. QED
    BY <2>2, <2>9, <2>11
<1>7. CASE Unavailable
  BY <1>1, <1>7, SameProgram DEF Unavailable, Looking, TypeOK, SiteOK
<1>8. CASE RequestTemplate
  <2> DEFINE s == [sites[at] EXCEPT !.name = RequestedName(sites[at])]
  <2>1. /\ at \in 1..Len(sites) /\ sites[at] \in SiteRecord /\ at' = at + 1 /\ pc = "extract"
        /\ SiteOK(sites[at]) /\ sites[at].kind = "call" /\ sites[at].to \in TemplateIds
        /\ sites' = [sites EXCEPT ![at] = s] /\ queued' = queued \cup {Request(sites[at])}
        /\ queue' = IF Request(sites[at]) \in queued THEN queue ELSE Append(queue, Request(sites[at]))
        /\ UNCHANGED <<program, pc, functions, instances, declared>>
    BY <1>1, <1>8 DEF RequestTemplate, Looking, IsGeneric, Enqueue
  <2>2. Request(sites[at]) \in Concrete
    BY <2>1 DEF SiteOK
  <2>3. /\ sites[at].to \in Identifier /\ sites[at].args \in Seq(Type) /\ sites[at].name \in Name
        /\ <<>> \in Seq(Type)
    BY <2>1 DEF SiteRecord
  <2>4. RequestedName(sites[at]) \in Name
    BY <2>3, MangleType, RenameType DEF RequestedName
  <2>5. s \in SiteRecord /\ s.kind = sites[at].kind /\ s.to = sites[at].to /\ s.args = sites[at].args
    BY <2>1, <2>4 DEF SiteRecord
  <2>. HIDE DEF s
  <2>6. sites' \in Seq(SiteRecord) /\ Len(sites') = Len(sites)
    BY <1>1, <2>1, <2>5
  <2>7. queue' \in Seq(Concrete)
    BY <1>1, <2>1, <2>2
  <2>8. TypeOK'
    BY <1>1, <2>1, <2>2, <2>6, <2>7, SameProgram DEF TypeOK
  <2>9. \A k \in 1..Len(sites) : sites'[k] = IF k = at THEN s ELSE sites[k]
    BY <1>1, <2>1
  <2>10. \A k \in 1..Len(sites') : SiteOK(sites[k])'
    BY <2>1, <2>2, <2>5, <2>6, <2>9, SameProgram DEF SiteOK, Request
  <2>. QED
    BY <2>1, <2>8, <2>10
<1>9. CASE Instantiate
  <2> DEFINE r == Head(queue)
             t == TemplateOf(r[1])
             added == [k \in DOMAIN t.uses |-> UnitSite(t, r[2], t.uses[k])]
  <2>1. r \in Concrete /\ Tail(queue) \in Seq(Concrete)
    BY <1>1, <1>9 DEF Instantiate
  <2>2. t \in program.templates /\ r = <<t.id, r[2]>> /\ r[2] \in Seq(Type)
    BY <1>1, <2>1, RequestFacts
  <2>3. added \in Seq(SiteRecord) /\ \A k \in 1..Len(added) : SiteOK(added[k])
    BY <1>1, <2>1, UnitSites
  <2>4. /\ sites' = sites \o added /\ functions' = functions \cup UnitFunctions(t, r[2])
        /\ queue' = Tail(queue) /\ pc = "extract"
        /\ UNCHANGED <<program, pc, at, instances, queued, declared>>
    BY <1>9 DEF Instantiate
  <2>5. UnitFunctions(t, r[2]) \subseteq [object : Object, name : Name, internal : BOOLEAN]
    <3>1. t.id \in Identifier /\ t.wrappers \subseteq Name
      BY <1>1, <2>1, <2>2, RequestFacts, ProgramAssumption DEF Programs, Template
    <3>2. MangleFunctionName(t.id, r[2]) \in Name /\ <<t.id, r[2]>> \in Object
      BY <2>2, <3>1, MangleType DEF Object
    <3>3. <<>> \in Name
      BY DEF Name
    <3>. HIDE DEF t, r
    <3>4. \A w \in {<<>>} \cup t.wrappers : MangleFunctionName(t.id, r[2]) \o w \in Name
      BY <3>1, <3>2, <3>3, NameConcat
    <3>5. \A w \in {<<>>} \cup t.wrappers :
             [object |-> <<t.id, r[2]>>, name |-> MangleFunctionName(t.id, r[2]) \o w,
              internal |-> FALSE] \in [object : Object, name : Name, internal : BOOLEAN]
      BY <3>1, <3>2, <3>4
    <3>. QED
      BY <3>5 DEF UnitFunctions
  <2>. HIDE DEF r, t, added
  <2>6. /\ sites' \in Seq(SiteRecord) /\ Len(sites') = Len(sites) + Len(added) /\ Len(added) \in Nat
        /\ \A k \in 1..Len(sites') : SiteOK(sites'[k])
    <3>. HIDE DEF TypeInv
    <3>1. sites \in Seq(SiteRecord) /\ sites' = sites \o added
      BY <1>1, <2>4
    <3>. QED
      BY <2>3, <3>1, <1>b, Appended
  <2>7. TypeOK'
    BY <1>1, <2>1, <2>4, <2>5, <2>6, SameProgram DEF TypeOK
  <2>8. \A k \in 1..Len(sites') : SiteOK(sites[k])'
    BY <2>4, <2>6, SameProgram DEF SiteOK, Request
  <2>. QED
    BY <2>4, <2>7, <2>8
<1>10. CASE Finish
  <2>1. /\ UNCHANGED <<program, at, sites, instances, queue, queued>>
        /\ functions' \subseteq functions /\ pc' = "done"
        /\ declared' = declared \cup Imports \cup UnitExterns
    BY <1>10 DEF Finish, Kept
  <2>2. Imports \cup UnitExterns \subseteq Object \X Name
    <3>1. \A s \in LiveSites : <<s.object, s.name>> \in Object \X Name
      BY <1>a DEF LiveSites
    <3>. QED
      BY <3>1 DEF Imports, UnitExterns
  <2>. QED
    BY <1>1, <2>1, <2>2, SameProgram DEF TypeOK, SiteOK
<1>11. CASE UNCHANGED vars
  BY <1>1, <1>11, SameProgram DEF vars, TypeOK, AttributedOK, SiteOK
<1>. QED
  BY <1>2, <1>3, <1>4, <1>5, <1>6, <1>7, <1>8, <1>9, <1>10, <1>11 DEF Next, Extract, Done

LEMMA Typed == Spec => []TypeInv
<1>1. Init => TypeInv
  BY InitTyped
<1>2. TypeInv /\ [Next]_vars => TypeInv'
  BY NextTyped
<1>. QED
  BY <1>1, <1>2, PTL DEF Spec

\* Every variable has its type, and no name is ever given arguments that it does not
\* take: what the analysis and the loader substitute stays concrete.
THEOREM TypeCorrect == Spec => []TypeOK
  BY Typed, PTL DEF TypeInv

-----------------------------------------------------------------------------
(* Requests.                                                                *)

\* Units are made for requests only.
UnitsRequested ==
    /\ pc = "attribute" => queue = <<>> /\ queued = {}
    /\ \A f \in functions : IsModuleObject(f.object) \/ f.object \in queued
RequestInv == TypeInv /\ RequestsOnce /\ UnitsRequested

LEMMA InitRequests == Init => RequestInv
<1> SUFFICES ASSUME Init PROVE RequestInv
  OBVIOUS
<1>1. TypeInv
  BY InitTyped
<1>2. \A f \in functions : IsModuleObject(f.object)
  <2>1. \A f \in program.functions : f.id \in Identifier
    BY ProgramAssumption DEF Init, Programs
  <2>. QED
    BY <2>1, ModuleObjectType DEF Init
<1>. QED
  BY <1>1, <1>2 DEF RequestInv, UnitsRequested, RequestsOnce, Waiting, Init

LEMMA NextRequests ==
    ASSUME RequestInv, [Next]_vars
    PROVE  RequestInv'
<1>1. TypeInv'
  BY NextTyped DEF RequestInv
<1>2. /\ program \in Program /\ sites \in Seq(SiteRecord) /\ queue \in Seq(Concrete)
      /\ queued \subseteq Concrete /\ DOMAIN queue = 1..Len(queue) /\ Len(queue) \in Nat
      /\ RequestsOnce /\ UnitsRequested
  BY DEF RequestInv, TypeInv, TypeOK
<1>. USE <1>2 DEF RequestsOnce, UnitsRequested, Waiting, HasUnit
<1>3. CASE Attribute
  <2>1. /\ UNCHANGED <<program, pc, queue, queued>> /\ pc = "attribute"
        /\ \E t, args : functions' = functions \cup InstanceFunctions(t, args)
                        /\ t \in program.templates
    <3> DEFINE r == Request(sites[at])
    <3>1. TemplateOf(sites[at].to) \in program.templates
      BY <1>3, TemplateFacts DEF Attribute
    <3>. QED
      BY <1>3, <3>1 DEF Attribute
  <2>2. PICK t, args : /\ functions' = functions \cup InstanceFunctions(t, args)
                       /\ t \in program.templates
    BY <2>1
  <2>3. t.id \in Identifier
    BY <2>2, ProgramAssumption DEF Programs, Template
  <2>4. \A f \in InstanceFunctions(t, args) : IsModuleObject(f.object)
    BY <2>3, ModuleObjectType DEF InstanceFunctions
  <2>5. UnitsRequested'
    BY <2>1, <2>2, <2>4 DEF IsModuleObject
  <2>6. RequestsOnce'
    BY <2>1
  <2>. QED
    BY <1>1, <2>5, <2>6 DEF RequestInv
<1>4. CASE AttributeKnown \/ Generate \/ SkipCall \/ CallMethod \/ Unavailable \/ UNCHANGED vars
  <2>1. UNCHANGED <<functions, queue, queued>> /\ (pc' = "attribute" => pc = "attribute")
    BY <1>4 DEF AttributeKnown, Generate, SkipCall, CallMethod, Unavailable, Looking, vars
  <2>2. RequestsOnce'
    BY <2>1
  <2>3. UnitsRequested'
    BY <2>1 DEF IsModuleObject
  <2>. QED
    BY <1>1, <2>2, <2>3 DEF RequestInv
<1>5. CASE RequestTemplate
  <2> DEFINE r == Request(sites[at])
  <2>1. /\ r \in Concrete /\ pc = "extract" /\ UNCHANGED <<functions, pc>>
        /\ queue' = IF r \in queued THEN queue ELSE Append(queue, r)
        /\ queued' = queued \cup {r}
    BY <1>5 DEF RequestTemplate, Looking, IsGeneric, Enqueue, RequestInv, TypeInv, TypeOK, SiteOK
  <2>2. ~IsModuleObject(r)
    BY <2>1, RequestFacts
  <2>. HIDE DEF r
  <2>3. CASE r \in queued
    <3>1. queued' = queued /\ queue' = queue
      BY <2>1, <2>3
    <3>2. UNCHANGED <<functions, queue, queued>>
      BY <2>1, <3>1
    <3>4. RequestsOnce'
      <4>1. Waiting' = Waiting /\ \A q : HasUnit(q)' <=> HasUnit(q)
        BY <3>2
      <4>. HIDE DEF Waiting, HasUnit
      <4>. QED
        BY <3>2, <4>1
    <3>3. UnitsRequested'
      BY <2>1, <3>1 DEF IsModuleObject
    <3>. QED
      BY <1>1, <3>3, <3>4 DEF RequestInv
  <2>4. CASE r \notin queued
    <3>1. ~HasUnit(r)
      BY <2>2, <2>4
    <3>2. /\ queue' = Append(queue, r) /\ Len(queue') = Len(queue) + 1
          /\ \A i \in 1..Len(queue) : queue'[i] = queue[i]
          /\ queue'[Len(queue) + 1] = r
          /\ DOMAIN queue' = 1..(Len(queue) + 1)
      BY <2>1, <2>4
    <3>3. DOMAIN queue' = DOMAIN queue \cup {Len(queue) + 1} /\ Len(queue) + 1 \notin DOMAIN queue
      BY <3>2
    <3>4. Waiting' = Waiting \cup {r} /\ r \notin Waiting
      BY <2>4, <3>2, <3>3
    <3>5. \A i, j \in DOMAIN queue' : queue'[i] = queue'[j] => i = j
      BY <3>2, <3>3, <3>4
    <3>6. RequestsOnce'
      BY <2>1, <3>1, <3>4, <3>5
    <3>7. UnitsRequested'
      BY <2>1 DEF IsModuleObject
    <3>. QED
      BY <1>1, <3>6, <3>7 DEF RequestInv
  <2>. QED
    BY <2>3, <2>4
<1>6. CASE Instantiate
  <2> DEFINE r == Head(queue)
  <2>1. /\ queue # <<>> /\ queue' = Tail(queue) /\ UNCHANGED <<program, pc, queued>>
        /\ functions' = functions \cup UnitFunctions(TemplateOf(r[1]), r[2])
    BY <1>6 DEF Instantiate
  <2>2. /\ r \in Concrete /\ r = queue[1] /\ r \in Waiting /\ 1 \in DOMAIN queue
        /\ Len(queue') = Len(queue) - 1 /\ DOMAIN queue' = 1..(Len(queue) - 1)
        /\ \A i \in DOMAIN queue' : queue'[i] = queue[i + 1] /\ i + 1 \in DOMAIN queue
    BY <2>1
  <2>3. <<TemplateOf(r[1]).id, r[2]>> = r
    BY <2>2, RequestFacts
  <2>. HIDE DEF r
  <2>4. /\ \A f \in UnitFunctions(TemplateOf(r[1]), r[2]) : f.object = r
        /\ \E f \in UnitFunctions(TemplateOf(r[1]), r[2]) : f.object = r
    <3>1. <<>> \in {<<>>} \cup TemplateOf(r[1]).wrappers
      OBVIOUS
    <3>2. [object |-> <<TemplateOf(r[1]).id, r[2]>>,
           name |-> MangleFunctionName(TemplateOf(r[1]).id, r[2]) \o <<>>, internal |-> FALSE]
             \in UnitFunctions(TemplateOf(r[1]), r[2])
      BY <3>1, Zenon DEF UnitFunctions
    <3>3. \A f \in UnitFunctions(TemplateOf(r[1]), r[2]) : f.object = r
      BY <2>3 DEF UnitFunctions
    <3>. QED
      BY <3>2, <3>3
  <2>5. \A s : HasUnit(s)' <=> HasUnit(s) \/ s = r
    BY <2>1, <2>4
  <2>6. Waiting' = Waiting \ {r}
    <3>1. ASSUME NEW i \in DOMAIN queue'  PROVE queue'[i] \in Waiting \ {r}
      BY <2>2, <3>1
    <3>2. ASSUME NEW i \in DOMAIN queue, queue[i] # r  PROVE queue[i] \in Waiting'
      <4>1. i # 1 /\ i - 1 \in DOMAIN queue' /\ (i - 1) + 1 = i
        BY <2>2, <3>2
      <4>2. queue'[i - 1] = queue[i]
        BY <2>2, <4>1
      <4>. QED
        BY <4>1, <4>2
    <3>. QED
      BY <3>1, <3>2
  <2>7. \A i, j \in DOMAIN queue' : queue'[i] = queue'[j] => i = j
    <3>1. \A i, j \in DOMAIN queue' : queue'[i] = queue'[j] => i + 1 = j + 1
      BY <2>2
    <3>. QED
      BY <2>2, <3>1
  <2>8. RequestsOnce'
    <3>1. \A s \in Waiting' : ~HasUnit(s)'
      BY <2>5, <2>6
    <3>2. \A s \in queued' \ Waiting' : HasUnit(s)'
      BY <2>1, <2>5, <2>6
    <3>. QED
      BY <2>1, <2>6, <2>7, <3>1, <3>2
  <2>9. UnitsRequested'
    <3>1. pc # "attribute"
      BY <1>6 DEF Instantiate
    <3>. QED
      BY <2>1, <2>2, <2>4, <3>1 DEF IsModuleObject
  <2>. QED
    BY <1>1, <2>8, <2>9 DEF RequestInv
<1>7. CASE Finish
  <2>1. /\ UNCHANGED <<queue, queued>> /\ pc' = "done" /\ functions' \subseteq functions
        /\ \A f \in functions : ~IsModuleObject(f.object) => f \in functions'
    BY <1>7 DEF Finish, Kept
  <2>2. \A r \in queued : HasUnit(r)' <=> HasUnit(r)
    <3>1. \A r \in queued : ~IsModuleObject(r)
      BY RequestFacts
    <3>. QED
      BY <2>1, <3>1
  <2>3. RequestsOnce'
    BY <2>1, <2>2
  <2>. QED
    BY <1>1, <2>1, <2>3 DEF RequestInv, IsModuleObject
<1>. QED
  BY <1>3, <1>4, <1>5, <1>6, <1>7 DEF Next, Extract, Done

LEMMA RequestInvariant == Spec => []RequestInv
<1>1. Init => RequestInv
  BY InitRequests
<1>2. RequestInv /\ [Next]_vars => RequestInv'
  BY NextRequests
<1>. QED
  BY <1>1, <1>2, PTL DEF Spec

\* No list of arguments is instantiated twice: the map of requests and the queue of
\* the worklist agree with the units that were made.
THEOREM InstantiatedOnce == Spec => []RequestsOnce
  BY RequestInvariant, PTL DEF RequestInv

-----------------------------------------------------------------------------
(* What is asked for.                                                       *)

\* Before the extraction there are only the sites of modules.
OfModules == pc = "attribute" => \A k \in 1..Len(sites) : IsModuleObject(sites[k].object)
\* A call that was looked at has its request.
LookedAt ==
    pc \in {"extract", "done"} =>
        \A k \in 1..Len(sites) : (k < at /\ IsGeneric(sites[k])) => Request(sites[k]) \in queued
\* What a unit asks for is among the sites.
Expanded ==
    \A r \in queued \ Waiting : \A a \in Asked(r) :
        \E k \in 1..Len(sites) : IsGeneric(sites[k]) /\ Request(sites[k]) = a
\* What is asked for, in modules and in units, lies in every closed set.
Confined ==
    pc # "attribute" =>
        \A S : Closed(S) =>
            /\ queued \subseteq S
            /\ \A k \in 1..Len(sites) :
                  (sites[k].kind = "call" /\ sites[k].to \in TemplateIds) => Request(sites[k]) \in S
\* At the end every site was looked at.
Finished == pc = "done" => at > Len(sites) /\ queue = <<>>

DemandInv == RequestInv /\ OfModules /\ LookedAt /\ Expanded /\ Confined /\ Finished

\* A step that leaves the requests of modules alone leaves the closed sets alone.
LEMMA SameAsked ==
    ASSUME UNCHANGED program
    PROVE  /\ \A r : Asked(r)' = Asked(r)
           /\ \A s : IsGeneric(s)' <=> IsGeneric(s)
           /\ \A S : ModulesAsk' = ModulesAsk => (Closed(S)' <=> Closed(S))
<1>1. TemplateIds' = TemplateIds /\ \A id : TemplateOf(id)' = TemplateOf(id)
  BY DEF TemplateIds, TemplateOf
<1>2. \A r : Asked(r)' = Asked(r)
  BY <1>1 DEF Asked
<1>3. \A s : IsGeneric(s)' <=> IsGeneric(s)
  BY <1>1 DEF IsGeneric
<1>. QED
  BY <1>2, <1>3 DEF Closed

LEMMA InitDemands == Init => DemandInv
<1> SUFFICES ASSUME Init PROVE DemandInv
  OBVIOUS
<1>1. RequestInv
  BY InitRequests
<1>2. OfModules
  BY <1>1 DEF Init, RequestInv, TypeInv, AttributedOK, OfModules
<1>. QED
  BY <1>1, <1>2 DEF DemandInv, LookedAt, Expanded, Confined, Finished, Init

\* A step of the analysis.
LEMMA AttributeDemands ==
    ASSUME DemandInv, Attribute \/ AttributeKnown, RequestInv'
    PROVE  DemandInv'
<1>1. pc = "attribute" /\ pc' = "attribute" /\ queued' = {}
  BY DEF Attribute, AttributeKnown, DemandInv, RequestInv, UnitsRequested
<1>2. OfModules'
  BY <1>1 DEF OfModules, RequestInv, TypeInv, AttributedOK
<1>. QED
  BY <1>1, <1>2 DEF DemandInv, LookedAt, Expanded, Confined, Finished

LEMMA GenerateDemands ==
    ASSUME DemandInv, Generate, RequestInv'
    PROVE  DemandInv'
<1>1. /\ pc = "attribute" /\ pc' = "extract" /\ at' = 1 /\ UNCHANGED <<program, sites, queue, queued>>
      /\ queued = {} /\ DOMAIN sites = 1..Len(sites) /\ Len(sites) \in Nat
      /\ \A k \in 1..Len(sites) : IsModuleObject(sites[k].object)
  BY DEF Generate, DemandInv, RequestInv, UnitsRequested, OfModules, TypeInv, TypeOK
<1>2. \A S : Closed(S) => \A k \in 1..Len(sites) : IsGeneric(sites[k]) => Request(sites[k]) \in S
  BY <1>1 DEF Closed, ModulesAsk
<1>3. ModulesAsk' = ModulesAsk /\ TemplateIds' = TemplateIds
  BY <1>1 DEF ModulesAsk, IsModuleObject, IsGeneric, Request, TemplateIds
<1>4. \A S : Closed(S)' <=> Closed(S)
  BY <1>1, <1>3, SameAsked
<1>5. Confined'
  BY <1>1, <1>2, <1>3, <1>4 DEF Confined, IsGeneric, Request
<1>6. OfModules' /\ LookedAt' /\ Expanded' /\ Finished'
  BY <1>1 DEF OfModules, LookedAt, Expanded, Finished
<1>. QED
  BY <1>5, <1>6 DEF DemandInv

\* A step that looks at a site, and may replace it by one that asks for the same.
LEMMA LookDemands ==
    ASSUME DemandInv, RequestInv', pc = "extract", pc' = "extract",
           at \in 1..Len(sites), at' = at + 1, UNCHANGED program,
           Len(sites') = Len(sites),
           \A k \in 1..Len(sites) : k # at => sites'[k] = sites[k],
           sites'[at].object = sites[at].object,
           sites'[at].kind = "call" => sites[at].kind = "call",
           IsGeneric(sites'[at]) <=> IsGeneric(sites[at]),
           IsGeneric(sites[at]) =>
              /\ Request(sites'[at]) = Request(sites[at])
              /\ Request(sites[at]) \in queued'
              /\ sites[at].kind = "call" /\ sites[at].to \in TemplateIds,
           queued \subseteq queued',
           queued' \subseteq queued \cup {Request(sites[at])},
           queued' # queued => IsGeneric(sites[at]),
           queued' \ Waiting' \subseteq queued \ Waiting
    PROVE  DemandInv'
<1>1. /\ sites \in Seq(SiteRecord) /\ DOMAIN sites = 1..Len(sites) /\ Len(sites) \in Nat /\ at \in Nat
      /\ DOMAIN sites' = 1..Len(sites)
  BY DEF DemandInv, RequestInv, TypeInv, TypeOK
<1>2. /\ \A r : Asked(r)' = Asked(r)
      /\ TemplateIds' = TemplateIds
      /\ \A k \in 1..Len(sites) : IsGeneric(sites[k])' <=> IsGeneric(sites[k])
      /\ \A k \in 1..Len(sites) : IsGeneric(sites[k]) => Request(sites[k])' = Request(sites[k])
      /\ \A k \in 1..Len(sites) : IsModuleObject(sites[k].object)' <=> IsModuleObject(sites[k].object)
  BY SameAsked, SameProgram DEF IsGeneric, Request, IsModuleObject
<1>3. ModulesAsk' = ModulesAsk
  <2>1. ModulesAsk = {Request(sites[k]) : k \in {j \in 1..Len(sites) :
                        IsModuleObject(sites[j].object) /\ IsGeneric(sites[j])}}
    BY <1>1 DEF ModulesAsk
  <2>2. ModulesAsk' = {Request(sites[k])' : k \in {j \in 1..Len(sites) :
                        IsModuleObject(sites[j].object)' /\ IsGeneric(sites[j])'}}
    BY <1>1 DEF ModulesAsk
  <2>. QED
    BY <1>2, <2>1, <2>2
<1>4. \A S : Closed(S)' <=> Closed(S)
  BY <1>3, SameAsked
<1>5. LookedAt'
  BY <1>1, <1>2 DEF DemandInv, LookedAt
<1>6. Expanded'
  BY <1>1, <1>2 DEF DemandInv, Expanded
<1>7. Confined'
  <2>1. SUFFICES ASSUME NEW S, Closed(S)'
                 PROVE  /\ queued' \subseteq S
                        /\ \A k \in 1..Len(sites) :
                              (sites'[k].kind = "call" /\ sites'[k].to \in TemplateIds)
                                 => Request(sites'[k]) \in S
    BY <1>2 DEF Confined, Request
  <2>2. /\ queued \subseteq S
        /\ \A k \in 1..Len(sites) :
              (sites[k].kind = "call" /\ sites[k].to \in TemplateIds) => Request(sites[k]) \in S
    BY <1>4, <2>1 DEF DemandInv, Confined
  <2>3. ASSUME NEW k \in 1..Len(sites), sites'[k].kind = "call", sites'[k].to \in TemplateIds
        PROVE  Request(sites'[k]) \in S
    <3>1. CASE k = at
      <4>1. IsGeneric(sites[at])
        BY <2>3, <3>1 DEF IsGeneric
      <4>. QED
        BY <2>2, <3>1, <4>1
    <3>. QED
      BY <2>2, <2>3, <3>1
  <2>. QED
    BY <2>2, <2>3
<1>8. OfModules' /\ Finished'
  BY DEF OfModules, Finished
<1>. QED
  BY <1>5, <1>6, <1>7, <1>8 DEF DemandInv

LEMMA InstantiateDemands ==
    ASSUME DemandInv, Instantiate, RequestInv'
    PROVE  DemandInv'
<1> DEFINE r == Head(queue)
           t == TemplateOf(r[1])
           added == [k \in DOMAIN t.uses |-> UnitSite(t, r[2], t.uses[k])]
<1>1. /\ program \in Program /\ sites \in Seq(SiteRecord) /\ queue \in Seq(Concrete)
      /\ DOMAIN sites = 1..Len(sites) /\ Len(sites) \in Nat /\ at \in Nat
      /\ RequestsOnce
  BY DEF DemandInv, RequestInv, TypeInv, TypeOK
<1>2. /\ queue # <<>> /\ pc = "extract" /\ at > Len(sites) /\ sites' = sites \o added
      /\ queue' = Tail(queue) /\ UNCHANGED <<program, pc, at, queued>>
  BY DEF Instantiate
<1>3. r \in Concrete /\ r \in Waiting /\ r \in queued
  BY <1>1, <1>2 DEF RequestsOnce, Waiting
<1>4. Waiting \subseteq Waiting' \cup {r}
  <2>1. ASSUME NEW i \in DOMAIN queue  PROVE queue[i] \in Waiting' \cup {r}
    <3>1. CASE i = 1
      BY <1>1, <1>2, <3>1
    <3>2. CASE i # 1
      <4>1. i - 1 \in DOMAIN queue' /\ queue'[i - 1] = queue[i]
        BY <1>1, <1>2, <3>2
      <4>. QED
        BY <4>1 DEF Waiting
    <3>. QED
      BY <3>1, <3>2
  <2>. QED
    BY <2>1 DEF Waiting
<1>5. /\ added \in Seq(SiteRecord) /\ Len(added) = Len(t.uses) /\ DOMAIN t.uses = 1..Len(t.uses)
      /\ \A k \in 1..Len(added) :
            /\ SiteOK(added[k])
            /\ added[k].object = r
            /\ added[k].kind = t.uses[k].kind
            /\ Request(added[k]) = <<t.uses[k].to, Substitute(t.params, r[2], t.uses[k].args)>>
  BY <1>1, <1>3, UnitSites
<1>6. ~IsModuleObject(r)
  BY <1>1, <1>3, RequestFacts
<1>7. Asked(r) = {<<t.uses[k].to, Substitute(t.params, r[2], t.uses[k].args)>> :
                    k \in {j \in DOMAIN t.uses : t.uses[j].kind = "call" /\ t.uses[j].to \in TemplateIds}}
  BY DEF Asked
<1>. HIDE DEF r, t, added
<1>8. /\ \A k \in 1..Len(added) : added[k].to = t.uses[k].to
      /\ Asked(r) = {Request(added[k]) :
                       k \in {j \in 1..Len(added) : added[j].kind = "call" /\ added[j].to \in TemplateIds}}
  <2>1. \A k \in 1..Len(added) : added[k].to = t.uses[k].to
    BY <1>5 DEF Request
  <2>2. \A k \in DOMAIN t.uses :
           /\ k \in 1..Len(added) /\ added[k].kind = t.uses[k].kind /\ added[k].to = t.uses[k].to
           /\ Request(added[k]) = <<t.uses[k].to, Substitute(t.params, r[2], t.uses[k].args)>>
    BY <1>5, <2>1
  <2>3. {j \in DOMAIN t.uses : t.uses[j].kind = "call" /\ t.uses[j].to \in TemplateIds}
          = {j \in 1..Len(added) : added[j].kind = "call" /\ added[j].to \in TemplateIds}
    BY <1>5, <2>2
  <2>. QED
    BY <1>7, <2>1, <2>2, <2>3
<1>9. /\ Len(sites') = Len(sites) + Len(added) /\ Len(added) \in Nat
      /\ DOMAIN sites' = 1..Len(sites')
      /\ \A k \in 1..Len(sites) : sites'[k] = sites[k] /\ k \in 1..Len(sites')
      /\ \A j \in 1..Len(added) : sites'[Len(sites) + j] = added[j] /\ Len(sites) + j \in 1..Len(sites')
      /\ \A k \in 1..Len(sites') :
            \/ k \in 1..Len(sites)
            \/ \E j \in 1..Len(added) : k = Len(sites) + j
  <2>1. Len(added) \in Nat
    BY <1>5
  <2>2. /\ sites' \in Seq(SiteRecord) /\ Len(sites') = Len(sites) + Len(added)
        /\ \A k \in 1..Len(sites) : sites'[k] = sites[k]
        /\ \A j \in 1..Len(added) : sites'[Len(sites) + j] = added[j]
        /\ \A k \in 1..Len(sites') : k \in 1..Len(sites) \/ \E j \in 1..Len(added) : k = Len(sites) + j
    <3>1. added \in Seq(SiteRecord) /\ sites' = sites \o added
      BY <1>2, <1>5
    <3>2. sites \in Seq(SiteRecord)
      BY <1>1
    <3>. QED
      BY <3>1, <3>2, Appended
  <2>3. /\ \A k \in 1..Len(sites) : k \in 1..Len(sites')
        /\ \A j \in 1..Len(added) : Len(sites) + j \in 1..Len(sites')
        /\ DOMAIN sites' = 1..Len(sites')
    BY <1>1, <2>1, <2>2
  <2>. QED
    BY <2>1, <2>2, <2>3
<1>10. /\ \A q : Asked(q)' = Asked(q)
       /\ TemplateIds' = TemplateIds
       /\ \A q : IsGeneric(q)' <=> IsGeneric(q)
  BY <1>2, SameAsked, SameProgram
<1>11. ModulesAsk' = ModulesAsk
  <2>1. ModulesAsk = {Request(sites[k]) : k \in {j \in 1..Len(sites) :
                        IsModuleObject(sites[j].object) /\ IsGeneric(sites[j])}}
    BY <1>1 DEF ModulesAsk
  <2>2. ModulesAsk' = {Request(sites[k])' : k \in {j \in 1..Len(sites') :
                        IsModuleObject(sites[j].object)' /\ IsGeneric(sites[j])'}}
    BY <1>9 DEF ModulesAsk
  <2>4. /\ \A k \in 1..Len(sites) :
              /\ Request(sites[k])' = Request(sites[k])
              /\ IsModuleObject(sites[k].object)' <=> IsModuleObject(sites[k].object)
              /\ IsGeneric(sites[k])' <=> IsGeneric(sites[k])
        /\ \A k \in 1..Len(sites') : IsModuleObject(sites[k].object)' <=> IsModuleObject(sites'[k].object)
    BY <1>9, <1>10 DEF Request, IsModuleObject, IsGeneric
  <2>3. \A k \in 1..Len(sites') : IsModuleObject(sites'[k].object) => k \in 1..Len(sites)
    BY <1>5, <1>6, <1>9
  <2>. QED
    BY <1>9, <2>1, <2>2, <2>3, <2>4
<1>12. \A S : Closed(S)' <=> Closed(S)
  BY <1>2, <1>11, SameAsked
<1>13. LookedAt'
  <2>1. at = Len(sites) + 1
    BY <1>1, <1>2 DEF DemandInv, RequestInv, TypeInv, TypeOK
  <2>2. \A k \in 1..Len(sites') : k < at => k \in 1..Len(sites)
    BY <1>1, <1>9, <2>1
  <2>. QED
    BY <1>2, <1>9, <2>2 DEF DemandInv, LookedAt, IsGeneric, Request, TemplateIds
<1>14. Expanded'
  <2>1. SUFFICES ASSUME NEW q \in queued \ Waiting', NEW a \in Asked(q)
                 PROVE  \E k \in 1..Len(sites') : IsGeneric(sites'[k]) /\ Request(sites'[k]) = a
    BY <1>2, <1>10 DEF Expanded, IsGeneric, Request
  <2>2. CASE q = r
    <3>1. PICK j \in 1..Len(added) : /\ Request(added[j]) = a
                                     /\ added[j].kind = "call" /\ added[j].to \in TemplateIds
      BY <1>8, <2>1, <2>2
    <3>. QED
      BY <1>9, <3>1 DEF IsGeneric
  <2>3. CASE q # r
    <3>1. q \in queued \ Waiting
      BY <1>4, <2>1, <2>3
    <3>. QED
      BY <1>9, <2>1, <3>1 DEF DemandInv, Expanded
  <2>. QED
    BY <2>2, <2>3
<1>15. Confined'
  <2>1. SUFFICES ASSUME NEW S, Closed(S)
                 PROVE  /\ queued \subseteq S
                        /\ \A k \in 1..Len(sites') :
                              (sites'[k].kind = "call" /\ sites'[k].to \in TemplateIds)
                                 => Request(sites'[k]) \in S
    BY <1>2, <1>10, <1>12 DEF Confined, Request
  <2>2. /\ queued \subseteq S
        /\ \A k \in 1..Len(sites) :
              (sites[k].kind = "call" /\ sites[k].to \in TemplateIds) => Request(sites[k]) \in S
    BY <1>2, <2>1 DEF DemandInv, Confined
  <2>3. Asked(r) \subseteq S
    BY <1>3, <2>1, <2>2 DEF Closed
  <2>4. \A j \in 1..Len(added) :
           (added[j].kind = "call" /\ added[j].to \in TemplateIds) => Request(added[j]) \in S
    BY <1>8, <2>3
  <2>. QED
    BY <1>9, <2>2, <2>4
<1>16. OfModules' /\ Finished'
  BY <1>2 DEF OfModules, Finished
<1>. QED
  BY <1>13, <1>14, <1>15, <1>16 DEF DemandInv

LEMMA NextDemands ==
    ASSUME DemandInv, [Next]_vars
    PROVE  DemandInv'
<1>1. RequestInv'
  BY NextRequests DEF DemandInv
<1>2. /\ program \in Program /\ sites \in Seq(SiteRecord) /\ queue \in Seq(Concrete) /\ at \in Nat \ {0}
      /\ Len(sites) \in Nat /\ RequestsOnce /\ \A k \in 1..Len(sites) : SiteOK(sites[k])
  BY DEF DemandInv, RequestInv, TypeInv, TypeOK
<1>3. CASE SkipCall
  <2>1. /\ at \in 1..Len(sites) /\ at' = at + 1 /\ pc = "extract" /\ ~IsGeneric(sites[at])
        /\ UNCHANGED <<program, pc, sites, queue, queued>>
    BY <1>2, <1>3 DEF SkipCall, Looking
  <2>. QED
    BY <1>1, <2>1, LookDemands DEF Waiting
<1>4. CASE CallMethod
  <2>1. PICK m \in MethodTargets(sites[at]) :
           sites' = [sites EXCEPT ![at] = [@ EXCEPT !.kind = "direct", !.to = m, !.args = <<>>,
                                                    !.name = MangleFunctionName(m, <<>>)]]
    BY <1>4 DEF CallMethod
  <2>2. /\ at \in 1..Len(sites) /\ at' = at + 1 /\ pc = "extract" /\ ~IsGeneric(sites[at])
        /\ UNCHANGED <<program, pc, queue, queued>> /\ sites[at] \in SiteRecord
    BY <1>2, <1>4 DEF CallMethod, Looking
  <2>3. /\ Len(sites') = Len(sites) /\ \A k \in 1..Len(sites) : k # at => sites'[k] = sites[k]
        /\ sites'[at].object = sites[at].object /\ sites'[at].kind = "direct"
    BY <1>2, <2>1, <2>2 DEF SiteRecord
  <2>4. ~IsGeneric(sites'[at])
    BY <2>3 DEF IsGeneric
  <2>. QED
    BY <1>1, <2>2, <2>3, <2>4, LookDemands DEF Waiting
<1>5. CASE RequestTemplate
  <2>1. /\ at \in 1..Len(sites) /\ at' = at + 1 /\ pc = "extract" /\ UNCHANGED <<program, pc>>
        /\ IsGeneric(sites[at]) /\ sites[at].kind = "call" /\ sites[at].to \in TemplateIds
        /\ sites[at] \in SiteRecord /\ Request(sites[at]) \in Concrete
        /\ sites' = [sites EXCEPT ![at].name = RequestedName(sites[at])]
        /\ queued' = queued \cup {Request(sites[at])}
        /\ queue' = IF Request(sites[at]) \in queued THEN queue ELSE Append(queue, Request(sites[at]))
    BY <1>2, <1>5 DEF RequestTemplate, Looking, IsGeneric, Enqueue, SiteOK
  <2>2. /\ Len(sites') = Len(sites) /\ \A k \in 1..Len(sites) : k # at => sites'[k] = sites[k]
        /\ sites'[at].object = sites[at].object /\ sites'[at].kind = sites[at].kind
        /\ sites'[at].to = sites[at].to /\ sites'[at].args = sites[at].args
    BY <1>2, <2>1 DEF SiteRecord
  <2>3. IsGeneric(sites'[at]) /\ Request(sites'[at]) = Request(sites[at])
    BY <2>1, <2>2 DEF IsGeneric, Request
  <2>4. queued' \ Waiting' \subseteq queued \ Waiting
    <3> DEFINE r == Request(sites[at])
    <3>. HIDE DEF r
    <3>1. CASE r \in queued
      <4>1. queued' = queued /\ queue' = queue
        BY <2>1, <3>1 DEF r
      <4>. QED
        BY <4>1 DEF Waiting
    <3>2. CASE r \notin queued
      <4>1. /\ queue' = Append(queue, r) /\ r \in Concrete /\ queued' = queued \cup {r}
        BY <2>1, <3>2 DEF r
      <4>2. /\ DOMAIN queue' = 1..(Len(queue) + 1) /\ DOMAIN queue = 1..Len(queue) /\ Len(queue) \in Nat
            /\ queue'[Len(queue) + 1] = r /\ \A i \in 1..Len(queue) : queue'[i] = queue[i]
        BY <1>2, <4>1
      <4>3. \A i \in 1..Len(queue) : i \in DOMAIN queue' /\ Len(queue) + 1 \in DOMAIN queue'
        BY <4>2
      <4>4. r \in Waiting' /\ Waiting \subseteq Waiting'
        <5>1. Len(queue) + 1 \in DOMAIN queue'
          BY <4>2
        <5>. QED
          BY <4>2, <4>3, <5>1 DEF Waiting
      <4>. QED
        BY <4>1, <4>4
    <3>. QED
      BY <3>1, <3>2
  <2>. QED
    BY <1>1, <2>1, <2>2, <2>3, <2>4, LookDemands
<1>6. CASE Unavailable \/ Finish \/ UNCHANGED vars
  <2>1. /\ UNCHANGED <<program, at, sites, queue, queued>>
        /\ pc' = "attribute" => pc = "attribute"
        /\ pc' # "attribute" => pc # "attribute"
        /\ pc' \in {"extract", "done"} => pc \in {"extract", "done"}
        /\ pc' = "done" => pc = "done" \/ (at > Len(sites) /\ queue = <<>>)
    BY <1>6 DEF Unavailable, Looking, Finish, vars
  <2>2. /\ TemplateIds' = TemplateIds /\ Waiting' = Waiting /\ \A r : Asked(r)' = Asked(r)
        /\ \A s : IsGeneric(s)' <=> IsGeneric(s)
    BY <2>1, SameAsked, SameProgram DEF Waiting
  <2>3. ModulesAsk' = ModulesAsk
    BY <2>1, <2>2 DEF ModulesAsk, IsModuleObject, IsGeneric, Request
  <2>4. \A S : Closed(S)' <=> Closed(S)
    BY <2>1, <2>3, SameAsked
  <2>5. OfModules' /\ Finished'
    BY <2>1 DEF DemandInv, OfModules, Finished, IsModuleObject
  <2>6. LookedAt'
    BY <2>1, <2>2 DEF DemandInv, LookedAt, IsGeneric, Request
  <2>7. Expanded'
    BY <2>1, <2>2 DEF DemandInv, Expanded, IsGeneric, Request
  <2>8. Confined'
    BY <2>1, <2>2, <2>4 DEF DemandInv, Confined, Request
  <2>. QED
    BY <1>1, <2>5, <2>6, <2>7, <2>8 DEF DemandInv
<1>. QED
  BY <1>1, <1>3, <1>4, <1>5, <1>6, AttributeDemands, GenerateDemands, InstantiateDemands
     DEF Next, Extract, Done

LEMMA DemandInvariant == Spec => []DemandInv
<1>1. Init => DemandInv
  BY InitDemands
<1>2. DemandInv /\ [Next]_vars => DemandInv'
  BY NextDemands
<1>. QED
  BY <1>1, <1>2, PTL DEF Spec

\* Only what some call can reach is instantiated again: every set of instances that has
\* what the modules ask for, and what its own members ask for, has all requests.
THEOREM NothingElseDemanded == Spec => []OnlyDemanded
<1>1. DemandInv => OnlyDemanded
  BY DEF DemandInv, Confined, OnlyDemanded
<1>. QED
  BY <1>1, DemandInvariant, PTL

\* At the end the requests have all that they ask for.
LEMMA EndClosed ==
    ASSUME DemandInv, pc = "done"
    PROVE  Closed(queued)
<1>1. /\ DOMAIN sites = 1..Len(sites) /\ at > Len(sites) /\ Len(sites) \in Nat /\ at \in Nat
      /\ Waiting = {}
  <2>1. sites \in Seq(SiteRecord) /\ at \in Nat /\ at > Len(sites) /\ queue = <<>>
    BY DEF DemandInv, RequestInv, TypeInv, TypeOK, Finished
  <2>. QED
    BY <2>1 DEF Waiting
<1>2. \A k \in 1..Len(sites) : k < at
  BY <1>1
<1>3. \A k \in 1..Len(sites) : IsGeneric(sites[k]) => Request(sites[k]) \in queued
  BY <1>2 DEF DemandInv, LookedAt
<1>4. ModulesAsk \subseteq queued
  BY <1>1, <1>3 DEF ModulesAsk
<1>5. \A r \in queued : Asked(r) \subseteq queued
  BY <1>1, <1>3 DEF DemandInv, Expanded
<1>. QED
  BY <1>4, <1>5 DEF Closed

\* All that a call asks for is instantiated again, that of the units included.
THEOREM EverythingDemanded == Spec => []AllDemanded
<1>1. DemandInv => AllDemanded
  BY EndClosed DEF AllDemanded
<1>. QED
  BY <1>1, DemandInvariant, PTL

=============================================================================
