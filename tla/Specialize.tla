----------------------------- MODULE Specialize -----------------------------
(***************************************************************************)
(* Generic functions. Semantic analysis instantiates a template for every  *)
(* list of type arguments it meets and puts the instance into the module   *)
(* of the template (sema/generics.go). Behind it, the loader instantiates  *)
(* the template's own code once more for each list that is called, gives   *)
(* every instance an object of its own, and takes the first copy out of    *)
(* the module again (loader/specializations.go).                           *)
(*                                                                         *)
(* Names are sequences of words: strings of the code are compared by their *)
(* prefixes, and a word is what two of them can differ by. Code is the     *)
(* functions it refers to: a site is a call or a function's address.       *)
(***************************************************************************)
EXTENDS Naturals, Sequences, FiniteSets

CONSTANTS
    Word,       \* the words of names
    Type,       \* the concrete types
    Parameter,  \* the type parameters of templates
    Program     \* the programs

Name == Seq(Word)
Arguments == Seq(Type \cup Parameter)
Identifier == [module : Word, words : Name]

\* A reference in a function: a call as written; the call a wrapper makes, or one that
\* is resolved, without reference to a template; a function's address; or the call of
\* a trait's requirement, whose first type argument is the receiver's. home: the
\* wrapper it is in; suffix: the wrapper or lambda of "to" that is meant.
Use == [home : Name, kind : {"call", "direct", "address", "require"}, to : Identifier,
        args : Arguments, suffix : Name]

\* wrappers: what leaving out arguments adds to a template's functions; extras:
\* what only an instance in its module has, lambdas and wrappers for constants.
Template == [id : Identifier, params : Seq(Parameter), internal : BOOLEAN,
             wrappers : SUBSET Name, extras : SUBSET Name, uses : Seq(Use)]
\* A method declared for the types of one owner, or the default of a requirement.
Method == [owner : Word, require : Name, to : Identifier]

\* sites: the references in functions that are not generic, each with its function.
Programs ==
    [functions : SUBSET [id : Identifier, internal : BOOLEAN],
     sites : Seq([in : Identifier, use : Use]),
     templates : SUBSET Template, methods : SUBSET Method, defaults : SUBSET Method]

\* A type argument's word stands in names for the hash of its identity.
ASSUME TypeAssumption ==
    /\ Type \subseteq [kind : {"plain", "str", "cstr"}, name : Word, owner : Word]
    /\ Parameter \subseteq [kind : {"parameter"}, name : Word, owner : Word]
    /\ {"$", "", "u8"} \subseteq Word

\* Arguments that a function takes: one for each parameter of a template.
Fits(p, to, args) ==
    /\ \A t \in p.templates : t.id = to => Len(args) = Len(t.params)
    /\ to \notin {t.id : t \in p.templates} => args = <<>>

\* Whose methods a type has, for semantic analysis.
methodOwnerIdentity(type) ==
    CASE type.kind = "str" -> "str" [] type.kind = "cstr" -> "cstr" [] OTHER -> type.owner

\* The declared methods and the defaults by which a type has what a requirement asks.
Declared(p, type, require) ==
    {m \in p.methods : m.owner = methodOwnerIdentity(type) /\ m.require = require}
Inherited(p, require) == {m \in p.defaults : m.require = require}

\* What semantic analysis accepts: one template has one name; outside of templates
\* arguments are concrete and no requirement is called; in a template arguments are
\* concrete or its own parameters, and the types have what it requires.
Accepts(p) ==
    /\ \A t, u \in p.templates : t.id = u.id => t = u
    /\ \A t \in p.templates : t.id.words # <<>>
    /\ \A k \in DOMAIN p.sites :
          LET use == p.sites[k].use
          IN  use.kind # "require" /\ use.args \in Seq(Type) /\ Fits(p, use.to, use.args)
    /\ \A t \in p.templates : \A k \in DOMAIN t.uses :
          LET use == t.uses[k]
          IN  /\ use.args \in Seq(Type \cup {t.params[i] : i \in DOMAIN t.params})
              /\ use.kind # "require" => Fits(p, use.to, use.args)
              /\ use.kind = "require" =>
                    /\ use.args # <<>>
                    /\ \A type \in Type :
                          Declared(p, type, use.to.words) \cup Inherited(p, use.to.words) # {}
                    /\ \A m \in p.methods :
                          m.require = use.to.words => Fits(p, m.to, Tail(use.args))
                    /\ \A m \in Inherited(p, use.to.words) : Fits(p, m.to, use.args)

ASSUME ProgramAssumption == \A p \in Program : p \in Programs /\ Accepts(p)

-----------------------------------------------------------------------------
VARIABLES
    program,    \* given
    pc,         \* "attribute", "extract", "done", "failed"
    at,         \* the next site to look at
    sites,      \* the references of all functions
    functions,  \* the functions of all objects
    instances,  \* <<id, args>>: the instances semantic analysis made
    queue,      \* requests that wait, <<id, args>>
    queued,     \* the requests ever made
    declared    \* <<object, name>>: functions an object declares and does not define

vars == <<program, pc, at, sites, functions, instances, queue, queued, declared>>

TemplateIds == {t.id : t \in program.templates}
TemplateOf(id) == CHOOSE t \in program.templates : t.id = id

\* The name of a function in the object code, and of an instance's.
MangleFunctionName(id, args) ==
    <<id.module>> \o id.words
    \o (IF args = <<>> THEN <<>> ELSE <<"$">> \o [i \in DOMAIN args |-> args[i].name])

\* An object belongs to a module, or to a request.
ModuleObject(id) == <<[id EXCEPT !.words = <<>>], <<>>>>
IsModuleObject(object) == object[1].words = <<>>

Bind(params, args, type) ==
    IF \E i \in DOMAIN params : params[i] = type
    THEN args[CHOOSE i \in DOMAIN params : params[i] = type]
    ELSE type
Substitute(params, args, uses) == [i \in DOMAIN uses |-> Bind(params, args, uses[i])]

Site(object, home, use, args, name) ==
    [object |-> object, home |-> home, kind |-> use.kind, to |-> use.to, args |-> args, name |-> name]

Request(s) == <<s.to, s.args>>
\* A call that carries a reference to a template. The call of a requirement does so
\* when the requirement has type parameters of its own.
IsGeneric(s) ==
    \/ s.kind = "call" /\ s.to \in TemplateIds
    \/ s.kind = "require" /\ Len(s.args) > 1

Init ==
    /\ program \in Program
    /\ pc = "attribute"
    /\ at = 1
    /\ functions = {[object |-> ModuleObject(f.id), name |-> MangleFunctionName(f.id, <<>>),
                     internal |-> f.internal] : f \in program.functions}
    /\ sites = [k \in DOMAIN program.sites |->
                  LET use == program.sites[k].use
                      in == program.sites[k].in
                  IN  Site(ModuleObject(in), MangleFunctionName(in, <<>>), use, use.args,
                           MangleFunctionName(use.to, use.args) \o use.suffix)]
    /\ instances = {} /\ queue = <<>> /\ queued = {} /\ declared = {}
-----------------------------------------------------------------------------
(***************************************************************************)
(* Semantic analysis: instances in the module of their template.           *)
(***************************************************************************)
\* What a requirement means for a type: the method of that name, or the default
\* instantiated for the type.
Conforming(actual, require) ==
    LET own == Declared(program, Head(actual), require)
    IN  IF own # {}
        THEN [to |-> (CHOOSE m \in own : TRUE).to, args |-> Tail(actual)]
        ELSE [to |-> (CHOOSE m \in Inherited(program, require) : TRUE).to, args |-> actual]

InstanceSite(t, args, use) ==
    LET actual == Substitute(t.params, args, use.args)
        target == IF use.kind = "require"
                  THEN Conforming(actual, use.to.words)
                  ELSE [to |-> use.to, args |-> actual]
        kind == IF use.kind = "require" THEN "call" ELSE use.kind
    IN  Site(ModuleObject(t.id), MangleFunctionName(t.id, args) \o use.home,
             [use EXCEPT !.kind = kind, !.to = target.to], target.args,
             MangleFunctionName(target.to, target.args) \o use.suffix)

InstanceFunctions(t, args) ==
    {[object |-> ModuleObject(t.id), name |-> MangleFunctionName(t.id, args) \o w, internal |-> t.internal] :
        w \in {<<>>} \cup t.wrappers \cup t.extras}

\* specializeGenericFunction: once for each list of arguments.
Attribute ==
    /\ pc = "attribute"
    /\ at <= Len(sites)
    /\ sites[at].to \in TemplateIds
    /\ Request(sites[at]) \notin instances
    /\ LET t == TemplateOf(sites[at].to)
           args == sites[at].args
       IN  /\ sites' = sites \o [k \in DOMAIN t.uses |-> InstanceSite(t, args, t.uses[k])]
           /\ functions' = functions \cup InstanceFunctions(t, args)
           /\ instances' = instances \cup {<<t.id, args>>}
    /\ at' = at + 1
    /\ UNCHANGED <<program, pc, queue, queued, declared>>

AttributeKnown ==
    /\ pc = "attribute"
    /\ at <= Len(sites)
    /\ sites[at].to \notin TemplateIds \/ Request(sites[at]) \in instances
    /\ at' = at + 1
    /\ UNCHANGED <<program, pc, sites, functions, instances, queue, queued, declared>>

\* Modules declare what they take from other modules.
Generate ==
    /\ pc = "attribute"
    /\ at > Len(sites)
    /\ declared' = {<<s.object, s.name>> : s \in {sites[k] : k \in DOMAIN sites}}
                   \ {<<f.object, f.name>> : f \in functions}
    /\ pc' = "extract"
    /\ at' = 1
    /\ UNCHANGED <<program, sites, functions, instances, queue, queued>>
-----------------------------------------------------------------------------
(***************************************************************************)
(* Extraction: sites in the order of the modules, then those of each new   *)
(* unit.                                                                   *)
(***************************************************************************)
IsPrefixOf(prefix, name) ==
    /\ Len(prefix) <= Len(name)
    /\ \A i \in DOMAIN prefix : prefix[i] = name[i]

\* renameCallTarget. A mangled name can only occur at the start of another one.
Rename(name, old, new) ==
    IF IsPrefixOf(new, name) \/ ~IsPrefixOf(old, name) THEN name
    ELSE new \o SubSeq(name, Len(old) + 1, Len(name))

\* Whose methods a type has, for the loader.
concreteTypeIdentity(type) ==
    CASE type.kind = "str" -> "" [] type.kind = "cstr" -> "u8" [] OTHER -> type.owner

\* methodTargets: the declared methods, and not the defaults.
MethodTargets(s) ==
    {m.to : m \in {n \in program.methods : /\ n.owner = concreteTypeIdentity(s.args[1])
                                          /\ n.require = s.to.words}}

\* queueCalls, one call.
Looking == pc = "extract" /\ at <= Len(sites)

\* Mutant: the loop stays at the call.
SkipCallStays ==
    /\ Looking
    /\ sites[at].kind # "require"
    /\ ~IsGeneric(sites[at])
    /\ UNCHANGED vars
\* Mutant: any call may be left alone.
SkipCallAny ==
    /\ Looking
    /\ sites[at].kind # "require"
    /\ at' = at + 1
    /\ UNCHANGED <<program, pc, sites, functions, instances, queue, queued, declared>>
SkipCall ==
    /\ Looking
    /\ sites[at].kind # "require"
    /\ ~IsGeneric(sites[at])
    /\ at' = at + 1
    /\ UNCHANGED <<program, pc, sites, functions, instances, queue, queued, declared>>

CallMethod ==
    /\ Looking
    /\ sites[at].kind = "require"
    /\ ~IsGeneric(sites[at])
    /\ \E m \in MethodTargets(sites[at]) :
          sites' = [sites EXCEPT ![at] = [@ EXCEPT !.kind = "direct", !.to = m, !.args = <<>>,
                                                   !.name = MangleFunctionName(m, <<>>)]]
    /\ at' = at + 1
    /\ UNCHANGED <<program, pc, functions, instances, queue, queued, declared>>

\* No method for a requirement, or one with type parameters of its own: the template
\* it refers to is not among those of the modules.
Unavailable ==
    /\ Looking
    /\ sites[at].kind = "require"
    /\ MethodTargets(sites[at]) = {} \/ IsGeneric(sites[at])
    /\ pc' = "failed"
    /\ UNCHANGED <<program, at, sites, functions, instances, queue, queued, declared>>

Enqueue(request) == queue' = IF request \in queued THEN queue ELSE Append(queue, request)

\* The name that a call asks for.
RequestedName(s) ==
    Rename(s.name, MangleFunctionName(s.to, <<>>), MangleFunctionName(s.to, s.args))

RequestTemplate ==
    /\ Looking
    /\ sites[at].kind # "require"
    /\ IsGeneric(sites[at])
    /\ Enqueue(Request(sites[at]))
    /\ queued' = queued \cup {Request(sites[at])}
    /\ sites' = [sites EXCEPT ![at].name = RequestedName(sites[at])]
    /\ at' = at + 1
    /\ UNCHANGED <<program, pc, functions, instances, declared>>

\* Mutant: calls take the arguments of the function they are in.
UnitSiteOfArgs(t, args, use) ==
    Site(<<t.id, args>>, MangleFunctionName(t.id, args) \o use.home, use, args,
         MangleFunctionName(use.to, <<>>) \o use.suffix)
\* Mutant: the template's own names stay.
UnitSiteUnrenamed(t, args, use) ==
    Site(<<t.id, args>>, MangleFunctionName(t.id, args) \o use.home, use,
         Substitute(t.params, args, use.args), MangleFunctionName(use.to, <<>>) \o use.suffix)
\* InstantiateGenericTemplate, and the template's own names replaced in its calls.
UnitSite(t, args, use) ==
    LET base == MangleFunctionName(t.id, <<>>)
        specialized == MangleFunctionName(t.id, args)
        name == MangleFunctionName(use.to, <<>>) \o use.suffix
    IN  Site(<<t.id, args>>, specialized \o use.home, use, Substitute(t.params, args, use.args),
             IF use.kind = "address" THEN name ELSE Rename(name, base, specialized))

\* Mutant: the wrappers stay with the module.
UnitFunctionsBare(t, args) ==
    {[object |-> <<t.id, args>>, name |-> MangleFunctionName(t.id, args), internal |-> FALSE]}
UnitFunctions(t, args) ==
    {[object |-> <<t.id, args>>, name |-> MangleFunctionName(t.id, args) \o w, internal |-> FALSE] :
        w \in {<<>>} \cup t.wrappers}

Instantiate ==
    /\ pc = "extract"
    /\ at > Len(sites)
    /\ queue # <<>>
    /\ LET t == TemplateOf(Head(queue)[1])
           args == Head(queue)[2]
       IN  /\ sites' = sites \o [k \in DOMAIN t.uses |-> UnitSite(t, args, t.uses[k])]
           /\ functions' = functions \cup UnitFunctions(t, args)
    /\ queue' = Tail(queue)
    /\ UNCHANGED <<program, pc, at, instances, queued, declared>>

Removed == {f.name : f \in {g \in functions : ~IsModuleObject(g.object)}}
\* What stays of the modules, and the units.
Kept == {f \in functions : IsModuleObject(f.object) => f.name \notin Removed}

IsCall(s) == s.kind # "address"
IsDefinedIn(object, name) == \E f \in Kept : f.object = object /\ f.name = name
LiveSites == {s \in {sites[k] : k \in DOMAIN sites} : IsDefinedIn(s.object, s.home)}

\* Mutant: modules declare nothing for the functions they lost.
ImportsForgotten == {}
\* addSpecializationImports: a module declares the specializations that it calls.
Imports ==
    {<<s.object, s.name>> : s \in {u \in LiveSites : /\ IsModuleObject(u.object) /\ IsCall(u)
                                                     /\ u.name \in Removed
                                                     /\ ~IsDefinedIn(u.object, u.name)}}
\* addSpecializationExterns: a unit declares all that it calls and does not define.
UnitExterns ==
    {<<s.object, s.name>> : s \in {u \in LiveSites : /\ ~IsModuleObject(u.object) /\ IsCall(u)
                                                     /\ ~IsDefinedIn(u.object, u.name)}}

Finish ==
    /\ pc = "extract"
    /\ at > Len(sites)
    /\ queue = <<>>
    /\ functions' = Kept
    /\ declared' = declared \cup Imports \cup UnitExterns
    /\ pc' = "done"
    /\ UNCHANGED <<program, at, sites, instances, queue, queued>>

Done == pc \in {"done", "failed"} /\ UNCHANGED vars

Extract == SkipCall \/ CallMethod \/ Unavailable \/ RequestTemplate \/ Instantiate \/ Finish
Next == Attribute \/ AttributeKnown \/ Generate \/ Extract \/ Done

Spec == Init /\ [][Next]_vars /\ WF_vars(Next)
-----------------------------------------------------------------------------
(***************************************************************************)
(* Properties.                                                             *)
(***************************************************************************)
Concrete == {r \in TemplateIds \X Seq(Type) : Len(r[2]) = Len(TemplateOf(r[1]).params)}
Object == Identifier \X Seq(Type)
SiteRecord == [object : Object, home : Name, kind : {"call", "direct", "address", "require"},
               to : Identifier, args : Seq(Type), name : Name]

\* Every variable has its type: what is called has concrete arguments, in units as in
\* modules, and instances and requests have as many as their template has parameters.
TypeOK ==
    /\ program \in Program
    /\ pc \in {"attribute", "extract", "done", "failed"}
    /\ at \in Nat \ {0} /\ at <= Len(sites) + 1
    /\ sites \in Seq(SiteRecord)
    /\ functions \subseteq [object : Object, name : Name, internal : BOOLEAN]
    /\ instances \subseteq Concrete
    /\ queue \in Seq(Concrete)
    /\ queued \subseteq Concrete
    /\ declared \subseteq Object \X Name

\* No list of arguments is instantiated twice: a request that was made waits in the
\* queue, once, or has its unit.
Waiting == {queue[i] : i \in DOMAIN queue}
HasUnit(r) == \E f \in functions : f.object = r
RequestsOnce ==
    /\ \A i, j \in DOMAIN queue : queue[i] = queue[j] => i = j
    /\ Waiting \subseteq queued
    /\ \A r \in Waiting : ~HasUnit(r)
    /\ \A r \in queued \ Waiting : HasUnit(r)

\* What the modules' calls ask for, and what an instance of a template asks for.
ModulesAsk ==
    {Request(s) : s \in {u \in {sites[k] : k \in DOMAIN sites} : IsModuleObject(u.object) /\ IsGeneric(u)}}
Asked(r) ==
    LET t == TemplateOf(r[1])
    IN  {<<t.uses[k].to, Substitute(t.params, r[2], t.uses[k].args)>> :
           k \in {j \in DOMAIN t.uses : t.uses[j].kind = "call" /\ t.uses[j].to \in TemplateIds}}
Closed(S) == ModulesAsk \subseteq S /\ \A r \in S : Asked(r) \subseteq S

\* Only what some call can reach is instantiated: the requests lie in every set of
\* instances that has what the modules ask for and what its own members ask for.
OnlyDemanded == pc # "attribute" => \A S \in SUBSET instances : Closed(S) => queued \subseteq S

\* All of it is instantiated: at the end the requests are such a set.
AllDemanded == pc = "done" => Closed(queued)

\* A call or address in what is linked means a function: of the same object, or one
\* that another object defines for all and that the object declares.
Resolves(s) ==
    \E f \in functions :
        /\ f.name = s.name
        /\ f.object = s.object \/ (~f.internal /\ <<s.object, s.name>> \in declared)
CallsResolve == pc = "done" => \A s \in LiveSites : Resolves(s)

\* No two objects define one name for all.
OneDefinition ==
    pc = "done" => \A f, g \in functions : f.name = g.name /\ ~f.internal /\ ~g.internal => f = g

\* What is called is one function, in whichever object it lies: the instances that were
\* taken out are found in their units, and nothing is defined twice
\* (specializations.go:215-226, 333-368).
CallsMeanOne == CallsResolve /\ OneDefinition

\* A unit refers to what the instance refers to that semantic analysis checked and
\* that the unit replaces: the two ways to instantiate a template agree.
SameCallees ==
    pc = "done" => \A r \in queued : \A w \in {<<>>} \cup TemplateOf(r[1]).wrappers :
        LET names(object) == {s.name : s \in {u \in {sites[k] : k \in DOMAIN sites} :
                                /\ u.object = object
                                /\ u.home = MangleFunctionName(r[1], r[2]) \o w}}
        IN  names(r) = names(ModuleObject(r[1]))

\* A module that asks for no template itself is left with its own functions, whatever
\* the modules that import it ask for.
BaseUnvarying ==
    pc = "done" =>
        \A object \in {ModuleObject(f.id) : f \in program.functions} :
            (\A k \in DOMAIN program.sites :
                ModuleObject(program.sites[k].in) = object => program.sites[k].use.to \notin TemplateIds)
            => \A f \in functions :
                  f.object = object => f.name \in {MangleFunctionName(g.id, <<>>) : g \in program.functions}

\* The units replace the instances: what they refer to is there, and is what semantic
\* analysis checked.
Replaced == CallsResolve /\ SameCallees

\* The worklist comes to its end.
Extracted == <>(pc \in {"done", "failed"})

-----------------------------------------------------------------------------
(***************************************************************************)
(* The programs in which units replace their instances. What is left out   *)
(* is what the loader gets wrong.                                          *)
(***************************************************************************)
IsTemplate(p, id) == \E t \in p.templates : t.id = id
IsFunction(p, id) == \E f \in p.functions : f.id = id
IsPublic(p, id) == \E f \in p.functions : f.id = id /\ ~f.internal

\* What a template's functions are called behind its own name.
Own(t) == {<<>>} \cup t.wrappers
BelongsTo(p, suffix, id) == \E t \in p.templates : t.id = id /\ suffix \in Own(t)

\* The types that a program writes.
Writes(args, type) == \E i \in DOMAIN args : args[i] = type
Written(p) ==
    {type \in Type : \/ \E k \in DOMAIN p.sites : Writes(p.sites[k].use.args, type)
                    \/ \E t \in p.templates : \E k \in DOMAIN t.uses : Writes(t.uses[k].args, type)}

\* No two functions have one name: hashes of types do not collide.
DistinctNames(p) ==
    \A t \in p.templates : \A args \in [1..Len(t.params) -> Type] : \A w \in Own(t) :
        /\ \A f \in p.functions : MangleFunctionName(f.id, <<>>) # MangleFunctionName(t.id, args) \o w
        /\ \A u \in p.templates : \A other \in [1..Len(u.params) -> Type] : \A v \in Own(u) :
              MangleFunctionName(t.id, args) \o w = MangleFunctionName(u.id, other) \o v
                  => t = u /\ args = other /\ w = v

\* Parameters differ, there are no lambdas, and a wrapper's name does not begin as
\* type arguments do.
PlainTemplate(t) ==
    /\ t.params # <<>>
    /\ \A i, j \in DOMAIN t.params : t.params[i] = t.params[j] => i = j
    /\ t.extras = {}
    /\ \A w \in t.wrappers : w # <<>> /\ w[1] # "$"

\* A function that is not generic calls instances, and functions that it can see.
PlainSite(p, site) ==
    /\ IsFunction(p, site.in)
    /\ IF IsTemplate(p, site.use.to)
       THEN site.use.kind = "call" /\ BelongsTo(p, site.use.suffix, site.use.to)
       ELSE /\ site.use.suffix = <<>>
            /\ \E f \in p.functions :
                  f.id = site.use.to /\ (f.internal => site.use.to.module = site.in.module)

\* A template calls public functions, and instances. It calls nothing that its own name
\* begins, except itself with its parameters as they are; it takes the address of what it
\* calls as well, and never that of an instance.
PlainUse(p, t, use) ==
    /\ use.home \in Own(t)
    /\ use.kind = "require" =>
          /\ use.suffix = <<>>
          /\ Len(use.args) = 1 => \A m \in p.methods : m.require = use.to.words => IsPublic(p, m.to)
    /\ use.kind # "require" =>
          IF IsTemplate(p, use.to)
          THEN use.kind # "address" /\ BelongsTo(p, use.suffix, use.to)
          ELSE use.suffix = <<>> /\ IsPublic(p, use.to)
    /\ use.kind \in {"call", "direct"} =>
          \/ use.to = t.id /\ use.args = t.params
          \/ ~IsPrefixOf(MangleFunctionName(t.id, <<>>), MangleFunctionName(use.to, <<>>) \o use.suffix)
    /\ use.kind = "direct" /\ IsTemplate(p, use.to) => use.to = t.id
    /\ use.kind = "address" =>
          \E k \in DOMAIN t.uses : /\ t.uses[k].kind \in {"call", "direct"} /\ t.uses[k].to = use.to
                                   /\ t.uses[k].suffix = use.suffix /\ t.uses[k].home \in Own(t)

\* Types have one method for a requirement, and neither kind of string is an argument.
Replaceable(p) ==
    /\ DistinctNames(p)
    /\ \A t \in p.templates : PlainTemplate(t) /\ \A k \in DOMAIN t.uses : PlainUse(p, t, t.uses[k])
    /\ \A k \in DOMAIN p.sites : PlainSite(p, p.sites[k])
    /\ \A m, n \in p.methods : m.owner = n.owner /\ m.require = n.require => m = n
    /\ \A type \in Written(p) : type.kind \notin {"str", "cstr"}
=============================================================================
