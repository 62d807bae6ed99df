--------------------------- MODULE RubyReference ---------------------------
(***************************************************************************)
(* What the Ruby files of a project do when they are loaded, stated over   *)
(* the same syntax trees that DefScan reads and independently of it: which *)
(* methods a class may come to have, what a constant means, and the order  *)
(* in which Ruby looks for a method.  It is the language's semantics, not  *)
(* code of the repository; the properties of the class index compare the   *)
(* index with it.                                                          *)
(*                                                                         *)
(* A world is the sequence of statements that class bodies execute, each   *)
(* with the class it runs in.  Every arm of a condition may run, every     *)
(* method may be called, and a call nobody can read may define anything.   *)
(***************************************************************************)
EXTENDS DefScan

CONSTANT Fuel   \* how deep an inheritance chain of the instance can be

Main == <<"main">>   \* outside every class body; a `def` here is private

Event(n, nesting, owner, single) == [n |-> n, nesting |-> nesting, owner |-> owner, single |-> single]

(* The statements of a list that a class body, or the top level, executes. *)
RECURSIVE Events(_, _, _, _)
Events(stmts, nesting, owner, single) ==
    FoldLeft(LAMBDA acc, n :
        acc \o CASE n.kind \in {"class", "module"} ->
                      LET full == join_path(IF nesting = <<>> THEN <<>> ELSE Last(nesting), n.on)
                      IN  <<Event(n, nesting, full, FALSE)>>
                          \o Events(n.body, Append(nesting, full), full, FALSE)
                 [] n.kind = "sclass" ->
                      Events(n.body, nesting, IF n.recv = "self" THEN owner ELSE n.on.path, TRUE)
                 [] n.kind \in {"if", "elsif", "unless", "begin"} -> Events(n.body \o n.other, nesting, owner, single)
                 [] OTHER -> <<Event(n, nesting, owner, single)>>
                             \o Events(IF n.kind = "call" /\ n.block # "none" THEN n.body ELSE <<>>,
                                       nesting, owner, single),
        <<>>, stmts)

World(texts) ==
    FoldLeft(LAMBDA acc, t : acc \o Events(t, <<>>, Main, FALSE), <<>>, texts)

Calls(w, names) == SelectSeq(w, LAMBDA e : e.n.kind = "call" /\ e.n.name \in names)

-----------------------------------------------------------------------------
(* Constants.                                                              *)

Written(w) == {e.owner : e \in {e \in ToSet(w) : e.n.kind \in {"class", "module"}}}
ModulesOf(w) == {e.owner : e \in {e \in ToSet(w) : e.n.kind = "module"}}

(* The constants that hold a value, by full path; an alias holds a class.  *)
Values(w) ==
    {IF e.n.kind = "pathconst" \/ e.owner = Main THEN e.n.on.path ELSE e.owner \o e.n.on.path :
     e \in {e \in ToSet(w) : e.n.kind \in {"const", "pathconst"}}}

Exists(w, path) == path \in Written(w) \cup Values(w) \cup CoreNames

RECURSIVE RubyResolve(_, _, _, _)
RECURSIVE MRO(_, _, _)

Aliased(w, path, fuel) ==
    LET es == {e \in ToSet(w) : /\ e.n.kind \in {"const", "pathconst"} /\ e.n.values # <<>>
                                /\ path = (IF e.n.kind = "pathconst" \/ e.owner = Main THEN e.n.on.path
                                           ELSE e.owner \o e.n.on.path)}
        e == CHOOSE x \in es : TRUE
    IN  IF es = {} \/ fuel = 0 THEN path ELSE RubyResolve(w, e.nesting, e.n.values[1], fuel - 1)

(* Ruby resolves the first segment lexically, then through the ancestors   *)
(* of the innermost class, then at top level; the others in what it found. *)
RubyResolve(w, nesting, name, fuel) ==
    LET s == <<name.path[1]>>
        i == SelectLastInSeq(nesting, LAMBDA level : Exists(w, level \o s))
        above == IF nesting = <<>> \/ fuel = 0 THEN <<>> ELSE MRO(w, Last(nesting), fuel - 1)
        j == SelectInSeq(above, LAMBDA a : Exists(w, a \o s))
        first == CASE ~name.abs /\ i # 0 -> nesting[i] \o s
                   [] ~name.abs /\ i = 0 /\ j # 0 -> above[j] \o s
                   [] OTHER -> IF Exists(w, s) THEN s ELSE None
        Step(acc, seg) ==
            LET chain == IF acc = None \/ fuel = 0 THEN <<>> ELSE MRO(w, acc, fuel - 1)
                k == SelectInSeq(chain, LAMBDA a : Exists(w, Append(a, seg)))
            IN  IF k = 0 THEN None ELSE Aliased(w, Append(chain[k], seg), fuel)
    IN  FoldLeft(Step, IF first = None THEN None ELSE Aliased(w, first, fuel), Tail(name.path))

-----------------------------------------------------------------------------
(* Ancestors.                                                              *)

Mixins(w, path, name, single) ==
    LET es == SelectSeq(Calls(w, {name}), LAMBDA e :
                 e.owner = path /\ e.single = single /\ e.n.recv \in {"none", "self"})
    IN  FlattenSeq([i \in DOMAIN es |-> LET cs == ConstArgs(es[i].n.args)
                                        IN  [k \in DOMAIN cs |-> [name |-> cs[k], nesting |-> es[i].nesting]]])

(* The header of the first body that writes one.                           *)
Header(w, path) ==
    LET es == SelectSeq(w, LAMBDA e : e.n.kind = "class" /\ e.owner = path /\ e.n.super # NoName)
    IN  IF es = <<>> THEN None ELSE <<es[1]>>

(* The order of a method search: what is prepended, last first, the class, *)
(* what is included, last first, and then the superclass.                  *)
MRO(w, path, fuel) ==
    LET Of(mixins) == FlattenSeq(Reverse([i \in DOMAIN mixins |->
                          LET to == RubyResolve(w, mixins[i].nesting, mixins[i].name, fuel - 1)
                          IN  IF to = None THEN <<>> ELSE MRO(w, to, fuel - 1)]))
        h == Header(w, path)
        super == IF h = None THEN None ELSE RubyResolve(w, h[1].nesting, h[1].n.super, fuel - 1)
        up == IF super = None THEN <<>> ELSE MRO(w, super, fuel - 1)
        Mixed(name) == SelectSeq(Of(Mixins(w, path, name, FALSE)), LAMBDA m : m \notin ToSet(up))
    IN  IF fuel = 0 THEN <<path>>
        ELSE Mixed("prepend") \o <<path>> \o Mixed("include") \o up

RubyAncestors(w, path) == MRO(w, path, Fuel)

(* The modules that a class extends itself with, and all those on the      *)
(* class object: include in class << self puts one there too.              *)
Targets(w, mixins) == {RubyResolve(w, m.nesting, m.name, Fuel) : m \in ToSet(mixins)} \ {None}
Extended(w, path) == Targets(w, Mixins(w, path, "extend", FALSE))
OnClassObject(w, path) ==
    Extended(w, path) \cup Targets(w, Mixins(w, path, "include", TRUE) \o Mixins(w, path, "prepend", TRUE))

-----------------------------------------------------------------------------
(* Methods.  "*" stands for every name.                                    *)

Anything == {"*"}
Literal(args) == IF FirstIsLiteral(args) THEN {args[1].lit} ELSE Anything

(* What one call made on a class defines for its instances, or for itself. *)
Defines(n, single) ==
    LET c == Unwrap(n.name, n.args)
    IN  CASE c.name \in AttrNames /\ ~single -> IF AllLiteral(c.args) THEN AttrMethods(c.name, Literals(c.args)) ELSE Anything
          [] c.name \in {"define_method", "alias_method"} /\ ~single -> Literal(c.args)
          [] c.name = "define_singleton_method" /\ single -> Literal(c.args)
          [] c.name \in EvalNames \cup {"eval", "delegate"} -> Anything
          [] OTHER -> {}

ReadCalls == AttrNames \cup Visibility \cup InertMacros \cup EvalNames \cup SendNames
             \cup {"define_method", "define_singleton_method", "alias_method", "include", "extend", "prepend",
                   "require", "table_name=", "sig", "refine", "run_load_hooks"}

(* `alias :"#{x}" f` defines a method of any name.                         *)
AliasNames(n) == IF n.dynamic THEN Anything ELSE {n.name}

(* The methods the events of a class give it, on one track.                *)
Gives(w, path, single) ==
    LET own == {e \in ToSet(w) : e.owner = path}
        Singleton(e) == e.single \/ e.n.recv = "self"
        Defs(e) == {e.n} \cup (IF e.n.kind = "call" /\ e.n.name \in Visibility THEN ToSet(e.n.body) ELSE {})
        Kept(e) == {d.name : d \in {d \in Defs(e) : d.kind = "def" /\ (e.single \/ d.recv = "self") = single}}
        Aliases(e) == IF e.n.kind = "alias" /\ e.single = single THEN AliasNames(e.n) ELSE {}
        OnSelf(e) == IF e.n.kind = "call" /\ e.n.recv \in {"none", "self", "own"}
                     THEN (IF e.n.name \in ReadCalls
                           THEN Defines(e.n, IF e.single \/ e.n.recv = "own" THEN ~single ELSE single)
                           ELSE Anything)
                     ELSE {}
        \* the body of a method, when it runs: self is the class, or one of its objects
        InBody(e) == UNION {IF d.kind = "call" /\ d.recv \in {"none", "self", "own"}
                            THEN (IF Singleton(e) THEN Defines(d, single) ELSE IF single THEN {} ELSE Defines(d, TRUE))
                            ELSE IF d.kind = "def" /\ d.recv = "none" /\ Singleton(e) = single THEN {d.name}
                            ELSE {} : d \in IF e.n.kind = "def" THEN ToSet(Deep(e.n.body)) ELSE {}}
        missing == {e \in own : e.n.kind = "def" /\ e.n.name \in MissingNames /\ Singleton(e) = single}
        dynsuper == {e \in own : e.n.kind = "class" /\ e.n.dynamic}
    IN  UNION {Kept(e) \cup Aliases(e) \cup OnSelf(e) \cup InBody(e) : e \in own}
        \cup (IF missing # {} \/ dynsuper # {} THEN Anything ELSE {})

(* X.define_method, X.class_eval ... in the methods of another class.  (At *)
(* top level and in class bodies the index attributes a call on a project  *)
(* constant to nobody: see the README.)                                    *)
GivenFromOutside(w, path, single) ==
    LET bodies == {e \in ToSet(w) : e.n.kind = "def" /\ e.owner # Main}
        On(e) == {d \in ToSet(Deep(e.n.body)) : d.kind = "call" /\ d.recv \in {"const", "singleton"}
                                                /\ RubyResolve(w, e.nesting, d.on, Fuel) = path}
    IN  UNION {UNION {Defines(d, IF d.recv = "singleton" THEN ~single ELSE single) : d \in On(e)} : e \in bodies}

(* The hooks a module runs on the class that includes or extends it.       *)
Hooked(w, module, hook, single) ==
    LET defs == {e.n : e \in {e \in ToSet(w) : e.owner = module /\ e.n.kind = "def" /\ e.n.name = hook
                                               /\ (e.single \/ e.n.recv = "self")}}
        reads(n) == \E d \in ToSet(Deep(<<n>>)) : d.recv = "param" \/ \E i \in DOMAIN d.args : d.args[i].k = "param"
        Installs(n) ==
            CASE n.recv = "param" /\ n.kind = "def" -> IF single THEN {n.name} ELSE {}
              [] n.recv = "param" /\ n.kind = "call" /\ n.name = "delegate" ->
                    IF single THEN {}
                    ELSE IF \E a \in ToSet(n.args) : a.k = "kw" /\ a.lit = "prefix" THEN Anything
                    ELSE Literals(n.args)
              [] n.recv = "param" /\ n.kind = "call" /\ n.name \in EvalNames /\ n.args = <<>> ->
                    {d.name : d \in {d \in ToSet(n.body) : d.kind = "def" /\ ~single}}
              [] n.recv = "param" /\ n.kind = "call" -> Defines(n, single)
              [] OTHER -> IF reads(n) THEN Anything ELSE {}
    IN  UNION {UNION {Installs(n) : n \in ToSet(d.body)} : d \in defs}

(* Everything that lands on one class of a chain.                          *)
Own(w, path, single) ==
    LET hooked == Hooked(w, path, "included", single)
                  \cup UNION {Hooked(w, m, "extended", single) : m \in Extended(w, path)}
    IN  Gives(w, path, single) \cup GivenFromOutside(w, path, single) \cup hooked

(* A name above the class, or on its class object, that is not of the      *)
(* project.                                                                *)
LeavesProject(w, path, single) ==
    LET h == Header(w, path)
        up == (IF h = None THEN <<>> ELSE <<[name |-> h[1].n.super, nesting |-> h[1].nesting]>>)
              \o Mixins(w, path, "include", FALSE) \o Mixins(w, path, "prepend", FALSE)
              \o (IF single THEN Mixins(w, path, "extend", FALSE) ELSE <<>>)
    IN  \E i \in DOMAIN up : RubyResolve(w, up[i].nesting, up[i].name, Fuel) = None

(* Every call of the files, with the nesting it stands in.                 *)
AllCalls(w) ==
    {c \in UNION {{[n |-> d, nesting |-> e.nesting] : d \in ToSet(Deep(e.n.body)) \cup {e.n}} :
                  e \in {e \in ToSet(w) : e.n.kind \in {"def", "call"}}} : c.n.kind = "call"}

(* The modules some call mixes into a class that only the run knows.       *)
MixedAnywhere(w, single) ==
    LET calls == {c \in AllCalls(w) : /\ mixin_track(c.n.name) = (IF single THEN "singleton" ELSE "instance")
                                      /\ c.n.recv \notin {"none", "self", "const", "singleton", "own"}}
    IN  UNION {{RubyResolve(w, c.nesting, m, Fuel) : m \in ToSet(ConstArgs(c.n.args))} : c \in calls} \ {None}

ClassObjectChain == {"Class", "Module", "Object", "Kernel"}

(* Every name an object (or, single, the class itself) may answer to.      *)
RubyAnswers(w, path, single) ==
    LET chain == ToSet(RubyAncestors(w, path))
        extended == UNION {OnClassObject(w, a) : a \in chain}
        onObject == IF single THEN UNION {ToSet(RubyAncestors(w, m)) : m \in extended} ELSE {}
        \* an instance lookup does not reach a reopened Object: see the README
        core == IF single THEN UNION {ToSet(RubyAncestors(w, <<o>>)) : o \in ClassObjectChain}
                ELSE {}
        loadHooks == {RubyResolve(w, c.nesting, c.n.args[2].const, Fuel) :
                      c \in {c \in AllCalls(w) : c.n.name = "run_load_hooks"}}
    IN  UNION {Own(w, a, single) : a \in chain}
        \cup UNION {Gives(w, m, FALSE) : m \in onObject}
        \cup (UNION {Gives(w, m, FALSE) : m \in core \cup MixedAnywhere(w, single)} \ Anything)
        \cup (IF \/ \E a \in chain : LeavesProject(w, a, single)
                 \/ \E a \in onObject : LeavesProject(w, a, FALSE)
                 \/ chain \cap loadHooks # {} THEN Anything ELSE {})

(* The class whose definition a search of the chain meets first.           *)
FirstToAnswer(own, chain, name) ==
    LET i == SelectInSeq(chain, LAMBDA a : {name, "*"} \cap own[a] # {})
    IN  IF i = 0 THEN None ELSE chain[i]

-----------------------------------------------------------------------------
(* Core classes.  Everything that can put a method on one: its reopenings, *)
(* calls and refinements that name it, an eval that names nobody.          *)

BlockDefines(n) ==
    UNION {CASE d.kind = "def" -> {d.name}
             [] d.kind = "alias" -> AliasNames(d)
             [] d.kind = "call" -> Defines(d, FALSE) \cup Defines(d, TRUE)
             [] OTHER -> {} : d \in ToSet(Deep(n.body))}

CoreGains(w, core) ==
    LET to(c, name) == RubyResolve(w, c.nesting, name, Fuel) = core
        Mixed(names, nesting) ==
            UNION {LET m == RubyResolve(w, nesting, n, Fuel)
                   IN  IF m = None THEN Anything
                       ELSE UNION {Gives(w, a, FALSE) : a \in ToSet(RubyAncestors(w, m))} : n \in names}
        By(c) ==
            LET call == Unwrap(c.n.name, c.n.args)
                named == c.n.recv = "const" /\ to(c, c.n.on)
                mixes == mixin_track(call.name) # "none"
            IN  CASE c.n.name = "eval" /\ c.n.args # <<>> -> Anything
                  [] c.n.name = "refine" /\ to(c, c.n.args[1].const) -> BlockDefines(c.n)
                  [] c.n.name \in EvalNames /\ c.n.args # <<>> /\ c.n.recv \notin {"none", "self", "const"} -> Anything
                  [] c.n.name \in EvalNames /\ named -> IF c.n.args # <<>> THEN Anything ELSE BlockDefines(c.n)
                  [] named /\ mixes -> Mixed(ToSet(ConstArgs(call.args)), c.nesting)
                  [] named /\ ~mixes /\ c.n.name \notin EvalNames -> Defines(c.n, FALSE) \cup Defines(c.n, TRUE)
                  [] OTHER -> {}
        own == {e \in ToSet(w) : e.owner = core \/ (core = <<"Object">> /\ e.owner = Main /\ e.n.kind = "call")}
        OwnMixins(e) == IF e.n.kind = "call" /\ e.n.name \in {"include", "prepend"} /\ e.n.recv = "none" /\ ~e.single
                        THEN Mixed(ToSet(ConstArgs(e.n.args)), e.nesting) ELSE {}
    IN  Gives(w, core, FALSE) \cup UNION {By(c) : c \in AllCalls(w)} \cup UNION {OwnMixins(e) : e \in own}
        \cup (IF core # <<"Object">> THEN {}
              ELSE {e.n.name : e \in {e \in ToSet(w) : e.owner = Main /\ e.n.kind = "def"}} \cap MissingNames)

=============================================================================
