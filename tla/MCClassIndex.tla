---------------------------- MODULE MCClassIndex ----------------------------
(* An instance of the class index: a small project grown from the texts    *)
(* below, each a file that takes one or two paths through the walks.       *)
EXTENDS ClassIndexCorrect

R(s) == Rel(<<s>>)
Bare(name, args) == Call(name, "none", NoName, args)
On(name, const, args) == Call(name, "const", R(const), args)
OnSingleton(name, const, args) == Call(name, "singleton", R(const), args)
OnParam(name, args) == Call(name, "param", NoName, args)
WithBlock(call, body) == [call EXCEPT !.block = "block", !.body = body]
Inst(m) == Def(m, "none", <<>>)
Mod(m) == ConstArg(R(m))
HookDef(name, body) == [Def(name, "self", body) EXCEPT !.hook = TRUE]
ClassSelf(body) == [Node EXCEPT !.kind = "sclass", !.recv = "self", !.body = body]
ClassOf(const, body) == [Node EXCEPT !.kind = "sclass", !.recv = "const", !.on = R(const), !.body = body]
Local(name, values, via) == [Node EXCEPT !.kind = "local", !.name = name, !.values = values, !.via = via]
Const(name, values) == [Node EXCEPT !.kind = "const", !.on = R(name), !.values = values]
PathConst(path, values) == [Node EXCEPT !.kind = "pathconst", !.on = path, !.values = values]
Branch(kind, body, other) == [Node EXCEPT !.kind = kind, !.body = body, !.other = other]
DynAlias == [Node EXCEPT !.kind = "alias", !.dynamic = TRUE]
Str(names) == [Node EXCEPT !.kind = "string", !.names = names]

MCSource ==
    [\* classes, mixins and headers
     base |-> <<Class(R("A"), NoName, <<Inst("f")>>)>>,
     sub |-> <<Class(R("B"), R("A"), <<Inst("g")>>)>>,
     mod |-> <<Module(R("M"), <<Inst("g"), Inst("coerce"), Inst("+"), Def("f", "self", <<>>)>>)>>,
     mix |-> <<Class(R("A"), NoName, <<Bare("include", <<Mod("M")>>)>>)>>,
     pre |-> <<Class(R("B"), R("A"), <<Bare("extend", <<Mod("M")>>), Bare("prepend", <<Mod("M")>>)>>)>>,
     nested |-> <<Module(R("N"), <<Class(R("A"), NoName, <<Inst("g")>>), Class(R("B"), R("A"), <<>>)>>)>>,
     conflict |-> <<Module(R("N"), <<Class(Abs(<<"B">>), R("A"), <<>>),
                                     WithBlock(Bare("refine", <<Mod("Integer")>>), <<Inst("coerce")>>)>>)>>,
     \* hooks
     included |-> <<Module(R("M"), <<HookDef("included", <<OnParam("attr_accessor", <<Sym("f")>>),
                                                           OnParam("define_method", <<Sym("g")>>)>>)>>)>>,
     extended |-> <<Module(R("M"), <<HookDef("extended", <<
                       OnParam("define_singleton_method", <<Sym("g")>>), Def("f", "param", <<>>),
                       WithBlock(OnParam("class_eval", <<>>), <<Inst("g")>>)>>)>>)>>,
     escaped |-> <<Module(R("M"), <<HookDef("extended", <<
                       WithBlock(Call("each", "other", NoName, <<>>), <<OnParam("define_method", <<Dyn>>)>>)>>)>>)>>,
     delegated |-> <<Module(R("M"), <<HookDef("extended", <<
                       OnParam("delegate", <<Sym("f"), Option("to", "other")>>)>>)>>),
                     Module(R("N"), <<WithBlock(Bare("refine", <<Mod("Integer")>>), <<DynAlias>>)>>)>>,
     prefixed |-> <<Module(R("M"), <<HookDef("extended", <<
                       OnParam("delegate", <<Sym("x"), Option("to", "other"), Option("prefix", "true")>>)>>)>>),
                    WithBlock(On("class_eval", "Integer", <<>>),
                              <<Branch("if", <<>>, <<Branch("unless", <<>>, <<Inst("+")>>)>>)>>)>>,
     \* definitions made by methods
     builder |-> <<Class(R("A"), NoName, <<
                       Def("build", "self", <<Bare("define_method", <<Sym("g")>>),
                                              Bare("send", <<Sym("define_singleton_method"), Sym("f")>>)>>),
                       Def("go", "none", <<On("define_method", "B", <<Sym("g")>>), Inst("h")>>)>>)>>,
     evals |-> <<Class(R("A"), NoName, <<Def("go", "none", <<Bare("instance_eval", <<Dyn>>)>>),
                                         Def("all", "self", <<Bare("eval", <<Dyn>>)>>)>>)>>,
     abstract |-> <<Class(R("A"), NoName, <<[Inst("f") EXCEPT !.stub = TRUE]>>),
                    [Class(R("B"), NoName, <<>>) EXCEPT !.dynamic = TRUE]>>,
     \* the class object
     single |-> <<ClassOf("A", <<Inst("g"), Bare("attr_reader", <<Sym("h")>>), Bare("include", <<Mod("M")>>)>>),
                  OnSingleton("prepend", "B", <<Mod("M")>>)>>,
     macros |-> <<Class(R("A"), NoName, <<
                       ClassSelf(<<Inst("f"), Bare("include", <<Mod("M")>>)>>),
                       Bare("attr_accessor", <<Sym("f")>>), Bare("alias_method", <<Sym("h"), Sym("f")>>),
                       [Bare("private", <<>>) EXCEPT !.body = <<Inst("g")>>],
                       Call("attr_reader", "own", NoName, <<Sym("g")>>)>>)>>,
     unknown |-> <<Class(R("B"), R("A"), <<Bare("class_attribute", <<Sym("h"), Option("instance_accessor", "false")>>),
                                           Bare("mattr_reader", <<Sym("f")>>), Bare("has_many", <<Sym("g")>>)>>)>>,
     \* what gems, declarations and the schema hold
     model |-> <<Class(R("W"), R("ApplicationRecord"), <<Inst("g")>>), Class(R("E"), R("D"), <<Inst("f")>>),
                 Module(R("Gem"), <<Bare("include", <<Mod("M")>>)>>)>>,
     \* modules mixed in from elsewhere
     missing |-> <<Module(R("M"), <<Inst("method_missing")>>)>>,
     attributed |-> <<Class(R("Z"), NoName, <<
                       [Inst("target") EXCEPT !.values = <<R("A")>>],
                       Def("go", "none", <<Local("k", <<R("B")>>, "none"),
                                           [Call("include", "local", NoName, <<Mod("M")>>) EXCEPT !.via = "k"],
                                           [Call("prepend", "method", NoName, <<Mod("M")>>) EXCEPT !.via = "target"]>>)>>)>>,
     \* constants
     consts |-> <<Const("C", <<R("A")>>), PathConst(Rel(<<"A", "X">>), <<>>),
                  Class(R("B"), R("C"), <<Const("Y", <<>>)>>)>>,
     compact |-> <<Class(Rel(<<"N", "A">>), NoName, <<Const("Y", <<>>), Inst("h")>>),
                   [Node EXCEPT !.kind = "call", !.name = "require", !.args = <<Arg("str", "lib", NoName)>>]>>,
     \* what is mixed in or evaluated where no class body shows it
     anywhere |-> <<Class(R("Z"), NoName, <<Def("go", "none", <<OnParam("include", <<Mod("M")>>),
                                                                OnParam("extend", <<Mod("M")>>)>>)>>),
                    Bare("run_load_hooks", <<Sym("on"), Mod("B")>>), Str({"A"})>>,
     concern |-> <<Module(R("M"), <<
                       Bare("extend", <<ConstArg(Rel(<<"ActiveSupport", "Concern">>))>>),
                       Branch("if", <<Module(R("ClassMethods"), <<Inst("f")>>)>>, <<Inst("h")>>)>>)>>,
     \* the core classes
     reopened |-> <<Class(R("Integer"), NoName, <<Inst("+")>>), Class(R("Object"), NoName, <<Bare("include", <<Mod("M")>>)>>)>>,
     coreEval |-> <<Const("I", <<R("Integer")>>),
                    WithBlock(On("class_eval", "I", <<>>), <<Branch("unless", <<>>, <<Inst("+")>>)>>)>>,
     coreMix |-> <<On("prepend", "Integer", <<Mod("M")>>)>>,
     unnamed |-> <<Class(R("Z"), NoName, <<Def("go", "none", <<Call("class_eval", "local", NoName, <<Dyn>>)>>)>>),
                   Bare("include", <<Mod("M")>>), Inst("method_missing")>>]
MCTexts == DOMAIN MCSource
(* Every ordered pair of texts is a project.  A third file is added to one *)
(* order of each pair: the other order is met behind a file before both.   *)
TextOrder == <<"base", "sub", "mod", "mix", "pre", "nested", "conflict", "included", "extended",
               "escaped", "delegated", "prefixed", "builder", "evals", "abstract", "single", "macros", "unknown", "model",
               "missing", "attributed", "consts", "compact", "anywhere", "concern", "reopened",
               "coreEval", "coreMix", "unnamed">>
RankOf(text) == SelectInSeq(TextOrder, LAMBDA x : x = text)
OneOrderGrows == Len(files) >= 2 => RankOf(files[1]) < RankOf(files[2])
MCIgnored == {"base", "mod", "coreMix", "consts"}
MCCore == {<<"Integer">>, <<"Object">>, <<"Kernel">>, <<"Class">>, <<"Module">>}
MCSegments == {"A", "B", "C", "I", "M", "N", "Z", "X", "Y", "ClassMethods", "Integer", "Object", "D", "E", "W", "Gem"}
MCKeys == [s \in MCSegments |-> s]
MCSchema == [t \in {"W"} |-> {"g", "h"}]
MCDeclared == {[path |-> <<"D">>, module |-> FALSE]}
MCRead(nesting, path) == [nesting |-> nesting, name |-> Rel(path)]
MCReads == {MCRead(<<>>, <<"A">>), MCRead(<<>>, <<"C">>), MCRead(<<>>, <<"A", "X">>), MCRead(<<>>, <<"N", "A", "Y">>),
            MCRead(<<<<"B">>>>, <<"Y">>), MCRead(<<<<"B">>>>, <<"X">>), MCRead(<<<<"N">>, <<"N", "B">>>>, <<"A">>),
            MCRead(<<<<"N">>, <<"N", "B">>>>, <<"Y">>), MCRead(<<>>, <<"C", "X">>)}
=============================================================================
