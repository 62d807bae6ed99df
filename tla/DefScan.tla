------------------------------ MODULE DefScan ------------------------------
(***************************************************************************)
(* parse_defs_text (crates/itaruby_semantic/src/index.rs): the two walks   *)
(* over one file's syntax tree, DefWalker for what its class and module    *)
(* bodies define and FileScan for what any call of the file may do to a    *)
(* class it does not write.  Where a body does something the walk cannot   *)
(* read, the class is OPENED with the reason: an open class supports no    *)
(* proof that a method is absent.                                          *)
(*                                                                         *)
(* The tree is the parser's, reduced to what the walks look at.  A node is *)
(* a record over Node's fields; a statement list is a sequence.            *)
(***************************************************************************)
EXTENDS ClassLookup

CONSTANTS
    CoreNames,      \* core_namespace_names, as paths
    ExternalPaths,  \* is_known_external_class_path
    InertMacros     \* defines_no_method, and the no-op calls beside it

(* An argument: a literal name (sym, str), a constant, self, a read of the *)
(* method's parameter, an option, or anything else (dyn).                  *)
Arg(k, lit, const) == [k |-> k, lit |-> lit, const |-> const, value |-> "other"]
Sym(m) == Arg("sym", m, NoName)
ConstArg(name) == Arg("const", "", name)
SelfArg == Arg("self", "", NoName)
ParamArg == Arg("param", "", NoName)
Dyn == Arg("dyn", "", NoName)
Option(key, value) == [k |-> "kw", lit |-> key, const |-> NoName, value |-> value]

Node ==
    [kind |-> "other", name |-> "", on |-> NoName, super |-> NoName, dynamic |-> FALSE,
     recv |-> "none",   \* none self const singleton own local method param ternary other
     via |-> "none",    \* the local or the method a receiver or a value reads
     values |-> <<>>,   \* the constants a value, a result or a ternary can be
     args |-> <<>>, block |-> "none", names |-> {}, stub |-> FALSE, hook |-> FALSE,
     body |-> <<>>, other |-> <<>>]

Class(path, super, body) == [Node EXCEPT !.kind = "class", !.on = path, !.super = super, !.body = body]
Module(path, body) == [Node EXCEPT !.kind = "module", !.on = path, !.body = body]
Def(name, recv, body) == [Node EXCEPT !.kind = "def", !.name = name, !.recv = recv, !.body = body]
Call(name, recv, on, args) ==
    [Node EXCEPT !.kind = "call", !.name = name, !.recv = recv, !.on = on, !.args = args]

-----------------------------------------------------------------------------
(* Names and arguments.                                                    *)

join_path(scope, name) == IF name.abs \/ scope = <<>> THEN name.path ELSE scope \o name.path

\* const_path_str keeps a leading `::` in the text of an owner
AsWritten(name) == IF name.abs THEN <<"::" \o name.path[1]>> \o Tail(name.path) ELSE name.path
Trimmed(name) == Rel(name.path)

literal_method_name(a) == a.k \in {"sym", "str"}
FirstIsLiteral(args) == args # <<>> /\ literal_method_name(args[1])
AllLiteral(args) == \A i \in DOMAIN args : literal_method_name(args[i])
AllSymbols(args) == \A i \in DOMAIN args : args[i].k = "sym"
Literals(args) == {args[i].lit : i \in {i \in DOMAIN args : literal_method_name(args[i])}}
Symbols(args) == {args[i].lit : i \in {i \in DOMAIN args : args[i].k = "sym"}}
ConstArgs(args) == LET cs == SelectSeq(args, LAMBDA a : a.k = "const")
                   IN  [i \in DOMAIN cs |-> cs[i].const]

EvalNames == {"class_eval", "module_eval", "instance_eval", "instance_exec", "class_exec", "module_exec"}
SendNames == {"send", "public_send", "__send__"}
AttrNames == {"attr_reader", "attr_writer", "attr_accessor"}
MissingNames == {"method_missing", "respond_to_missing?"}
Mattr(suffix) == {p \o suffix : p \in {"mattr", "cattr", "thread_mattr", "thread_cattr"}}
MattrNames == Mattr("_accessor") \cup Mattr("_reader") \cup Mattr("_writer")
Visibility == {"private", "public", "protected", "module_function",
               "private_class_method", "public_class_method"}
Injections == EvalNames \cup SendNames \cup AttrNames
              \cup {"include", "extend", "prepend", "define_method", "define_singleton_method", "alias_method"}

(* The methods attr_* makes of literal names.                              *)
AttrMethods(macro, names) ==
    (IF macro # "attr_writer" THEN names ELSE {})
    \cup (IF macro \in {"attr_writer", "attr_accessor"} THEN {m \o "=" : m \in names} ELSE {})

core_injection_call(call) ==
    call.recv = "const" /\ call.name \in Injections /\ <<Last(call.on.path)>> \in CoreNames

mixin_track(name) == CASE name \in {"include", "prepend"} -> "instance"
                       [] name = "extend" -> "singleton"
                       [] OTHER -> "none"

(* A call wearing a dispatch, send(:define_method, :x), unwrapped.         *)
RECURSIVE Unwrap(_, _)
Unwrap(name, args) ==
    IF name \in SendNames /\ FirstIsLiteral(args) THEN Unwrap(args[1].lit, Tail(args))
    ELSE [name |-> name, args |-> args]

(* Every node under a statement list, outermost first.                     *)
RECURSIVE Deep(_)
Deep(stmts) ==
    FoldLeft(LAMBDA acc, n : acc \o <<n>> \o Deep(n.body) \o Deep(n.other), <<>>, stmts)

-----------------------------------------------------------------------------
(* DefWalker: its state, and the ways a statement changes a fragment.      *)

(* AbstractRaise is the weakest reason: any other one replaces it.         *)
Stronger(old, new) ==
    IF old = "none" \/ (old = "AbstractRaise" /\ new \notin {"none", "AbstractRaise"})
    THEN new ELSE old

ClassFragment(path, nesting) ==
    [path |-> path, nesting |-> nesting, module |-> FALSE, reason |-> "none", super |-> NoName,
     includes |-> <<>>, prepends |-> <<>>, extends |-> <<>>, methods |-> {}, smethods |-> {},
     consts |-> {}, hookInstance |-> {}, hookSingleton |-> {}, hookOpaque |-> FALSE,
     table |-> "none", patch |-> FALSE]

NoDefs == [frags |-> <<>>, aliases |-> <<>>, toplevel |-> {}, qualified |-> {},
           requires |-> {}, coreMixin |-> FALSE]

(* Where a statement stands: frag is 0 outside every class body.           *)
Context(scope, nesting, frag, single) ==
    [scope |-> scope, nesting |-> nesting, frag |-> frag, single |-> single]

open_class(w, i, reason) == [w EXCEPT !.frags[i].reason = Stronger(@, reason)]

File(w, i, single, names) ==
    IF single THEN [w EXCEPT !.frags[i].smethods = @ \cup names]
    ELSE [w EXCEPT !.frags[i].methods = @ \cup names]

OpenWhen(w, i, cond, reason) == IF cond THEN open_class(w, i, reason) ELSE w

AddNew(s, x) == IF x \in ToSet(s) THEN s ELSE Append(s, x)

PushFragment(w, frag) == [w EXCEPT !.frags = Append(@, frag)]

(* fragment_idx_for: the first fragment of the path, or a patch that only  *)
(* apply_singleton_patches may merge, onto a class the project declares.   *)
WithFragmentFor(w, path, nesting) ==
    IF \E i \in DOMAIN w.frags : w.frags[i].path = path THEN w
    ELSE PushFragment(w, [ClassFragment(path, Append(nesting, path)) EXCEPT !.patch = TRUE])
fragment_idx_for(w, path) == SelectInSeq(w.frags, LAMBDA f : f.path = path)

OpenNamed(w, path, nesting, reason) ==
    LET with == WithFragmentFor(w, path, nesting)
    IN  open_class(with, fragment_idx_for(with, path), reason)

-----------------------------------------------------------------------------
(* What a method body defines when it runs.                                *)

(* body_def_target: the class the definition lands on, or "nobody".        *)
body_def_target(call) ==
    CASE call.recv \in {"none", "self", "own"} -> "enclosing"
      [] call.recv \in {"const", "singleton"} -> "named"
      [] OTHER -> "nobody"

body_def_reason(call) ==
    LET c == Unwrap(call.name, call.args)
    IN  CASE c.name \in EvalNames -> "EvalOrSend"
          [] c.name \in {"define_method", "define_singleton_method"} /\ ~FirstIsLiteral(c.args) -> "DynamicDefineMethod"
          [] c.name = "alias_method" /\ ~AllLiteral(c.args) -> "DynamicAliasMethod"
          [] c.name \in AttrNames /\ ~AllSymbols(c.args) -> "DynamicAttrArg"
          [] c.name = "eval" /\ c.args # <<>> -> "EvalOrSend"
          [] OTHER -> "none"

body_def_literals(call) ==
    LET c == Unwrap(call.name, call.args)
    IN  CASE c.name \in {"define_method", "alias_method", "define_singleton_method"} /\ FirstIsLiteral(c.args) -> {c.args[1].lit}
          [] c.name \in AttrNames /\ AllLiteral(c.args) -> AttrMethods(c.name, Literals(c.args))
          [] OTHER -> {}

(* The nodes dynamic_defs_in_body reaches: it does not descend into an     *)
(* eval that names another class.                                          *)
RECURSIVE BodyNodes(_)
BodyNodes(stmts) ==
    FoldLeft(LAMBDA acc, n :
                 acc \o <<n>> \o (IF n.kind = "call" /\ n.name \in EvalNames /\ body_def_target(n) = "named"
                                  THEN <<>> ELSE BodyNodes(n.body) \o BodyNodes(n.other)),
             <<>>, stmts)

(* dynamic_defs_in_body and what walk_stmt does with it: first the opens,  *)
(* one per target, then the literal definitions (apply_body_def), then the *)
(* nested defs.                                                            *)
ApplyBodyDefs(w, ctx, def, singleton) ==
    LET nodes == BodyNodes(def.body)
        calls == SelectSeq(nodes, LAMBDA n : n.kind = "call" /\ body_def_target(n) # "nobody")
        opens == SelectSeq(calls, LAMBDA n : body_def_reason(n) # "none")
        literals == SelectSeq(calls, LAMBDA n : body_def_reason(n) = "none" /\ body_def_literals(n) # {})
        nested == SelectSeq(nodes, LAMBDA n : n.kind = "def")
        Target(n) == IF body_def_target(n) = "named" THEN AsWritten(n.on) ELSE None
        IsFirst(i) == \A j \in 1..(i - 1) : Target(opens[j]) # Target(opens[i])
        Opened(acc, i) ==
            CASE ~IsFirst(i) -> acc
              [] IsFirst(i) /\ Target(opens[i]) = None -> open_class(acc, ctx.frag, body_def_reason(opens[i]))
              [] OTHER -> OpenNamed(acc, Target(opens[i]), ctx.nesting, body_def_reason(opens[i]))
        Literal(acc, n) ==
            CASE Target(n) # None -> OpenNamed(acc, Target(n), ctx.nesting, "DynamicDefineMethod")
              [] Target(n) = None /\ ~singleton -> open_class(acc, ctx.frag, "DynamicDefineMethod")
              [] OTHER -> File(acc, ctx.frag,
                               Unwrap(n.name, n.args).name = "define_singleton_method", body_def_literals(n))
        Nested(acc, d) ==
            LET missing == OpenWhen(acc, ctx.frag, d.name \in MissingNames, "MethodMissing")
            IN  IF ~singleton /\ d.recv = "self" THEN open_class(missing, ctx.frag, "NestedDefOwner")
                ELSE File(missing, ctx.frag, singleton, {d.name})
        opened == FoldLeft(Opened, w, [i \in DOMAIN opens |-> i])
    IN  FoldLeft(Nested, FoldLeft(Literal, opened, literals), nested)

(* `def self.included(base)`: what the hook's own statements define on the *)
(* class that includes the module is filed as the module's.                *)
harvest_included_hook(w, i, def) ==
    LET own == SelectSeq(def.body, LAMBDA n : n.kind = "call" /\ n.recv = "param")
        Installs(n) ==
            CASE n.name \in AttrNames /\ AllSymbols(n.args) -> AttrMethods(n.name, Symbols(n.args))
              [] n.name = "define_method" /\ FirstIsLiteral(n.args) -> {n.args[1].lit}
              [] OTHER -> {}
    IN  IF ~def.hook THEN w ELSE File(w, i, FALSE, UNION {Installs(n) : n \in ToSet(own)})

(* The options of `delegate` that leave the names as they are written.     *)
delegate_arg_unreadable(a) ==
    a.k # "sym" /\ ~(a.k = "kw" /\ a.lit \in {"to", "allow_nil", "private", "public"})

(* One statement of `def self.extended(base)`: what it installs on an      *)
(* extender's instances and on the extender, and whether it is unreadable. *)
harvest_extended_stmt(n) ==
    LET Out(inst, sing, opaque) == [inst |-> inst, sing |-> sing, opaque |-> opaque]
        Defined(c) == IF FirstIsLiteral(c.args) THEN {c.args[1].lit} ELSE {}
        InBlock(b) ==
            CASE b.kind = "def" /\ b.recv = "none" -> Out({b.name}, {}, FALSE)
              [] b.kind = "call" /\ b.name = "define_method" -> Out(Defined(b), {}, Defined(b) = {})
              [] b.kind = "call" /\ b.name \in SendNames -> Out({}, {}, TRUE)
              [] OTHER -> Out({}, {}, FALSE)
        inner == {InBlock(b) : b \in ToSet(n.body)}
        unreadable == \E a \in ToSet(n.args) : delegate_arg_unreadable(a)
    IN  CASE n.recv # "param" -> Out({}, {}, FALSE)
          [] n.recv = "param" /\ n.kind = "def" -> Out({}, {n.name}, FALSE)
          [] n.recv = "param" /\ n.kind = "call" /\ n.name = "delegate" ->
                IF unreadable \/ n.args = <<>> THEN Out({}, {}, TRUE) ELSE Out(Symbols(n.args), {}, FALSE)
          [] n.recv = "param" /\ n.kind = "call" /\ n.name = "define_method" -> Out(Defined(n), {}, Defined(n) = {})
          [] n.recv = "param" /\ n.kind = "call" /\ n.name = "define_singleton_method" ->
                Out({}, Defined(n), Defined(n) = {})
          [] n.recv = "param" /\ n.kind = "call" /\ n.name \in EvalNames \ {"instance_eval", "instance_exec"} ->
                IF n.args # <<>> THEN Out({}, {}, TRUE)
                ELSE Out(UNION {b.inst : b \in inner}, {}, \E b \in inner : b.opaque)
          [] n.recv = "param" /\ n.kind = "call" /\ n.name \in SendNames \cup {"instance_eval", "instance_exec"} ->
                Out({}, {}, TRUE)
          [] OTHER -> Out({}, {}, FALSE)

(* Mutant: only arguments count as reads of the parameter.                 *)
MutParamReads(n) == Cardinality({i \in DOMAIN n.args : n.args[i].k = "param"})

ParamReads(n) == (IF n.recv = "param" THEN 1 ELSE 0)
                 + Cardinality({i \in DOMAIN n.args : n.args[i].k = "param"})

(* A read of the parameter that no statement of the hook accounts for may  *)
(* install anything.                                                       *)
harvest_extended_hook(w, i, def) ==
    LET outs == {harvest_extended_stmt(n) : n \in ToSet(def.body)}
        consumed == Len(SelectSeq(def.body, LAMBDA n : n.recv = "param"))
        reads == FoldLeft(LAMBDA acc, n : acc + ParamReads(n), 0, Deep(def.body))
    IN  IF ~def.hook THEN w
        ELSE [w EXCEPT !.frags[i].hookInstance = @ \cup UNION {o.inst : o \in outs},
                       !.frags[i].hookSingleton = @ \cup UNION {o.sing : o \in outs},
                       !.frags[i].hookOpaque = @ \/ (\E o \in outs : o.opaque) \/ reads > consumed]

(* The DefNode arm.                                                        *)
WalkDef(w, ctx, def) ==
    LET singleton == ctx.single \/ def.recv = "self"
        missing == def.name \in MissingNames
        bodied == ApplyBodyDefs(OpenWhen(w, ctx.frag, missing, "MethodMissing"), ctx, def, singleton)
        filed == File(OpenWhen(bodied, ctx.frag, def.stub, "AbstractRaise"), ctx.frag, singleton, {def.name})
    IN  CASE ctx.frag = 0 -> [w EXCEPT !.coreMixin = @ \/ missing]
          [] ctx.frag # 0 /\ singleton /\ def.name = "included" -> harvest_included_hook(filed, ctx.frag, def)
          [] ctx.frag # 0 /\ singleton /\ def.name = "extended" -> harvest_extended_hook(filed, ctx.frag, def)
          [] OTHER -> filed

(* Constant writes, bare and qualified; a constant on the right-hand side  *)
(* makes an alias.                                                         *)
WalkConst(w, ctx, n) ==
    LET aliased == IF n.values = <<>> THEN w
                   ELSE [w EXCEPT !.aliases = Append(@,
                            [path |-> join_path(ctx.scope, n.on), nesting |-> ctx.nesting, target |-> n.values[1]])]
    IN  IF ctx.frag = 0 THEN [aliased EXCEPT !.toplevel = @ \cup {n.on.path[1]}]
        ELSE [aliased EXCEPT !.frags[ctx.frag].consts = @ \cup {n.on.path[1]}]

WalkPathConst(w, ctx, n) ==
    LET full == n.on.path
        aliased == IF n.values = <<>> THEN w
                   ELSE [w EXCEPT !.aliases = Append(@, [path |-> full, nesting |-> ctx.nesting, target |-> n.values[1]])]
    IN  IF Len(full) = 1 THEN [aliased EXCEPT !.toplevel = @ \cup {full[1]}]
        ELSE [aliased EXCEPT !.qualified = @ \cup {[owner |-> Front(full), simple |-> Last(full)]}]

-----------------------------------------------------------------------------
(* The CallNode arm, one operator per group of its early returns.          *)

(* `class_methods do ... end` of a concern is its nested ClassMethods.     *)
harvest_class_methods_block(w, ctx, call) ==
    LET path == Append(ctx.scope, "ClassMethods")
        defs == {d.name : d \in {d \in ToSet(call.body) : d.kind = "def" /\ d.recv = "none"}}
        edged == [w EXCEPT !.frags[ctx.frag].extends = AddNew(@, Rel(path))]
        made == IF fragment_idx_for(edged, path) # 0 THEN edged
                ELSE PushFragment(edged, [ClassFragment(path, Append(ctx.nesting, path)) EXCEPT !.module = TRUE])
    IN  IF defs = {} THEN w ELSE File(made, fragment_idx_for(made, path), FALSE, defs)

(* The class and module bodies written inside a block, all of them open.   *)
RECURSIVE NestedDefs(_, _, _)
NestedDefs(scope, nesting, stmts) ==
    FoldLeft(LAMBDA acc, n :
        IF n.kind \in {"class", "module"}
        THEN LET full == join_path(scope, n.on)
                 here == [ClassFragment(full, Append(nesting, full))
                             EXCEPT !.module = (n.kind = "module"), !.reason = "BlockNestedDefinition"]
             IN  acc \o <<here>> \o NestedDefs(full, Append(nesting, full), n.body)
        ELSE acc \o NestedDefs(scope, nesting, n.body \o n.other), <<>>, stmts)

harvest_block_consts(w, i, call) ==
    [w EXCEPT !.frags[i].consts = @ \cup {n.on.path[1] : n \in {n \in ToSet(call.body) : n.kind = "const"}},
              !.qualified = @ \cup {[owner |-> Front(n.on.path), simple |-> Last(n.on.path)] :
                  n \in {n \in ToSet(call.body) : n.kind = "pathconst" /\ Len(n.on.path) > 1}}]

(* %w[a b].each { |n| class_eval "def #{n}" }: `names` are the methods the *)
(* expanded templates define, `on` the class they name, if they name one.  *)
harvest_interpolated_eval_defs(w, i, call) ==
    IF call.name = "each" /\ (call.on = NoName \/ AsWritten(call.on) = w.frags[i].path)
    THEN File(w, i, FALSE, call.names) ELSE w

is_concern_edge(extends) == \E e \in ToSet(extends) : e.path = <<"ActiveSupport", "Concern">>

(* A call with a literal block.                                            *)
WalkBlockCall(w, ctx, call) ==
    LET i == ctx.frag
        bare == call.recv = "none"
        scanned == [harvest_block_consts(w, i, call) EXCEPT
                       !.frags = @ \o NestedDefs(ctx.scope, ctx.nesting, call.body)]
    IN  CASE i = 0 -> w
          [] i # 0 /\ bare /\ call.name = "define_method" ->
                IF FirstIsLiteral(call.args) THEN File(w, i, ctx.single, {call.args[1].lit})
                ELSE open_class(w, i, "DynamicDefineMethod")
          [] i # 0 /\ bare /\ call.name = "sig" -> OpenWhen(w, i, call.dynamic, "ClassBodyBlock")
          [] i # 0 /\ bare /\ call.name = "class_methods" /\ is_concern_edge(w.frags[i].extends) ->
                open_class(harvest_class_methods_block(w, ctx, call), i, "ClassBodyBlock")
          [] OTHER -> open_class(harvest_interpolated_eval_defs(scanned, i, call), i, "ClassBodyBlock")

(* include, extend and prepend.                                            *)
WalkMixin(w, ctx, call) ==
    LET i == ctx.frag
        owner == AsWritten(call.on)
        with == WithFragmentFor(w, owner, ctx.nesting)
        oi == fragment_idx_for(with, owner)
        OnOwner(acc, name) == [acc EXCEPT !.frags[oi].extends = AddNew(@, name)]
        Dynamic == \E k \in DOMAIN call.args : call.args[k].k # "const"
        Edge(acc, a) ==
            CASE a.k = "const" /\ call.name # "extend" /\ ctx.single -> [acc EXCEPT !.frags[i].extends = AddNew(@, a.const)]
              [] a.k = "const" /\ call.name = "include" /\ ~ctx.single -> [acc EXCEPT !.frags[i].includes = Append(@, a.const)]
              [] a.k = "const" /\ call.name = "prepend" /\ ~ctx.single -> [acc EXCEPT !.frags[i].prepends = Append(@, a.const)]
              [] a.k = "const" /\ call.name = "extend" -> [acc EXCEPT !.frags[i].extends = Append(@, a.const)]
              [] a.k = "self" /\ call.name = "extend" -> [acc EXCEPT !.frags[i].extends = Append(@, Rel(ctx.scope))]
              [] OTHER -> open_class(acc, i, "DynamicMixinArg")
    IN  CASE call.recv = "singleton" /\ call.name = "extend" -> open_class(with, oi, "SingletonClassExpr")
          [] call.recv = "singleton" /\ call.name # "extend" ->
                OpenWhen(FoldLeft(OnOwner, with, ConstArgs(call.args)), oi, Dynamic, "DynamicMixinArg")
          [] call.recv # "singleton" /\ i = 0 ->
                [w EXCEPT !.coreMixin = @ \/ (call.recv = "none" /\ call.name = "include")]
          [] call.recv \notin {"singleton", "none", "self"} /\ i # 0 -> open_class(w, i, "DynamicMixinReceiver")
          [] OTHER -> FoldLeft(Edge, w, call.args)

(* attr_reader, attr_writer and attr_accessor on one track.                *)
WalkAttr(w, i, single, call) ==
    OpenWhen(File(w, i, single, AttrMethods(call.name, Symbols(call.args))),
             i, ~AllSymbols(call.args), "DynamicAttrArg")

(* The literal values given to an option; one nobody can read is no value. *)
Given(call, key) ==
    {call.args[k].value : k \in {k \in DOMAIN call.args : call.args[k].k = "kw" /\ call.args[k].lit = key}}
Suffixed(names, suffix) == {a \o suffix : a \in names}

(* mattr_* and cattr_*: both tracks, less what an option set to false      *)
(* takes from the instances.                                               *)
WalkMattr(w, i, call) ==
    LET attrs == Symbols(call.args)
        Off(key) == "false" \in Given(call, key)
        readers == IF call.name \in Mattr("_writer") THEN {} ELSE attrs
        writers == IF call.name \in Mattr("_reader") THEN {} ELSE Suffixed(attrs, "=")
        Unless(key, names) == IF Off(key) \/ Off("instance_accessor") THEN {} ELSE names
        both == File(File(w, i, TRUE, readers \cup writers), i, FALSE,
                     Unless("instance_reader", readers) \cup Unless("instance_writer", writers))
    IN  open_class(both, i, "UnknownClassBodyCall")

(* class_attribute: an accessor option of its own overrides                *)
(* instance_accessor in either direction.                                  *)
WalkClassAttribute(w, i, call) ==
    LET attrs == Symbols(call.args)
        Off(key) == "false" \in Given(call, key)
        Wanted(key) == ~Off(key) /\ (~Off("instance_accessor") \/ "true" \in Given(call, key))
        If(cond, names) == IF cond THEN names ELSE {}
        predicates == If(~Off("instance_predicate"), Suffixed(attrs, "?"))
        both == File(File(w, i, TRUE, attrs \cup Suffixed(attrs, "=") \cup predicates), i, FALSE,
                     If(Wanted("instance_reader"), attrs \cup predicates)
                     \cup If(Wanted("instance_writer"), Suffixed(attrs, "=")))
    IN  open_class(both, i, "UnknownClassBodyCall")

(* define_method and alias_method without a block.                         *)
WalkDefiner(w, ctx, call) ==
    LET named == IF call.name = "define_method" THEN FirstIsLiteral(call.args)
                 ELSE call.args # <<>> /\ call.args[1].k = "sym"
        reason == IF call.name = "define_method" THEN "DynamicDefineMethod" ELSE "DynamicAliasMethod"
    IN  IF named THEN File(w, ctx.frag, ctx.single, {call.args[1].lit}) ELSE open_class(w, ctx.frag, reason)

(* private def f ...; module_function extends the module with itself.      *)
WalkVisibility(w, ctx, call) ==
    LET own == IF call.name = "module_function"
               THEN [w EXCEPT !.frags[ctx.frag].extends = Append(@, Rel(ctx.scope))] ELSE w
    IN  FoldLeft(LAMBDA acc, d : WalkDef(acc, ctx, d), own, SelectSeq(call.body, LAMBDA n : n.kind = "def"))

(* A macro of the class body: no receiver, no block.                       *)
WalkMacro(w, ctx, call) ==
    LET i == ctx.frag
    IN  CASE call.name \in AttrNames -> WalkAttr(w, i, ctx.single, call)
          [] call.name \in MattrNames -> WalkMattr(w, i, call)
          [] call.name = "class_attribute" -> WalkClassAttribute(w, i, call)
          [] call.name \in {"define_method", "alias_method"} -> WalkDefiner(w, ctx, call)
          [] call.name \in SendNames \cup {"class_eval", "module_eval", "instance_eval",
                                           "delegate", "define_singleton_method"} -> open_class(w, i, "EvalOrSend")
          [] call.name \in Visibility -> WalkVisibility(w, ctx, call)
          [] call.name \in InertMacros -> w
          [] OTHER -> open_class(w, i, "UnknownClassBodyCall")   \* mixes_in_class_methods too

WalkCall(w, ctx, call) ==
    LET noted == [w EXCEPT !.coreMixin = @ \/ core_injection_call(call)]
        i == ctx.frag
        i0 == i = 0
        OnSingleton == call.recv = "singleton" /\ call.name \in Injections \ {"include", "extend", "prepend"}
        Patch == [ClassFragment(AsWritten(call.on), ctx.nesting) EXCEPT !.patch = TRUE, !.reason = "EvalOrSend"]
        table == IF call.args # <<>> /\ call.args[1].k = "str" THEN call.args[1].lit ELSE "Dynamic"
    IN  CASE OnSingleton -> PushFragment(noted, Patch)
          [] ~OnSingleton /\ call.block = "block" -> WalkBlockCall(noted, ctx, call)
          [] call.block # "block" /\ call.name = "table_name=" /\ call.recv = "self" ->
                IF i0 THEN noted ELSE [noted EXCEPT !.frags[i].table = table]
          [] call.block # "block" /\ mixin_track(call.name) # "none" -> WalkMixin(noted, ctx, call)
          [] call.block # "block" /\ call.name = "require" /\ call.recv = "none" ->
                IF call.args # <<>> /\ call.args[1].k = "str"
                THEN [noted EXCEPT !.requires = @ \cup {call.args[1].lit}] ELSE noted
          [] ~OnSingleton /\ call.block # "block" /\ call.recv = "own" /\ call.name \in AttrNames ->
                IF i0 THEN noted ELSE WalkAttr(noted, i, TRUE, call)
          [] /\ call.block # "block" /\ call.recv = "none" /\ ~i0
             /\ mixin_track(call.name) = "none" /\ call.name # "require" -> WalkMacro(noted, ctx, call)
          [] OTHER -> noted

-----------------------------------------------------------------------------
(* walk_stmts.                                                             *)

RECURSIVE walk_stmts(_, _, _)

(* ClassNode and ModuleNode: the body's own fragment, then the header is   *)
(* attached to the last fragment of that path.                             *)
WalkNamed(w, ctx, n) ==
    LET full == join_path(ctx.scope, n.on)
        nesting == Append(ctx.nesting, full)
        start == PushFragment(w, ClassFragment(full, nesting))
        walked == walk_stmts(start, Context(full, nesting, Len(start.frags), FALSE), n.body)
        last == SelectLastInSeq(walked.frags, LAMBDA f : f.path = full)
        IfClosed(old, cond, reason) == IF cond /\ old = "none" THEN reason ELSE old
        headed == [walked EXCEPT
            !.frags[last].super = IF n.super # NoName THEN n.super ELSE @,
            !.frags[last].reason = IfClosed(IfClosed(@, n.dynamic, "DynamicSuperclass"),
                                            full \in ExternalPaths, "ReopenedExternal")]
    IN  IF n.kind = "module" THEN [walked EXCEPT !.frags[last].module = TRUE] ELSE headed

(* class << self, and class << X, whose owner may not be of this file.     *)
WalkSingletonClass(w, ctx, n) ==
    LET owner == AsWritten(n.on)
        with == WithFragmentFor(w, owner, ctx.nesting)
        oi == fragment_idx_for(with, owner)
        walked == walk_stmts(with, Context(owner, with.frags[oi].nesting, oi, TRUE), n.body)
    IN  CASE n.recv = "self" -> walk_stmts(w, [ctx EXCEPT !.single = TRUE], n.body)
          [] n.recv = "const" /\ ctx.frag # 0 -> open_class(walked, ctx.frag, "SingletonClassExpr")
          [] n.recv = "const" /\ ctx.frag = 0 -> walked
          [] OTHER -> OpenWhen(w, ctx.frag, ctx.frag # 0, "SingletonClassExpr")

walk_stmt(w, ctx, n) ==
    CASE n.kind \in {"class", "module"} -> WalkNamed(w, ctx, n)
      [] n.kind = "sclass" -> WalkSingletonClass(w, ctx, n)
      [] n.kind = "def" -> WalkDef(w, ctx, n)
      [] n.kind = "const" -> WalkConst(w, ctx, n)
      [] n.kind = "pathconst" -> WalkPathConst(w, ctx, n)
      [] n.kind = "call" -> WalkCall(w, ctx, n)
      [] n.kind = "alias" -> IF ctx.frag = 0 \/ n.dynamic THEN w ELSE File(w, ctx.frag, ctx.single, {n.name})
      [] n.kind \in {"if", "elsif", "begin"} -> walk_stmts(walk_stmts(w, ctx, n.body), ctx, n.other)
      [] n.kind = "unless" -> walk_stmts(w, ctx, n.body)   \* the else arm is not walked
      [] OTHER -> w

walk_stmts(w, ctx, stmts) == FoldLeft(LAMBDA acc, n : walk_stmt(acc, ctx, n), w, stmts)
-----------------------------------------------------------------------------
(* Pollution sources: the methods a call or a block adds to its target.    *)

Names(names) == [source |-> "names", names |-> names, module |-> NoName]
ModuleSource(name) == [source |-> "module", names |-> {}, module |-> name]
Opaque == [source |-> "opaque", names |-> {}, module |-> NoName]

InertBodyCalls == Visibility \cup {"private_constant", "public_constant", "require", "require_relative",
                                   "freeze", "raise", "puts", "warn", "using"}
Delegators == {"def_delegator", "def_delegators", "def_instance_delegator"}
is_definer_name(name) ==
    name \in AttrNames \cup SendNames \cup Delegators
             \cup {"define_method", "define_singleton_method", "alias_method", "attr", "include",
                   "prepend", "extend", "delegate", "delegate_missing_to"}

attr_sources(name, args) ==
    CASE ~AllLiteral(args) -> {Opaque}
      [] AllLiteral(args) /\ args # <<>> -> {Names(AttrMethods(name, Literals(args)))}
      [] OTHER -> {}

mixin_sources(args) ==
    {IF a.k = "const" THEN ModuleSource(Trimmed(a.const)) ELSE Opaque : a \in ToSet(args)}

delegate_sources(args) ==
    CASE \E a \in ToSet(args) : ~literal_method_name(a) /\ a.k # "kw" -> {Opaque}
      [] OTHER -> IF Literals(args) = {} THEN {} ELSE {Names(Literals(args))}

definer_sources(call) ==
    LET c == Unwrap(call.name, call.args)
    IN  CASE c.name \in {"define_method", "define_singleton_method", "alias_method"} ->
                IF FirstIsLiteral(c.args) THEN {Names({c.args[1].lit})} ELSE {Opaque}
          [] c.name \in AttrNames \cup {"attr"} -> attr_sources(c.name, c.args)
          [] mixin_track(c.name) # "none" -> mixin_sources(c.args)
          [] c.name = "delegate" -> delegate_sources(c.args)
          [] c.name = "delegate_missing_to" -> {Names(MissingNames)}
          [] c.name \in Delegators \cup SendNames -> {Opaque}
          [] OTHER -> {}

call_statement_pollution(call) ==
    LET defs == {Names({d.name}) : d \in {d \in ToSet(call.body) : d.kind = "def" /\ call.block = "none"}}
        definers == definer_sources(call)
        quiet == call.recv # "none" \/ (call.block = "none" /\ (defs # {} \/ call.name \in InertBodyCalls))
    IN  CASE definers # {} -> defs \cup definers
          [] definers = {} /\ quiet -> defs
          [] OTHER -> defs \cup {Opaque}

(* An `else` is a statement of its own around its arm, and an `elsif` is   *)
(* an `if` in its place.                                                   *)
Subsequent(n) ==
    IF n.other = <<>> \/ n.other[1].kind = "elsif" THEN n.other
    ELSE <<[Node EXCEPT !.kind = "else", !.body = n.other]>>
nested_statements(n) ==
    CASE n.kind \in {"if", "elsif", "unless"} -> <<n.body, Subsequent(n)>>
      [] n.kind \in {"else", "sclass", "begin"} -> <<n.body>>   \* a begin's rescue arms are not read
      [] OTHER -> <<>>

RECURSIVE statements_pollution(_, _)
statement_pollution(n, depth) ==
    CASE n.kind = "def" \/ (n.kind = "alias" /\ ~n.dynamic) -> {Names({n.name})}
      [] n.kind = "alias" /\ n.dynamic -> {Opaque}
      [] n.kind = "call" -> call_statement_pollution(n)
      [] OTHER -> UNION {statements_pollution(b, depth + 1) : b \in ToSet(nested_statements(n))}

statements_pollution(stmts, depth) ==
    IF depth > 3 /\ stmts # <<>> THEN {Opaque}
    ELSE UNION {statement_pollution(n, depth) : n \in ToSet(stmts)}

block_pollution(call) ==
    CASE call.block = "block" -> statements_pollution(call.body, 0)
      [] call.block = "arg" -> {Opaque}
      [] OTHER -> {}

-----------------------------------------------------------------------------
(* FileScan: every call of the file, whatever it stands in.                *)

NoLocals == [x \in {} |-> {}]
NoScan == [dynamic |-> {}, attributed |-> {}, constReturning |-> {}, refined |-> {},
           refinedUnknown |-> FALSE, evals |-> {}, evalUnknown |-> FALSE, keyed |-> {},
           strings |-> {}, loadHooks |-> {}, locals |-> NoLocals]

(* A place: its nesting, and whether a def or a block surrounds it.        *)
Place(nesting, nested, inDef) == [nesting |-> nesting, nested |-> nested, inDef |-> inDef]
Here(at, name) == [name |-> name, nesting |-> at.nesting]

push_keyed(sc, at, target, sources) ==
    [sc EXCEPT !.keyed = @ \cup {[target |-> target, nesting |-> at.nesting, source |-> s.source,
                                  names |-> s.names, module |-> s.module] : s \in sources}]

note_dynamic_mixin(sc, at, call) ==
    IF mixin_track(call.name) = "none" \/ call.recv \in {"none", "self", "const"} THEN sc
    ELSE [sc EXCEPT !.dynamic = @ \cup {[track |-> mixin_track(call.name), name |-> n, nesting |-> at.nesting] :
                                        n \in ToSet(ConstArgs(call.args))}]

(* The classes a value can be: constants written here, or what a method    *)
(* returns.                                                                *)
Receiver(method, name, at) == [method |-> method, name |-> name, nesting |-> at.nesting]
value_receivers(at, values, via) ==
    {Receiver("none", v, at) : v \in ToSet(values)}
    \cup (IF via # "none" THEN {[method |-> via, name |-> NoName, nesting |-> <<>>]} ELSE {})

receiver_of(sc, at, call) ==
    CASE call.recv = "const" -> value_receivers(at, <<call.on>>, "none")
      [] call.recv = "ternary" -> value_receivers(at, call.values, "none")
      [] call.recv = "method" -> value_receivers(at, <<>>, call.via)
      [] call.recv = "local" /\ at.inDef /\ call.via \in DOMAIN sc.locals -> sc.locals[call.via]
      [] OTHER -> {}

note_attributed_mixin(sc, at, call) ==
    LET readable == call.args # <<>> /\ \A i \in DOMAIN call.args : call.args[i].k = "const"
    IN  IF mixin_track(call.name) # "instance" \/ ~readable THEN sc
        ELSE [sc EXCEPT !.attributed = @ \cup
                {[method |-> r.method, name |-> r.name, nesting |-> r.nesting,
                  module |-> m, moduleNesting |-> at.nesting] :
                 r \in receiver_of(sc, at, call), m \in ToSet(ConstArgs(call.args))}]

note_const_returning_body(sc, at, def) ==
    IF def.recv # "none" THEN sc
    ELSE [sc EXCEPT !.constReturning = @ \cup {[method |-> def.name, name |-> v, nesting |-> at.nesting] :
                                               v \in ToSet(def.values)}]

note_refinement(sc, at, call) ==
    LET named == call.args # <<>> /\ call.args[1].k = "const"
        target == IF named THEN Trimmed(call.args[1].const) ELSE NoName
        keyed == push_keyed(sc, at, target, block_pollution(call))
    IN  CASE call.name # "refine" \/ call.block = "none" -> sc
          [] call.name = "refine" /\ call.block # "none" /\ named ->
                [keyed EXCEPT !.refined = @ \cup {Here(at, target)}]
          [] OTHER -> [keyed EXCEPT !.refinedUnknown = TRUE]

(* eval_target: a receiver that is self or absent is the innermost class.  *)
eval_target(at, call) ==
    CASE call.recv \in {"none", "self"} -> IF at.nesting = <<>> THEN NoName ELSE Rel(Last(at.nesting))
      [] call.recv = "const" -> Trimmed(call.on)
      [] OTHER -> NoName

(* An eval of a string is unreadable; one of a block is read, unless its   *)
(* receiver cannot be named, and then nothing is recorded.                 *)
note_opaque_eval(sc, at, call) ==
    LET string == call.args # <<>> /\ call.name \in {"class_eval", "module_eval", "instance_eval"}
        target == eval_target(at, call)
        sources == IF string THEN {Opaque} ELSE IF target = NoName THEN {} ELSE block_pollution(call)
        keyed == push_keyed(sc, at, target, sources)
    IN  CASE call.name = "eval" ->
                IF call.args = <<>> THEN sc
                ELSE push_keyed([sc EXCEPT !.evalUnknown = TRUE], at, NoName, {Opaque})
          [] call.name \in EvalNames /\ (string \/ call.block # "none") ->
                [keyed EXCEPT !.evals = IF target = NoName THEN @ ELSE @ \cup {Here(at, target)},
                              !.evalUnknown = @ \/ (target = NoName /\ string)]
          [] OTHER -> sc

injection_target(at, call) ==
    CASE call.recv = "none" -> IF call.name = "include" /\ at.nesting = <<>> /\ ~at.nested
                               THEN Rel(<<"Object">>) ELSE NoName
      [] call.recv = "self" -> IF at.nesting = <<>> THEN NoName ELSE Rel(Last(at.nesting))
      [] call.recv = "const" -> Trimmed(call.on)
      [] OTHER -> NoName

note_injection(sc, at, call) ==
    IF ~is_definer_name(call.name) \/ injection_target(at, call) = NoName THEN sc
    ELSE push_keyed(sc, at, injection_target(at, call), definer_sources(call))

note_load_hook_base(sc, at, call) ==
    IF call.name = "run_load_hooks" /\ [i \in DOMAIN call.args |-> call.args[i].k] = <<"sym", "const">>
    THEN [sc EXCEPT !.loadHooks = @ \cup {Here(at, call.args[2].const)}] ELSE sc

RECURSIVE ScanStmts(_, _, _)

ScanDef(sc, at, def) ==
    LET missing == at.nesting = <<>> /\ ~at.nested /\ def.recv = "none" /\ def.name \in MissingNames
        keyed == IF missing THEN push_keyed(sc, at, Rel(<<"Object">>), {Names({def.name})}) ELSE sc
        noted == note_const_returning_body(keyed, at, def)
        inner == ScanStmts([noted EXCEPT !.locals = NoLocals], Place(at.nesting, TRUE, TRUE), def.body)
    IN  [inner EXCEPT !.locals = sc.locals]

ScanLocal(sc, at, n) ==
    LET candidates == value_receivers(at, n.values, n.via)
        others == [x \in DOMAIN sc.locals \ {n.name} |-> sc.locals[x]]
    IN  CASE ~at.inDef -> sc
          [] at.inDef /\ candidates = {} -> [sc EXCEPT !.locals = others]
          [] OTHER -> [sc EXCEPT !.locals = (n.name :> candidates) @@ others]

ScanCall(sc, at, call) ==
    LET s1 == note_refinement(note_attributed_mixin(note_dynamic_mixin(sc, at, call), at, call), at, call)
        s2 == note_load_hook_base(note_injection(note_opaque_eval(s1, at, call), at, call), at, call)
    IN  ScanStmts(s2, Place(at.nesting, at.nested \/ call.block = "block", at.inDef), call.body)

ScanStmt(sc, at, n) ==
    CASE n.kind \in {"class", "module"} ->
            LET full == join_path(IF at.nesting = <<>> THEN <<>> ELSE Last(at.nesting), n.on)
            IN  ScanStmts(sc, Place(Append(at.nesting, full), at.nested, at.inDef), n.body)
      [] n.kind = "def" -> ScanDef(sc, at, n)
      [] n.kind = "local" -> ScanLocal(sc, at, n)
      [] n.kind = "string" -> [sc EXCEPT !.strings = @ \cup n.names]
      [] n.kind = "call" -> ScanCall(sc, at, n)
      [] OTHER -> ScanStmts(sc, at, n.body \o n.other)

ScanStmts(sc, at, stmts) == FoldLeft(LAMBDA acc, n : ScanStmt(acc, at, n), sc, stmts)

-----------------------------------------------------------------------------

(* One file, both walks.                                                   *)
file_defs(text) == walk_stmts(NoDefs, Context(<<>>, <<>>, 0, FALSE), text)
                   @@ ScanStmts(NoScan, Place(<<>>, FALSE, FALSE), text)
=============================================================================
