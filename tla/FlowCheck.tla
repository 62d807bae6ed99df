----------------------------- MODULE FlowCheck -----------------------------
(***************************************************************************)
(* The checker's walk of one method body (check.rs): the type it infers    *)
(* for each expression, what it narrows, joins and forgets on the way, and *)
(* what it accuses.  `s` holds what the walk changes (the environment, the *)
(* constraints, the returns, the memo of return types, the diagnostics)    *)
(* and `c` what a construct sets for the walk below it.  A node is named   *)
(* by its id, which stands for its span.                                   *)
(***************************************************************************)
EXTENDS FlowTypes, SequencesExt

CONSTANTS
    Vars,          \* the locals of the body
    Methods,       \* <<class, name>> -> [min, max, stub, body, known, ret, fill, params]
    SingletonMethods,       \* the same for the methods of the class objects
    Opened,        \* classes something outside the index may define methods on
    core_own_names,         \* kind -> the Ruby classes a value of it is of
    core_pollution_names,   \* kind -> those and the ancestors they answer through
    RbiCore,       \* <<Ruby class, name>> that gem RBIs declare on core classes
    CoreMethods,   \* kind -> (name -> [min, max, ret]), "Object" for all
    Inventory,     \* kind -> the method names Ruby gives it
    LexicalSelf,   \* the core methods that only yield to their block
    StackDepth     \* the walk gives up below this many nested expressions

None == <<>>
Arithmetic == {"+", "-", "*", "/"}
EvalNames == {"eval", "instance_eval", "class_eval", "module_eval", "binding", "local_variable_set"}

-----------------------------------------------------------------------------
(* The syntax tree.                                                        *)

Lit(value) == [op |-> "lit", val |-> value]
Read(id, var) == [op |-> "read", id |-> id, var |-> var]
Write(var, how, val) == [op |-> "write", var |-> var, how |-> how, val |-> val]
MultiWrite(vars, val) == [op |-> "multi", vars |-> vars, val |-> val]
ConstRead(const) == [op |-> "const", const |-> const]
Call(id, recv, name, args, block) ==
    [op |-> "call", id |-> id, recv |-> recv, name |-> name, args |-> args, block |-> block]
Block(params, body) == [params |-> params, body |-> body]
If(id, pred, then, else) == [op |-> "if", id |-> id, pred |-> pred, then |-> then, else |-> else]
Unless(id, pred, then, else) == [op |-> "unless", id |-> id, pred |-> pred, then |-> then, else |-> else]
Case(id, subj, whens, else) == [op |-> "case", id |-> id, subj |-> subj, whens |-> whens, else |-> else]
When(consts, body) == [consts |-> consts, body |-> body]
CaseMatch(subj, vars) == [op |-> "match", subj |-> subj, vars |-> vars]
While(id, pred, body) == [op |-> "while", id |-> id, pred |-> pred, body |-> body]
And(id, l, r) == [op |-> "and", id |-> id, l |-> l, r |-> r]
Or(id, l, r) == [op |-> "or", id |-> id, l |-> l, r |-> r]
Begin(id, body, rescues, else, ensure) ==
    [op |-> "begin", id |-> id, body |-> body, rescues |-> rescues, else |-> else, ensure |-> ensure]
Rescue(ref, body) == [ref |-> ref, body |-> body]
RescueModifier(id, l, r) == [op |-> "rescue", id |-> id, l |-> l, r |-> r]
Return(vals) == [op |-> "return", vals |-> vals]
Jump(kind) == [op |-> kind]                        \* break, next

Options(o) == FlattenSeq(o)                        \* an optional statement list
Kids(n) ==
    CASE n.op \in {"write", "multi"} -> <<n.val>>
      [] n.op = "call" -> n.recv \o n.args \o (IF n.block = None THEN <<>> ELSE n.block[1].body)
      [] n.op \in {"if", "unless"} -> <<n.pred>> \o n.then \o Options(n.else)
      [] n.op = "case" -> <<n.subj>> \o FlattenSeq([i \in DOMAIN n.whens |-> n.whens[i].body]) \o Options(n.else)
      [] n.op = "match" -> <<n.subj>>
      [] n.op = "while" -> <<n.pred>> \o n.body
      [] n.op \in {"and", "or", "rescue"} -> <<n.l, n.r>>
      [] n.op = "begin" -> n.body \o FlattenSeq([i \in DOMAIN n.rescues |-> n.rescues[i].body])
                           \o Options(n.else) \o Options(n.ensure)
      [] n.op = "return" -> n.vals
      [] OTHER -> <<>>

RECURSIVE Nodes(_)
Nodes(ns) == ToSet(ns) \cup UNION {Nodes(Kids(n)) : n \in ToSet(ns)}

-----------------------------------------------------------------------------
(* The class index, as the walk sees it (ClassLookup models it).           *)

RECURSIVE Chain(_)
Chain(class) == IF class = "none" THEN <<>> ELSE <<class>> \o Chain(Super[class])
Below(class) == {d \in Classes : class \in ToSet(Chain(d)) /\ d # class}

Found(owner) == [kind |-> "Found", owner |-> owner]
NotFound == [kind |-> "NotFound"]
Inconclusive == [kind |-> "Inconclusive"]

LookupIn(methods, class, name) ==
    LET chain == Chain(class)
        stops(a) == a \in Opened \/ <<a, name>> \in DOMAIN methods
        i == SelectInSeq(chain, stops)
    IN  CASE i > 0 -> IF chain[i] \in Opened THEN Inconclusive ELSE Found(chain[i])
          [] i = 0 /\ \E d \in Below(class) : stops(d) -> Inconclusive
          [] OTHER -> NotFound
lookup_method(class, name) == LookupIn(Methods, class, name)
lookup_singleton(class, name) == LookupIn(SingletonMethods, class, name)

descendant_defines(class, name) == \E d \in Below(class) : d \in Opened \/ <<d, name>> \in DOMAIN Methods

closed_candidates_for(name) ==
    {class \in Classes : <<class, name>> \in DOMAIN Methods /\ ToSet(Chain(class)) \cap Opened = {}}

(* What the project does to the core classes, as ClassIndex collects it.   *)
(* For the blanket question: `untold` (core_mixin, refined_unknown or      *)
(* eval_polluted_unknown) and the names `reopened` (by_path, refined_core, *)
(* eval_polluted_core).  For the question about one method: `unknown`      *)
(* (polluted_unknown), the methods given to `any` class, the `opaque`      *)
(* classes, and `methods`, <<class, name>>.                                *)
core_class_unpolluted(c, kind) ==
    ~c.core.untold /\ core_pollution_names[kind] \cap c.core.reopened = {}
core_unknown_is_conclusive(c, kind) == c.closed /\ core_class_unpolluted(c, kind)
names_unpolluted(c, classes, keys) ==
    /\ keys \cap c.core.any = {}
    /\ classes \cap c.core.opaque = {}
    /\ (classes \X keys) \cap c.core.methods = {}
ConversionHook(kind) == IF kind = "Str" THEN "to_str" ELSE "coerce"
arg_pollution_keys(recv) == {ConversionHook(recv), "method_missing", "respond_to_missing?"}
MutOpsUnpolluted(c, recv, arg, op) ==
    ~c.core.unknown /\ names_unpolluted(c, core_own_names[recv] \cup core_own_names[arg], {op})
core_ops_unpolluted(c, recv, arg, op) ==
    /\ ~c.core.unknown
    /\ names_unpolluted(c, core_own_names[recv], {op})
    /\ names_unpolluted(c, core_pollution_names[arg], arg_pollution_keys(recv))
rbi_core_declares(kind, name) == \E class \in core_pollution_names[kind] : <<class, name>> \in RbiCore

core_method(kind, name) ==
    CASE name \in DOMAIN CoreMethods[kind] -> <<CoreMethods[kind][name]>>
      [] name \notin DOMAIN CoreMethods[kind] /\ name \in DOMAIN CoreMethods["Object"] ->
             <<CoreMethods["Object"][name]>>
      [] OTHER -> None

core_ret_to_ty(ret, recv) == IF ret = "SelfSame" THEN recv ELSE Only(ret)

MutKeepsLexicalSelf(c, recv, name) == name \in LexicalSelf
block_keeps_lexical_self(c, recv, name) ==
    \E t \in recv : /\ recv = {t} /\ t.k \in DOMAIN Inventory
                    /\ name \in LexicalSelf /\ core_class_unpolluted(c, t.k)

-----------------------------------------------------------------------------
(* Facts read off the syntax.                                              *)

IsRead(n) == n.op = "read"
IsCall(n, name) == n.op = "call" /\ n.name = name
BareCall(n) == n.op = "call" /\ n.recv = None

narrow_of_call(n, c) ==
    IF n.recv = None \/ ~IsRead(n.recv[1]) THEN NoNarrow
    ELSE LET var == n.recv[1].var
         IN  CASE n.name = "nil?" /\ n.args = <<>> -> Narrow(var, "NilCheck", {})
               [] n.name = "is_a?" /\ Len(n.args) = 1 /\ n.args[1].op = "const"
                  /\ NarrowedTo(n.args[1].const, c.closed) # {} ->
                      Narrow(var, "IsA", NarrowedTo(n.args[1].const, c.closed))
               [] OTHER -> NoNarrow

RECURSIVE narrow_of(_, _)
narrow_of_or(n, c) ==
    LET sides == <<narrow_of(n.l, c), narrow_of(n.r, c)>>
        i == SelectInSeq(sides, LAMBDA nw : nw.kind = "NilCheck")
    IN  IF i = 0 THEN NoNarrow ELSE Narrow(sides[i].var, "NilCheckOrGuard", {})
narrow_of(n, c) ==
    CASE n.op = "or" -> narrow_of_or(n, c)
      [] n.op = "call" -> narrow_of_call(n, c)
      [] n.op = "read" -> Narrow(n.var, "Truthy", {})
      [] OTHER -> NoNarrow

(* `when A, B`: a type only if every condition proves one.                 *)
narrow_of_when(w, c) ==
    LET tys == {NarrowedTo(const, c.closed) : const \in w.consts}
    IN  IF {} \in tys THEN {} ELSE UNION tys

(* The last statement leaves the method or the loop.                       *)
stmts_diverge(ns) ==
    ns # <<>> /\ \/ Last(ns).op \in {"return", "break", "next"}
                 \/ BareCall(Last(ns)) /\ Last(ns).name \in {"raise", "fail"}

respond_to_guard_name(pred) ==
    IF BareCall(pred) /\ pred.name = "respond_to?" THEN {pred.args[1].val.c} ELSE {}

(* What `x.is_a?(Class) && ...` proves is no type: reads of x on the right *)
(* are Unknown.                                                            *)
expr_name(n) ==
    CASE IsRead(n) -> {n.var}
      [] BareCall(n) /\ n.args = <<>> /\ n.block = None -> {n.name}
      [] OTHER -> {}
class_object_guard(n) ==
    IF /\ IsCall(n, "is_a?") /\ n.recv # None
       /\ Len(n.args) = 1 /\ n.args[1].op = "const" /\ n.args[1].const \in {"Class", "Module"}
    THEN expr_name(n.recv[1]) ELSE {}

(* The calls that are statements of the block of `assert_raises`.          *)
direct_statement_call_spans(ns) == {ns[i].id : i \in {j \in DOMAIN ns : ns[j].op = "call"}}

(* E0108: the locals whose every write in the body is one literal type.    *)
literal_operand_ty(n) ==
    IF n.op = "lit" /\ n.val.k \in {"Int", "Float", "Str", "Nil"} THEN {n.val} ELSE {}
Poisoned(n) ==
    CASE n.op = "write" -> IF n.how = "=" THEN {} ELSE {n.var}
      [] n.op \in {"multi", "match"} -> n.vars
      [] n.op = "call" -> IF n.block = None THEN {} ELSE n.block[1].params
      [] n.op = "begin" -> UNION {n.rescues[i].ref : i \in DOMAIN n.rescues}
      [] OTHER -> {}
prove_operand_locals(params, body) ==
    LET nodes == Nodes(body)
        writes(v) == {literal_operand_ty(n.val) : n \in {m \in nodes : m.op = "write" /\ m.var = v}}
        proven == {v \in Vars \ params : /\ \A n \in nodes : v \notin Poisoned(n)
                                         /\ Cardinality(writes(v)) = 1 /\ {} \notin writes(v)}
    IN  IF \E n \in nodes : n.op = "call" /\ n.name \in EvalNames THEN <<>>
        ELSE [v \in proven |-> UNION writes(v)]

-----------------------------------------------------------------------------
(* The walk.  `facts` keeps, for each node, what hover shows there ("ty")  *)
(* and the environment at the points where control may join.               *)

Out(s, ty) == [s |-> s, ty |-> ty]
Bound(s, var, ty) == [s EXCEPT !.env = Insert(@, var, ty)]
WithEnv(s, env) == [s EXCEPT !.env = env]
Noted(s, c, id, tag, x) == IF c.silent THEN s ELSE [s EXCEPT !.facts = (<<id, tag>> :> x) @@ @]
Here(s, c, id, tag) == Noted(s, c, id, tag, s.env)
maybe_hover_ty(r, c, id) == Out(Noted(r.s, c, id, "ty", r.ty), r.ty)
emit(s, c, code, id) == IF c.silent THEN s ELSE [s EXCEPT !.diags = @ \cup {[code |-> code, key |-> id]}]

MutKillConstraint(s, var) == s
kill_constraint(s, var) == [s EXCEPT !.constraints[var] = <<>>]
collect_constraint(n, s, c) ==
    IF c.silent \/ ~c.closed \/ n.recv = None \/ ~IsRead(n.recv[1]) THEN s
    ELSE [s EXCEPT !.constraints[n.recv[1].var] = Append(@, [name |-> n.name, key |-> n.id])]

constraint_candidates(name) ==
    closed_candidates_for(name) \cup {kind \in DOMAIN Inventory : name \in Inventory[kind]}

(* E0107: two or more methods, each with someone to answer it, and nobody  *)
(* to answer them all.                                                     *)
classify_binding(var, calls) ==
    LET first(name) == calls[SelectInSeq(calls, LAMBDA k : k.name = name)]
        names == {calls[i].name : i \in DOMAIN calls}
        sets == {constraint_candidates(name) : name \in names}
    IN  IF /\ Cardinality(names) >= 2
           /\ {} \notin sets
           /\ \A k \in UNION sets : \E set \in sets : k \notin set
        THEN {[code |-> "E0107", key |-> calls[1].key, var |-> var, calls |-> {first(name).key : name \in names}]}
        ELSE {}
flush_constraints(s) ==
    [s EXCEPT !.diags = @ \cup UNION {classify_binding(v, s.constraints[v]) : v \in Vars},
              !.constraints = [v \in Vars |-> <<>>]]

RECURSIVE infer_expr(_, _, _)
infer_stmts(ns, s, c) ==
    FoldLeft(LAMBDA r, n : infer_expr(n, r.s, c), Out(s, Nil), ns)
infer_option(o, s, c) == IF o = None THEN Out(s, Nil) ELSE infer_stmts(o[1], s, c)

infer_write(n, s, c) ==
    LET r == infer_expr(n.val, s, c)
        prev == TypeIn(r.s.env, n.var, Nil)
        ty == CASE n.how = "=" -> r.ty
                [] n.how = "||=" -> union(prev, r.ty)
                [] OTHER -> Unknown
    IN  Out(Bound(kill_constraint(r.s, n.var), n.var, ty), ty)

ForgetAll(s, vars) ==
    [s EXCEPT !.constraints = [v \in Vars |-> IF v \in vars THEN <<>> ELSE @[v]],
              !.env = [v \in vars |-> Unknown] @@ @]

(* `unless` is `if` with the arms swapped, and keeps the fact of an `is_a?`*)
(* test to its arms.                                                       *)
infer_branch(n, s, c) ==
    LET nw == narrow_of(n.pred, c)
        tested == infer_expr(n.pred, s, c).s
        held == apply_narrow_true(tested.env, nw)
        failed == apply_narrow_false(tested.env, nw)
        guarded == [c EXCEPT !.guards = @ \cup respond_to_guard_name(n.pred)]
        positive == n.op = "if"
        then == infer_stmts(n.then, WithEnv(tested, IF positive THEN held ELSE failed), IF positive THEN guarded ELSE c)
        else == infer_option(n.else, WithEnv(then.s, IF positive THEN failed ELSE held), IF positive THEN c ELSE guarded)
        carries == nw # NoNarrow /\ (positive \/ nw.kind # "IsA")
        env == IF carries /\ stmts_diverge(n.then) /\ n.else = None
               THEN else.s.env
               ELSE join_envs(tested.env, <<then.s.env, else.s.env>>)
    IN  Out(WithEnv(else.s, env), union(then.ty, else.ty))

infer_case(n, s, c) ==
    LET start == infer_expr(n.subj, s, c).s
        clause(acc, w) ==
            LET ty == narrow_of_when(w, c)
                env == IF IsRead(n.subj) /\ ty # {} THEN Insert(start.env, n.subj.var, ty) ELSE start.env
                r == infer_stmts(w.body, WithEnv(acc.s, env), c)
            IN  [s |-> r.s, tys |-> Append(acc.tys, r.ty), envs |-> Append(acc.envs, r.s.env)]
        whens == FoldLeft(clause, [s |-> start, tys |-> <<>>, envs |-> <<>>], n.whens)
        else == infer_option(n.else, WithEnv(whens.s, start.env), c)
    IN  Out(WithEnv(else.s, join_envs(start.env, Append(whens.envs, else.s.env))),
            FoldLeft(union, else.ty, whens.tys))

infer_loop(n, s, c) ==
    LET tested == infer_expr(n.pred, Here(s, c, n.id, "head"), c).s
        body == infer_stmts(n.body, Here(tested, c, n.id, "body"), c).s
    IN  Out(Here(WithEnv(body, merge_loop_env(tested.env, body.env)), c, n.id, "after"), Nil)

infer_logic(n, s, c) ==
    LET l == infer_expr(n.l, s, c)
        narrowed == IF n.op = "and" THEN class_object_guard(n.l) ELSE {}
        r == infer_expr(n.r, l.s, [c EXCEPT !.narrowed = @ \cup narrowed])
    IN  Out(Here(r.s, c, n.id, "after"), union(l.ty, r.ty))

(* Each rescue starts from the environment before the body; the join falls *)
(* back on the environment after it.                                       *)
infer_begin(n, s, c) ==
    LET body == infer_stmts(n.body, s, c)
        clause(acc, r) ==
            LET env == [v \in r.ref |-> Unknown] @@ s.env
                t == infer_stmts(r.body, Here(WithEnv(acc.s, env), c, n.id, "rescue"), c)
            IN  [s |-> t.s, ty |-> union(acc.ty, t.ty), envs |-> Append(acc.envs, t.s.env)]
        rescued == FoldLeft(clause, [s |-> body.s, ty |-> body.ty, envs |-> <<>>], n.rescues)
        else == infer_option(n.else, WithEnv(rescued.s, body.s.env), c)
        ty == IF n.else = None THEN rescued.ty ELSE else.ty
        env == IF rescued.envs = <<>> THEN else.s.env
               ELSE join_envs(else.s.env, Append(rescued.envs, else.s.env))
        fresh == [v \in DOMAIN env \ DOMAIN s.env |-> env[v]]
        joined == Noted(Here(WithEnv(else.s, env), c, n.id, "ensure"), c, n.id, "fresh", fresh)
    IN  Out(infer_option(n.ensure, joined, c).s, ty)

infer_rescue_modifier(n, s, c) ==
    LET l == infer_expr(n.l, s, c)
        r == infer_expr(n.r, Here(l.s, c, n.id, "rescue"), c)
    IN  Out(r.s, union(l.ty, r.ty))

infer_return(n, s, c) ==
    LET r == infer_stmts(n.vals, s, c)
        ty == IF Len(n.vals) > 1 THEN Only("Array") ELSE r.ty
    IN  Out([r.s EXCEPT !.returns = Append(@, ty)], Unknown)

-----------------------------------------------------------------------------
(* Return types of the project's methods: the RBS comment's, else inferred *)
(* from the body, else (`fill`) the sorbet signature's.                    *)

check_method_body(env, body, s, c) ==
    LET inner == [c EXCEPT !.rebindable = FALSE, !.operands = IF c.silent THEN <<>> ELSE prove_operand_locals(DOMAIN env, body)]
        start == [s EXCEPT !.env = env, !.returns = <<>>, !.constraints = [v \in Vars |-> <<>>]]
        last == infer_stmts(body, start, inner)
        done == flush_constraints(last.s)
    IN  Out([done EXCEPT !.env = s.env, !.returns = s.returns, !.constraints = s.constraints],
            FoldLeft(union, last.ty, last.s.returns))

method_return(class, name, singleton, m, s, c) ==
    LET key == <<class, name, singleton>>
        self == IF singleton THEN ClassObject(class) ELSE Instance(class)
        inner == [c EXCEPT !.silent = TRUE, !.self = {self}, !.busy = @ \cup {key}]
        r == check_method_body(<<>>, m.body, s, inner)
        ty == IF r.ty = Unknown THEN m.fill ELSE r.ty
    IN  CASE m.ret # {} -> Out(s, m.ret)
          [] m.ret = {} /\ ~m.known -> Out(s, Unknown)
          [] m.ret = {} /\ m.known /\ key \in DOMAIN s.memo -> Out(s, s.memo[key])
          [] m.ret = {} /\ m.known /\ key \notin DOMAIN s.memo /\ key \in c.busy -> Out(s, m.fill)
          [] OTHER -> Out([r.s EXCEPT !.memo = (key :> ty) @@ @], ty)

-----------------------------------------------------------------------------
(* Calls.                                                                  *)

check_arity(m, given, s, c, id) == IF given \in m.min..m.max THEN s ELSE emit(s, c, "E0102", id)

MutCompatible(arg, param) == arg = Unknown \/ param = Unknown \/ arg \cap param # {}
compatible(arg, param) ==
    \/ arg = Unknown \/ param = Unknown
    \/ \A a \in arg : \E p \in param :
           \/ a = p
           \/ a.k = "Instance" /\ p.k = "Instance" /\ ToSet(Chain(a.c)) \cap (Opened \cup {p.c}) # {}

check_sig_args(m, args, s, c, id) ==
    IF \A i \in DOMAIN args \cap DOMAIN m.params : compatible(args[i], m.params[i]) THEN s
    ELSE emit(s, c, "E0103", id)

proven_operand(n, s, c) ==
    CASE n.op = "lit" -> literal_operand_ty(n)
      [] IsRead(n) /\ n.var \in DOMAIN c.operands /\ TypeIn(s.env, n.var, {}) = c.operands[n.var] -> c.operands[n.var]
      [] OTHER -> {}
Mismatch(lhs, rhs, op) ==
    \/ lhs.k \in {"Int", "Float"} /\ rhs.k \in {"Str", "Nil"}
    \/ lhs.k = "Str" /\ rhs.k \in {"Int", "Nil"} /\ op = "+"
check_operand_types(n, recv, s, c) ==
    IF /\ n.name \in Arithmetic /\ n.block = None /\ n.recv # None /\ Len(n.args) = 1
       /\ \E lhs \in proven_operand(n.recv[1], s, c), rhs \in proven_operand(n.args[1], s, c) :
              /\ recv = {lhs}
              /\ Mismatch(lhs, rhs, n.name)
              /\ core_ops_unpolluted(c, lhs.k, rhs.k, n.name)
    THEN emit(s, c, "E0108", n.id) ELSE s

core_call(n, kind, recv, given, s, c) ==
    LET m == core_method(kind, n.name)
    IN  IF m # None
        THEN Out(check_arity(m[1], given, s, c, n.id), core_ret_to_ty(m[1].ret, recv))
        ELSE IF /\ core_unknown_is_conclusive(c, kind) /\ n.name \notin Inventory[kind]
                /\ ~rbi_core_declares(kind, n.name)
             THEN Out(emit(s, c, "E0101", n.id), Unknown)
             ELSE Out(s, Unknown)

instance_call(n, class, args, s, c) ==
    LET found == lookup_method(class, n.name)
        m == Methods[<<found.owner, n.name>>]
        arity == IF m.known /\ ~(m.stub /\ descendant_defines(found.owner, n.name))
                 THEN check_arity(m, Len(args), s, c, n.id) ELSE s
    IN  CASE found.kind = "Found" ->
                 method_return(class, n.name, FALSE, m, check_sig_args(m, args, arity, c, n.id), c)
          [] found.kind = "NotFound" ->
                 IF core_method("Object", n.name) # None
                 THEN core_call(n, "Object", {Instance(class)}, Len(args), s, c)
                 ELSE IF n.recv = None /\ n.name \in c.guards THEN Out(s, Unknown)
                 ELSE Out(emit(s, c, "E0101", n.id), Unknown)
          [] OTHER -> Out(s, Unknown)

(* `Foo.new` is an instance of Foo.  It is held to the arity of a          *)
(* `self.new` of the project, else of `initialize`, and to none where an   *)
(* open ancestor could define `new`.                                       *)
infer_new(n, class, args, s, c) ==
    LET own == lookup_singleton(class, "new")
        init == lookup_method(class, "initialize")
        Checked(m) == check_sig_args(m, args, check_arity(m, Len(args), s, c, n.id), c, n.id)
    IN  CASE class \in {"Class", "Struct"} -> Out(s, Unknown)   \* a new class, of no name
          [] class \notin {"Class", "Struct"} /\ own.kind = "Found" ->
                 Out(Checked(SingletonMethods[<<own.owner, "new">>]), {Instance(class)})
          [] class \notin {"Class", "Struct"} /\ own.kind = "NotFound" /\ init.kind = "Found" ->
                 Out(Checked(Methods[<<init.owner, "initialize">>]), {Instance(class)})
          [] OTHER -> Out(s, {Instance(class)})

class_call(n, class, args, s, c) ==
    LET found == lookup_singleton(class, n.name)
        m == SingletonMethods[<<found.owner, n.name>>]
        arity == IF m.known THEN check_arity(m, Len(args), s, c, n.id) ELSE s
    IN  CASE n.name = "new" -> infer_new(n, class, args, s, c)
          [] n.name # "new" /\ found.kind = "Found" ->
                 method_return(class, n.name, TRUE, m, check_sig_args(m, args, arity, c, n.id), c)
          [] n.name # "new" /\ found.kind = "NotFound" /\ core_method("Object", n.name) = None ->
                 Out(emit(s, c, "E0101", n.id), Unknown)
          [] OTHER -> Out(s, Unknown)

check_block(n, recv, s, c) ==
    IF n.block = None THEN s
    ELSE LET b == n.block[1]
             inner == [c EXCEPT !.rebindable = @ \/ ~block_keeps_lexical_self(c, recv, n.name),
                                !.asserted = @ \cup IF n.name = "assert_raises" THEN direct_statement_call_spans(b.body) ELSE {}]
             start == Here(WithEnv(s, add_block_params(s.env, b.params)), c, n.id, "block")
             done == infer_stmts(b.body, start, inner).s
         IN  Here(WithEnv(done, spill_block_writes(s.env, done.env)), c, n.id, "after")

(* A local that is extended in a closed world has no known type from here  *)
(* on; an `is_a?(Class)` to the left hides the type of the receiver.       *)
call_receiver(n, s, c) ==
    LET r == IF n.recv = None THEN Out(s, c.self) ELSE infer_expr(n.recv[1], s, c)
        extended == n.name = "extend" /\ c.closed /\ n.recv # None /\ IsRead(n.recv[1])
        hidden == n.recv # None /\ expr_name(n.recv[1]) \cap c.narrowed # {}
    IN  Out(IF extended THEN Bound(r.s, n.recv[1].var, Unknown) ELSE r.s,
            IF hidden THEN Unknown ELSE r.ty)

call_args(n, s, c) ==
    LET arg(acc, a) == LET t == infer_expr(a, acc.s, c) IN [s |-> t.s, tys |-> Append(acc.tys, t.ty)]
    IN  FoldLeft(arg, [s |-> s, tys |-> <<>>], n.args)

call_on(n, recv, args, s, c) ==
    LET t == CHOOSE t \in recv : TRUE
    IN  CASE recv = Unknown -> Out(collect_constraint(n, s, c), Unknown)
          [] Cardinality(recv) > 1 -> Out(s, Unknown)
          [] recv # Unknown /\ recv = {t} /\ t.k = "Instance" -> instance_call(n, t.c, args, s, c)
          [] recv # Unknown /\ recv = {t} /\ t.k = "Class" -> class_call(n, t.c, args, s, c)
          [] OTHER -> core_call(n, t.k, recv, Len(args), s, c)

check_call(n, s, c) ==
    LET recv == call_receiver(n, s, c)
        args == call_args(n, recv.s, c)
        walked == Noted(check_block(n, recv.ty, args.s, c), c, n.id, "recv", recv.ty)
        done == check_operand_types(n, recv.ty, walked, c)
    IN  IF n.id \in c.asserted \/ (c.rebindable /\ n.recv = None) THEN Out(done, Unknown)
        ELSE call_on(n, recv.ty, args.tys, done, c)

infer_expr_inner(n, s, c) ==
    CASE n.op = "lit" -> Out(s, IF n.val.k \in {"True", "False"} THEN Only("Bool") ELSE {n.val})
      [] n.op = "const" -> Out(s, IF n.const \in Classes THEN {ClassObject(n.const)} ELSE Unknown)
      [] n.op = "read" -> maybe_hover_ty(Out(s, TypeIn(s.env, n.var, Unknown)), c, n.id)
      [] n.op = "write" -> infer_write(n, s, c)
      [] n.op = "multi" -> Out(ForgetAll(infer_expr(n.val, s, c).s, n.vars), Unknown)
      [] n.op \in {"if", "unless"} -> infer_branch(n, s, c)
      [] n.op = "case" -> infer_case(n, s, c)
      [] n.op = "match" -> LET r == infer_expr(n.subj, s, c).s IN Out(WithEnv(r, widen_env(r.env)), Unknown)
      [] n.op = "while" -> infer_loop(n, s, c)
      [] n.op \in {"and", "or"} -> infer_logic(n, s, c)
      [] n.op = "begin" -> infer_begin(n, s, c)
      [] n.op = "rescue" -> infer_rescue_modifier(n, s, c)
      [] n.op = "return" -> infer_return(n, s, c)
      [] n.op = "call" -> maybe_hover_ty(check_call(n, s, c), c, n.id)
      [] OTHER -> Out(s, Unknown)

infer_expr(n, s, c) ==
    IF c.depth > StackDepth THEN Out(s, Unknown)
    ELSE infer_expr_inner(n, s, [c EXCEPT !.depth = @ + 1])
=============================================================================
