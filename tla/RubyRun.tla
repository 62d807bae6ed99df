------------------------------ MODULE RubyRun ------------------------------
(***************************************************************************)
(* What Ruby does with the syntax trees FlowCheck walks: every execution   *)
(* of a statement list from a store, as a set of outcomes.  An unknown     *)
(* result is any of AnyValues, a call nobody can see into may raise, a     *)
(* loop or a block runs up to MaxTurns times.                              *)
(*                                                                         *)
(* `odd` records that control went where the checker's walk does not look  *)
(* and a local holds what the walk does not expect of it there: a second   *)
(* turn, a rescue out of the middle of a body, a jump out of a loop, an    *)
(* operand of && or || that was skipped, an overridden method.  These are  *)
(* the approximations of the checker; the README lists them.               *)
(***************************************************************************)
EXTENDS FlowCheck

CONSTANTS
    AnyValues,    \* the values an expression nobody knows may have
    MaxTurns,     \* turns of a loop or a block
    CallFuel      \* nested calls of project methods

True == Atom("True")
False == Atom("False")
NilValue == Atom("Nil")
Truth(b) == IF b THEN True ELSE False
Truthy(v) == v \notin {NilValue, False}
KindOf(v) == IF v \in {True, False} THEN "Bool" ELSE v.k

(* The values a type stands for: an instance of a class below it is one.   *)
Covers(ty, v) ==
    \/ ty = Unknown
    \/ \E t \in ty : \/ t = v
                     \/ t.k = KindOf(v) /\ t.k # "Instance" /\ t.k # "Class"
                     \/ t.k = "Instance" /\ v.k = "Instance" /\ t.c \in ToSet(Chain(v.c))
CoversAll(env, loc) == \A v \in DOMAIN env : Covers(env[v], loc[v])
Expects(env, loc) == CoversAll([v \in Vars |-> TypeIn(env, v, Nil)], loc)

-----------------------------------------------------------------------------
(* Outcomes.                                                               *)

R(k, v, st) == [k |-> k, v |-> v, st |-> st]
Ok(v, st) == {R("ok", v, st)}
Raised(st) == {R("raise", NilValue, st)}
Bind(rs, Next(_)) == UNION {IF r.k = "ok" THEN Next(r) ELSE {r} : r \in rs}

Saw(st, x, tag, id, v, ok) ==
    IF x.watch THEN [st EXCEPT !.obs = @ \cup {[tag |-> tag, id |-> id, v |-> v, ok |-> ok, odd |-> st.odd]}] ELSE st
Odd(st, cond) == [st EXCEPT !.odd = @ \/ cond]
Fact(x, id, tag) == x.facts[<<id, tag>>]
Arrive(st, x, id, tag) == IF x.watch THEN Odd(st, ~Expects(Fact(x, id, tag), st.loc)) ELSE st
Set(st, var, v) == [st EXCEPT !.loc[var] = v]

-----------------------------------------------------------------------------
(* Sending a message.                                                      *)

DefinerIn(methods, class, name) ==
    LET chain == Chain(class) IN chain[SelectInSeq(chain, LAMBDA a : <<a, name>> \in DOMAIN methods)]
DefinesIn(methods, class, name) == \E a \in ToSet(Chain(class)) : <<a, name>> \in DOMAIN methods
Definer(class, name) == DefinerIn(Methods, class, name)
Defines(class, name) == DefinesIn(Methods, class, name)
Singleton(class, name) == SingletonMethods[<<DefinerIn(SingletonMethods, class, name), name>>]
HasSingleton(class, name) == DefinesIn(SingletonMethods, class, name)

(* What the project, or a gem, gave a core class.  An operator is the      *)
(* class's own before any ancestor's.                                      *)
GivenBy(classes, name, x) == \E class \in classes : <<class, name>> \in x.patched \cup RbiCore
Given(kind, name, x) == kind \in DOMAIN Inventory /\ GivenBy(core_pollution_names[kind], name, x)

(* An open class may define anything but what every object has already.    *)
OpenFor(v, name) ==
    /\ v.k = "Instance" /\ ToSet(Chain(v.c)) \cap Opened # {}
    /\ ~Defines(v.c, name) /\ name \notin DOMAIN CoreMethods["Object"]

Answers(v, name, x) ==
    \/ name \in DOMAIN CoreMethods["Object"]
    \/ v.k = "Instance" /\ (Defines(v.c, name) \/ OpenFor(v, name))
    \/ v.k = "Class" /\ (name = "new" \/ HasSingleton(v.c, name))
    \/ KindOf(v) \in DOMAIN Inventory /\ (name \in Inventory[KindOf(v)] \/ Given(KindOf(v), name, x))

SigOf(v, name) ==
    CASE v.k = "Class" /\ HasSingleton(v.c, name) -> <<Singleton(v.c, name)>>
      [] v.k = "Class" /\ ~HasSingleton(v.c, name) /\ name = "new" /\ Defines(v.c, "initialize") -> <<Methods[<<Definer(v.c, "initialize"), "initialize">>]>>
      [] v.k = "Instance" /\ Defines(v.c, name) -> <<Methods[<<Definer(v.c, name), name>>]>>
      [] v.k \notin {"Class", "Instance"} -> core_method(KindOf(v), name)
      [] v.k = "Instance" /\ ~Defines(v.c, name) -> core_method("Object", name)
      [] OTHER -> None
Accepts(v, name, args) == LET m == SigOf(v, name) IN m = None \/ Len(args) \in m[1].min..m[1].max

(* MRI's operators, where the project left them alone.                     *)
Adds(v, name, args, x) ==
    LET a == args[1]
    IN  \/ v.k = a.k
        \/ GivenBy(core_own_names[KindOf(v)], name, x)
        \/ Given(KindOf(a), ConversionHook(v.k), x)

CoreResults(v, name, args, x) ==
    CASE name = "nil?" -> {Truth(v = NilValue)}
      [] name = "is_a?" -> {Truth(\/ v.k = "Instance" /\ args[1].k = "Class" /\ args[1].c \in ToSet(Chain(v.c))
                                  \/ args[1].k = "CoreClass" /\ args[1].c = KindOf(v))}
      [] name = "respond_to?" -> {Truth(Answers(v, args[1].c, x))}
      [] OTHER -> LET m == core_method(IF v.k \in {"Instance", "Class"} THEN "Object" ELSE KindOf(v), name)
                  IN  IF m = None \/ m[1].ret = "Unknown" THEN AnyValues
                      ELSE IF m[1].ret = "SelfSame" THEN {v}
                      ELSE IF m[1].ret = "Bool" THEN {True, False} ELSE {Atom(m[1].ret)}

RECURSIVE Exec(_, _, _)
RECURSIVE ExecAll(_, _, _)
ExecAll(ns, st, x) ==
    IF ns = <<>> THEN Ok(NilValue, st)
    ELSE Bind(Exec(Head(ns), st, x), LAMBDA r : IF Len(ns) = 1 THEN {r} ELSE ExecAll(Tail(ns), r.st, x))
ExecOption(o, st, x) == IF o = None THEN Ok(NilValue, st) ELSE ExecAll(o[1], st, x)

(* A project method: its results if nobody sees its body, else an          *)
(* execution of the body with a store of its own.                          *)
Invoke(v, m, st, x) ==
    IF ~m.known \/ m.ret # {}
    THEN {R("ok", w, st) : w \in m.results} \cup (IF m.known THEN {} ELSE Raised(st))
    ELSE IF x.fuel = 0 THEN {}
    ELSE LET inner == [x EXCEPT !.self = v, !.watch = FALSE, !.fuel = @ - 1]
             empty == [st EXCEPT !.loc = [u \in Vars |-> NilValue]]
         IN  {R(IF r.k = "raise" THEN "raise" ELSE "ok", r.v, st) : r \in ExecAll(m.body, empty, inner)}

Send(v, name, args, st, x) ==
    CASE name \in Arithmetic /\ v.k # "Instance" ->
             IF Adds(v, name, args, x) THEN Ok(v, st) ELSE Raised(st)
      [] v.k = "Class" /\ name = "new" -> Ok(IF v.c = "Struct" THEN v ELSE Instance(v.c), st)
      [] v.k = "Class" /\ name # "new" /\ HasSingleton(v.c, name) -> Invoke(v, Singleton(v.c, name), st, x)
      [] v.k = "Instance" /\ Defines(v.c, name) -> Invoke(v, Methods[<<Definer(v.c, name), name>>], st, x)
      [] name = "raise" /\ ~Defines(v.c, name) -> Raised(st)
      [] OTHER -> {R("ok", w, st) : w \in IF OpenFor(v, name) THEN {NilValue, v} ELSE CoreResults(v, name, args, x)}
Works(v, name, args, x) ==
    /\ Answers(v, name, x) /\ Accepts(v, name, args)
    /\ name \in Arithmetic /\ v.k # "Instance" => Adds(v, name, args, x)

-----------------------------------------------------------------------------
(* Blocks and loops.                                                       *)

(* One turn of the block: its parameters and the locals it introduces are  *)
(* its own; `next` ends the turn, `break` the call.                        *)
Turn(b, id, st, x) ==
    LET own == b.params \cup (Vars \ DOMAIN Fact(x, id, "after"))
        starts == {[st EXCEPT !.loc = [v \in Vars |-> IF v \in b.params THEN w ELSE IF v \in own THEN NilValue ELSE @[v]]]
                       : w \in AnyValues}
        back(r) == [r EXCEPT !.k = IF @ = "next" THEN "ok" ELSE @,
                             !.st.loc = [v \in Vars |-> IF v \in own THEN st.loc[v] ELSE @[v]]]
    IN  {back(r) : r \in UNION {ExecAll(b.body, s, x) : s \in starts}}

RECURSIVE Turns(_, _, _, _, _)
Turns(b, id, st, x, k) ==
    LET here == IF k > 0 THEN Arrive(st, x, id, "block") ELSE st
        done == IF k > 1 THEN Arrive(st, x, id, "after") ELSE st
    IN  Ok(NilValue, done)
        \cup IF k = MaxTurns THEN {}
             ELSE UNION {CASE r.k = "ok" -> Turns(b, id, r.st, x, k + 1)
                           [] r.k = "break" -> Ok(r.v, Arrive(r.st, x, id, "after"))
                           [] OTHER -> {r} : r \in Turn(b, id, here, x)}

(* Who runs the block: an iterator as often as it likes, `assert_raises`   *)
(* once, expecting a failure, a DSL method with a self of its choosing.    *)
RunBlock(n, v, st, x) ==
    LET b == n.block[1]
        rebound == IF n.name \in LexicalSelf /\ ~Given(KindOf(v), n.name, x) THEN {x.self}
                   ELSE {x.self} \cup {w \in AnyValues : w.k = "Instance"}
        once == UNION {Turn(b, n.id, st, [x EXCEPT !.self = w]) : w \in rebound}
    IN  IF n.block = None THEN Ok(NilValue, st)
        ELSE IF n.name = "assert_raises"
        THEN {R(IF r.k = "raise" THEN "ok" ELSE "raise", r.v, Arrive(r.st, x, n.id, "after")) : r \in once}
        ELSE UNION {Turns(b, n.id, st, [x EXCEPT !.self = w], 0) : w \in rebound}

(* The method Ruby runs is not the one the receiver's type names.          *)
Overridden(x, id, v, name) ==
    x.watch /\ \E t \in Fact(x, id, "recv") :
        /\ t.k = "Instance" /\ v.k = "Instance" /\ t.c \in ToSet(Chain(v.c)) /\ Defines(t.c, name)
        /\ Definer(t.c, name) # Definer(v.c, name)

RECURSIVE ExecArgs(_, _, _, _)
ExecArgs(ns, vs, st, x) ==          \* outcomes whose value is the list of arguments
    IF ns = <<>> THEN Ok(vs, st)
    ELSE Bind(Exec(Head(ns), st, x), LAMBDA r : ExecArgs(Tail(ns), Append(vs, r.v), r.st, x))

(* An object that `extend` opened is of an open class from then on.        *)
Extended(n, v, st) ==
    IF n.name = "extend" /\ v.k = "Instance" /\ n.recv # None /\ IsRead(n.recv[1]) /\ Opened # {}
    THEN Set(st, n.recv[1].var, Instance(CHOOSE o \in Opened : TRUE)) ELSE st

ExecCall(n, st, x) ==
    LET finish(v, a) ==
            LET sent == Extended(n, v, Saw(a.st, x, "send", n.id, v, TRUE))
                out(r) == LET s == Odd(r.st, Overridden(x, n.id, v, n.name) /\ ~Covers(Fact(x, n.id, "ty"), r.v))
                          IN  [r EXCEPT !.st = IF r.k = "ok" THEN Saw(s, x, "ty", n.id, r.v, TRUE) ELSE r.st]
            IN  IF Works(v, n.name, a.v, x)
                THEN Bind(RunBlock(n, v, sent, x), LAMBDA b : {out(r) : r \in Send(v, n.name, a.v, b.st, x)})
                ELSE Raised(Saw(a.st, x, "send", n.id, v, FALSE))
        recv == IF n.recv = None THEN Ok(x.self, st) ELSE Exec(n.recv[1], st, x)
    IN  Bind(recv, LAMBDA v : Bind(ExecArgs(n.args, <<>>, v.st, x), LAMBDA a : finish(v.v, a)))

(* The predicate is asked again before each turn.                          *)
RECURSIVE Loop(_, _, _, _)
Loop(n, st, x, k) ==
    LET asked == Exec(n.pred, IF k > 0 THEN Arrive(st, x, n.id, "head") ELSE st, x)
        sane(r) == IF k > 0 THEN [r EXCEPT !.st.odd = st.odd] ELSE r
        enter(r) == IF k > 0 THEN Arrive(sane(r).st, x, n.id, "body") ELSE r.st
        leave(r) == IF k > 1 THEN Arrive(sane(r).st, x, n.id, "after") ELSE sane(r).st
        turn(r) == UNION {CASE b.k \in {"ok", "next"} -> Loop(n, IF b.k = "ok" THEN b.st ELSE Arrive(b.st, x, n.id, "after"), x, k + 1)
                            [] b.k = "break" -> Ok(NilValue, Arrive(b.st, x, n.id, "after"))
                            [] OTHER -> {b} : b \in ExecAll(n.body, enter(r), x)}
    IN  Bind(asked, LAMBDA r : IF ~Truthy(r.v) THEN Ok(NilValue, leave(r))
                               ELSE IF k = MaxTurns THEN {} ELSE turn(r))

-----------------------------------------------------------------------------
(* The other constructs.                                                   *)

ExecWrite(n, st, x) ==
    LET old == st.loc[n.var]
        skip == (n.how = "||=" /\ Truthy(old)) \/ (n.how = "&&=" /\ ~Truthy(old))
        put(r) == IF n.how # "+=" THEN Ok(r.v, Set(r.st, n.var, r.v))
                  ELSE Bind(IF Works(old, "+", <<r.v>>, x) THEN Send(old, "+", <<r.v>>, r.st, x) ELSE Raised(r.st),
                            LAMBDA sum : Ok(sum.v, Set(sum.st, n.var, sum.v)))
    IN  IF skip THEN Ok(old, st) ELSE Bind(Exec(n.val, st, x), put)

RECURSIVE ExecWhens(_, _, _, _, _)
ExecWhens(ws, else, v, st, x) ==
    IF ws = <<>> THEN ExecOption(else, st, x)
    ELSE LET matches == \E const \in Head(ws).consts : Covers(NarrowedTo(const, TRUE), v)
             opaque == \E const \in Head(ws).consts : NarrowedTo(const, TRUE) = {}
         IN  (IF matches \/ opaque THEN ExecAll(Head(ws).body, st, x) ELSE {})
             \cup (IF ~matches THEN ExecWhens(Tail(ws), else, v, st, x) ELSE {})

(* A failing body goes to one of the rescues or past them all; `else` runs *)
(* when it did not fail; `ensure` runs on every way out and passes it on.  *)
ExecBegin(n, st, x) ==
    LET caught(r) == UNION {LET named == [r.st EXCEPT !.loc = [v \in Vars |-> IF v \in n.rescues[i].ref THEN Atom("Error") ELSE @[v]]]
                            IN  {IF o.k = "ok" THEN [o EXCEPT !.st = Odd(@, ~CoversAll(Fact(x, n.id, "fresh"), @.loc))] ELSE o
                                     : o \in ExecAll(n.rescues[i].body, Arrive(named, x, n.id, "rescue"), x)}
                                : i \in DOMAIN n.rescues}
        body == UNION {CASE r.k = "raise" -> caught(r) \cup (IF n.rescues = <<>> \/ Len(n.rescues) > 1 THEN {r} ELSE {})
                         [] r.k = "ok" /\ n.else # None -> ExecAll(n.else[1], r.st, x)
                         [] OTHER -> {r} : r \in ExecAll(n.body, st, x)}
        ensured(r) == LET s == IF r.k = "ok" THEN r.st ELSE Arrive(r.st, x, n.id, "ensure")
                      IN  {IF e.k = "ok" THEN [r EXCEPT !.st = e.st] ELSE e : e \in ExecOption(n.ensure, s, x)}
    IN  UNION {ensured(r) : r \in body}

Exec(n, st, x) ==
    CASE n.op = "lit" -> Ok(n.val, st)
      [] n.op = "const" -> Ok(IF n.const \in Classes THEN ClassObject(n.const)
                              ELSE [k |-> "CoreClass", c |-> IF n.const \in DOMAIN CoreConst THEN CoreConst[n.const] ELSE n.const], st)
      [] n.op = "read" -> Ok(st.loc[n.var], Saw(st, x, "ty", n.id, st.loc[n.var], TRUE))
      [] n.op = "write" -> ExecWrite(n, st, x)
      [] n.op = "call" -> ExecCall(n, st, x)
      [] n.op \in {"multi", "match"} ->
             Bind(Exec(IF n.op = "multi" THEN n.val ELSE n.subj, st, x),
                  LAMBDA r : {R("ok", r.v, [r.st EXCEPT !.loc = [v \in Vars |-> IF v \in n.vars THEN w ELSE @[v]]]) : w \in AnyValues})
      [] n.op \in {"if", "unless"} ->
             Bind(Exec(n.pred, st, x), LAMBDA r : IF Truthy(r.v) = (n.op = "if") THEN ExecAll(n.then, r.st, x)
                                                   ELSE ExecOption(n.else, r.st, x))
      [] n.op = "case" -> Bind(Exec(n.subj, st, x), LAMBDA r : ExecWhens(n.whens, n.else, r.v, r.st, x))
      [] n.op = "while" -> Loop(n, st, x, 0)
      [] n.op \in {"and", "or"} ->
             Bind(Exec(n.l, st, x), LAMBDA r : IF Truthy(r.v) = (n.op = "and") THEN Exec(n.r, r.st, x)
                                               ELSE Ok(r.v, Arrive(r.st, x, n.id, "after")))
      [] n.op = "begin" -> ExecBegin(n, st, x)
      [] n.op = "rescue" -> UNION {IF r.k = "raise" THEN Exec(n.r, Arrive(r.st, x, n.id, "rescue"), x) ELSE {r} : r \in Exec(n.l, st, x)}
      [] n.op = "return" -> Bind(ExecArgs(n.vals, <<>>, st, x),
                                 LAMBDA r : {R("return", CASE Len(r.v) = 0 -> NilValue [] Len(r.v) = 1 -> r.v[1]
                                                           [] OTHER -> Atom("Array"), r.st)})
      [] OTHER -> {R(n.op, NilValue, st)}
=============================================================================
