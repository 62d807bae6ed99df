----------------------------- MODULE FlowTypes -----------------------------
(***************************************************************************)
(* The type lattice and the environments of the checker (types.rs, and the *)
(* helpers at the end of check.rs).  A type is the set of its members: a   *)
(* plain type is a singleton, a union has several, and Unknown stands      *)
(* alone.  The order of a union's members and the element types of arrays  *)
(* and hashes are left out: no verdict here depends on them.               *)
(***************************************************************************)
EXTENDS Integers, Sequences, FiniteSets, TLC

CONSTANTS
    Classes,      \* the project's classes
    Super,        \* [Classes -> Classes \cup {"none"}]
    CoreConst     \* core constants that name a receiver class -> its kind

Atom(kind) == [k |-> kind, c |-> "none"]
Instance(class) == [k |-> "Instance", c |-> class]
ClassObject(class) == [k |-> "Class", c |-> class]

Only(kind) == {Atom(kind)}
Unknown == Only("Unknown")
Nil == Only("Nil")

-----------------------------------------------------------------------------
(* Types.                                                                  *)

union(a, b) == IF Unknown \in {a, b} THEN Unknown ELSE a \cup b

(* Never turns Unknown into a concrete type, nor Nil into nothing.         *)
strip_nil(t) == IF t \ Nil = {} THEN Unknown ELSE t \ Nil

(* After `is_a?(tested)` failed: a closed union loses the member tested.   *)
eliminate_union_member(cur, tested) ==
    IF /\ Cardinality(cur) > 1
       /\ tested \in cur
    THEN cur \ {tested}
    ELSE cur

(* The type a class name proves in `is_a?` and `when`, if it proves one: a *)
(* project class shadows the core one of the same name.                    *)
NarrowedTo(const, closed) ==
    CASE const \in Classes -> {Instance(const)}
      [] const \notin Classes /\ closed /\ const \in DOMAIN CoreConst -> Only(CoreConst[const])
      [] OTHER -> {}

-----------------------------------------------------------------------------
(* Environments: functions from the locals seen so far to types.           *)

Override(new, env) ==
    [v \in DOMAIN new \cup DOMAIN env |-> IF v \in DOMAIN new THEN new[v] ELSE env[v]]
Insert(env, var, ty) == Override([v \in {var} |-> ty], env)
TypeIn(env, var, default) == IF var \in DOMAIN env THEN env[var] ELSE default

Others(v, base) == TypeIn(base, v, Nil)

(* After a branch: the union over the branches; a local missing from one   *)
(* keeps the value `base` has, or Nil.                                     *)
join_envs(base, branches) ==
    LET vars == UNION {DOMAIN branches[i] : i \in DOMAIN branches}
        parts(v) == {TypeIn(branches[i], v, Others(v, base)) : i \in DOMAIN branches}
        joined == [v \in vars |-> IF Unknown \in parts(v) THEN Unknown ELSE UNION parts(v)]
    IN  Override(joined, base)

(* After a loop: what the body wrote may have happened or not.             *)
MutMergeLoopEnv(base, body) == Override(body, base)
merge_loop_env(base, body) ==
    Override([v \in DOMAIN body |-> union(Others(v, base), body[v])], base)

(* After a block: only the locals of the enclosing scope are widened.      *)
spill_block_writes(outer, block) ==
    [v \in DOMAIN outer |-> union(outer[v], block[v])]

widen_env(env) == [v \in DOMAIN env |-> Unknown]

add_block_params(env, params) == Override([v \in params |-> Unknown], env)

-----------------------------------------------------------------------------
(* Narrowing: a fact [var, kind, ty] read off a predicate.                 *)

Narrow(var, kind, ty) == [var |-> var, kind |-> kind, ty |-> ty]
NoNarrow == Narrow("none", "none", {})

apply_narrow_true(env, nw) ==
    IF nw.kind = "IsA" THEN Insert(env, nw.var, nw.ty)
    ELSE IF nw.kind = "NilCheck" THEN Insert(env, nw.var, Nil)
    ELSE IF nw.kind = "Truthy" THEN Insert(env, nw.var, strip_nil(TypeIn(env, nw.var, Unknown)))
    ELSE env

apply_narrow_false(env, nw) ==
    IF nw.kind \in {"NilCheck", "NilCheckOrGuard"}
    THEN Insert(env, nw.var, strip_nil(TypeIn(env, nw.var, Unknown)))
    ELSE IF nw.kind = "IsA" /\ nw.var \in DOMAIN env
    THEN Insert(env, nw.var, eliminate_union_member(env[nw.var], CHOOSE t \in nw.ty : TRUE))
    ELSE env
=============================================================================
