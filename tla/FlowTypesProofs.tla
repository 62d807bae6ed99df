--------------------------- MODULE FlowTypesProofs ---------------------------
(***************************************************************************)
(* The type lattice and the environments of the checker, for every set of  *)
(* classes, environments and values: no step of the flow loses a value.    *)
(* A value is given by the members it belongs to, its class and what that  *)
(* inherits from; nil belongs to Nil alone.                                *)
(***************************************************************************)
EXTENDS FlowTypes, SequenceInduction, FiniteSetTheorems

\* A type admits a value; an environment fits the locals of a run.  A local the
\* environment does not know is nil.
Admits(ty, v) == ty = Unknown \/ \E m \in ty : m \in v
Fits(env, loc) == \A x \in DOMAIN loc : Admits(TypeIn(env, x, Nil), loc[x])

\* What a test says of a local when it holds, and when it does not.
NilMember == Atom("Nil")
Holds(nw, loc) ==
  /\ nw.kind = "IsA" => \E m \in nw.ty : m \in loc[nw.var]
  /\ nw.kind = "NilCheck" => loc[nw.var] = {NilMember}
  /\ nw.kind = "Truthy" => NilMember \notin loc[nw.var]
Fails(nw, loc) ==
  /\ nw.kind = "IsA" => \E m : nw.ty = {m} /\ m \notin loc[nw.var]
  /\ nw.kind \in {"NilCheck", "NilCheckOrGuard"} => NilMember \notin loc[nw.var]

-----------------------------------------------------------------------------
(* Types.                                                                  *)

\* A union admits what either side admits.
LEMMA UnionAdmits ==
  ASSUME NEW a, NEW b, NEW v, Admits(a, v) \/ Admits(b, v)
  PROVE  Admits(union(a, b), v)
BY DEF Admits, union

\* Stripping nil loses nothing but nil.
LEMMA StripNilAdmits ==
  ASSUME NEW ty, NEW v, Admits(ty, v), NilMember \notin v
  PROVE  Admits(strip_nil(ty), v)
<1>1. CASE ty = Unknown
  <2>1. Unknown \ Nil = Unknown /\ Unknown # {}
    BY DEF Unknown, Nil, Only, Atom
  <2> QED BY <1>1, <2>1 DEF strip_nil, Admits
<1>2. CASE ty # Unknown
  <2>1. PICK m \in ty : m \in v
    BY <1>2 DEF Admits
  <2>2. m \in ty \ Nil
    BY <2>1 DEF Nil, Only, NilMember
  <2> QED BY <2>1, <2>2 DEF strip_nil, Admits
<1> QED BY <1>1, <1>2

\* A failed is_a? takes nothing out of a union but the class tested.
LEMMA EliminationAdmits ==
  ASSUME NEW ty, NEW v, NEW m, Admits(ty, v), m \notin v
  PROVE  Admits(eliminate_union_member(ty, m), v)
<1>1. CASE ty = Unknown
  <2>1. Cardinality(Unknown) = 1
    BY FS_Singleton DEF Unknown, Only
  <2> QED BY <1>1, <2>1 DEF eliminate_union_member, Admits
<1>2. CASE ty # Unknown
  BY <1>2 DEF eliminate_union_member, Admits
<1> QED BY <1>1, <1>2

\* A type is Unknown or a set of members without it.
Normal(ty) == ty = Unknown \/ Atom("Unknown") \notin ty

\* JoinIsFold: what join_envs makes of the types a local has in the branches is
\* what the code computes, a fold of Ty::union over them in any order, Unknown
\* absorbing; and the result is again Unknown or free of it.
THEOREM JoinIsFold ==
  ASSUME NEW n \in Nat \ {0}, NEW ts, NEW acc,
         \A i \in 1..n : Normal(ts[i]),
         acc[1] = ts[1], \A i \in 2..n : acc[i] = union(acc[i - 1], ts[i])
  PROVE  LET parts == {ts[i] : i \in 1..n}
         IN  /\ acc[n] = IF Unknown \in parts THEN Unknown ELSE UNION parts
             /\ Normal(acc[n])
<1> DEFINE part(k) == {ts[i] : i \in 1..k}
           joined(k) == IF Unknown \in part(k) THEN Unknown ELSE UNION part(k)
           G == {k \in 0..n : k # 0 => acc[k] = joined(k)}
<1>1. ASSUME NEW k \in 1..n PROVE Normal(joined(k))
  <2>1. \A i \in 1..k : i \in 1..n
    OBVIOUS
  <2>2. \A ty \in part(k) : Normal(ty)
    BY <2>1
  <2> HIDE DEF part
  <2> QED BY <2>2 DEF Normal
<1>2. 0 \in G
  OBVIOUS
<1>3. ASSUME NEW k \in 1..n, k - 1 \in G PROVE k \in G
  <2>1. CASE k = 1
    <3>1. 1..1 = {1}
      OBVIOUS
    <3>2. part(1) = {ts[1]}
      BY <3>1
    <3> HIDE DEF part
    <3>3. joined(1) = ts[1]
      BY <3>2
    <3> QED BY <2>1, <3>3
  <2>2. CASE k # 1
    <3>1. k \in 2..n /\ k - 1 \in 1..n /\ k - 1 # 0 /\ k \in 0..n /\ 1..k = (1..(k - 1)) \cup {k}
      BY <2>2
    <3>2. part(k) = part(k - 1) \cup {ts[k]}
      BY <3>1
    <3>3. acc[k] = union(joined(k - 1), ts[k])
      BY <1>3, <3>1
    <3>4. Normal(joined(k - 1))
      BY <1>1, <3>1
    <3> HIDE DEF part
    <3>5. union(joined(k - 1), ts[k]) = joined(k)
      <4>1. CASE Unknown \in part(k - 1)
        BY <3>2, <4>1 DEF union
      <4>2. CASE Unknown \notin part(k - 1) /\ ts[k] = Unknown
        BY <3>2, <4>2 DEF union
      <4>3. CASE Unknown \notin part(k - 1) /\ ts[k] # Unknown
        <5>1. UNION part(k - 1) # Unknown
          <6>1. k - 1 \in 1..n /\ \A i \in 1..(k - 1) : i \in 1..n
            BY <3>1
          <6>2. \A ty \in part(k - 1) : Normal(ty)
            BY <6>1 DEF part
          <6>3. Atom("Unknown") \notin UNION part(k - 1)
            BY <4>3, <6>2 DEF Normal
          <6> QED BY <6>3 DEF Unknown, Only
        <5>2. UNION part(k) = (UNION part(k - 1)) \cup ts[k]
          BY <3>2
        <5>3. Unknown \notin part(k)
          BY <3>2, <4>3
        <5> QED BY <4>3, <5>1, <5>2, <5>3 DEF union
      <4> QED BY <4>1, <4>2, <4>3
    <3> QED BY <3>1, <3>3, <3>5
  <2> QED BY <2>1, <2>2
<1>4. n \in Nat /\ n \in 0..n /\ n \in 1..n
  OBVIOUS
<1> HIDE DEF G
<1>5. n \in G
  BY <1>2, <1>3, <1>4, UpTo, Zenon
<1> USE DEF G
<1>6. acc[n] = joined(n)
  BY <1>4, <1>5
<1> QED BY <1>1, <1>4, <1>6

-----------------------------------------------------------------------------
(* Environments.                                                           *)

\* What an inserted local, or another one, is bound to.
LEMMA Inserted ==
  ASSUME NEW env, NEW x, NEW ty, NEW y, NEW default
  PROVE  TypeIn(Insert(env, x, ty), y, default) = IF y = x THEN ty ELSE TypeIn(env, y, default)
BY DEF TypeIn, Insert, Override

\* An environment fits after a local was bound to a type that admits its value.
LEMMA InsertFits ==
  ASSUME NEW env, NEW loc, NEW x, NEW ty, Fits(env, loc), Admits(ty, loc[x])
  PROVE  Fits(Insert(env, x, ty), loc)
<1> SUFFICES ASSUME NEW y \in DOMAIN loc PROVE Admits(TypeIn(Insert(env, x, ty), y, Nil), loc[y])
  BY DEF Fits
<1>1. TypeIn(Insert(env, x, ty), y, Nil) = IF y = x THEN ty ELSE TypeIn(env, y, Nil)
  BY Inserted
<1>2. Admits(TypeIn(env, y, Nil), loc[y])
  BY DEF Fits
<1> QED BY <1>1, <1>2

\* The types a local has at the end of the branches.
Parts(base, branches, x) == {TypeIn(branches[i], x, Others(x, base)) : i \in DOMAIN branches}
\* What a local is bound to after the branches.
LEMMA Joined ==
  ASSUME NEW base, NEW branches, NEW x
  PROVE  TypeIn(join_envs(base, branches), x, Nil) =
           IF x \in UNION {DOMAIN branches[i] : i \in DOMAIN branches}
           THEN IF Unknown \in Parts(base, branches, x) THEN Unknown ELSE UNION Parts(base, branches, x)
           ELSE TypeIn(base, x, Nil)
<1> DEFINE vars == UNION {DOMAIN branches[i] : i \in DOMAIN branches}
           ty(v) == IF Unknown \in Parts(base, branches, v) THEN Unknown ELSE UNION Parts(base, branches, v)
           joined == [v \in vars |-> ty(v)]
<1>1. join_envs(base, branches) = Override(joined, base)
  BY DEF join_envs, Parts
<1>2. DOMAIN joined = vars /\ (x \in vars => joined[x] = ty(x))
  OBVIOUS
<1> HIDE DEF joined, vars, ty
<1>3. /\ DOMAIN Override(joined, base) = vars \cup DOMAIN base
      /\ x \in vars => Override(joined, base)[x] = joined[x]
      /\ x \in DOMAIN base /\ x \notin vars => Override(joined, base)[x] = base[x]
  BY <1>2 DEF Override
<1>4. TypeIn(Override(joined, base), x, Nil) = IF x \in vars THEN ty(x) ELSE TypeIn(base, x, Nil)
  BY <1>2, <1>3 DEF TypeIn
<1> QED BY <1>1, <1>4 DEF vars, ty

\* BranchesFit: after an if or a case the environment fits the locals of a run,
\* whichever branch it took; the branch knows every local that was known before,
\* since it is walked from a clone of the base (join_envs).  A rescue is walked
\* from an older environment and need not.
THEOREM BranchesFit ==
  ASSUME NEW base, NEW branches, NEW i \in DOMAIN branches, NEW loc,
         DOMAIN base \subseteq DOMAIN branches[i], Fits(branches[i], loc)
  PROVE  Fits(join_envs(base, branches), loc)
<1> SUFFICES ASSUME NEW x \in DOMAIN loc PROVE Admits(TypeIn(join_envs(base, branches), x, Nil), loc[x])
  BY DEF Fits
<1> DEFINE vars == UNION {DOMAIN branches[j] : j \in DOMAIN branches}
           part == TypeIn(branches[i], x, Others(x, base))
<1>1. Admits(TypeIn(branches[i], x, Nil), loc[x])
  BY DEF Fits
<1>2. part = TypeIn(branches[i], x, Nil)
  BY DEF TypeIn, Others
<1>3. part \in Parts(base, branches, x)
  BY DEF Parts
<1>4. CASE x \in vars
  <2>1. CASE Unknown \in Parts(base, branches, x)
    BY <1>4, <2>1, Joined DEF Admits
  <2>2. CASE Unknown \notin Parts(base, branches, x)
    <3>1. PICK m \in part : m \in loc[x]
      BY <1>1, <1>2, <1>3, <2>2 DEF Admits
    <3>2. m \in UNION Parts(base, branches, x)
      BY <1>3, <3>1
    <3> QED BY <1>4, <2>2, <3>1, <3>2, Joined DEF Admits
  <2> QED BY <2>1, <2>2
<1>5. CASE x \notin vars
  <2>1. x \notin DOMAIN branches[i] /\ x \notin DOMAIN base
    BY <1>5
  <2>2. TypeIn(branches[i], x, Nil) = TypeIn(base, x, Nil)
    BY <2>1 DEF TypeIn
  <2> QED BY <1>1, <1>5, <2>2, Joined
<1> QED BY <1>4, <1>5

\* What a local is bound to after a loop and after a block.
LEMMA LoopBinds ==
  ASSUME NEW base, NEW body, NEW x
  PROVE  TypeIn(merge_loop_env(base, body), x, Nil) =
           IF x \in DOMAIN body THEN union(Others(x, base), body[x]) ELSE TypeIn(base, x, Nil)
BY DEF merge_loop_env, TypeIn, Override

\* LoopsFit: after a loop the environment fits the locals of a run that skipped
\* the body, and of one that left the body with the locals the walk of it
\* expects; after a block the same for the locals around it (merge_loop_env,
\* spill_block_writes).
THEOREM LoopsFit ==
  ASSUME NEW base, NEW body, NEW loc, DOMAIN base \subseteq DOMAIN body, Fits(base, loc) \/ Fits(body, loc)
  PROVE  /\ Fits(merge_loop_env(base, body), loc)
         /\ DOMAIN loc \subseteq DOMAIN base => Fits(spill_block_writes(base, body), loc)
<1>1. ASSUME NEW x \in DOMAIN loc
      PROVE  /\ Admits(TypeIn(merge_loop_env(base, body), x, Nil), loc[x])
             /\ x \in DOMAIN base => Admits(TypeIn(spill_block_writes(base, body), x, Nil), loc[x])
  <2>1. Admits(TypeIn(base, x, Nil), loc[x]) \/ Admits(TypeIn(body, x, Nil), loc[x])
    BY DEF Fits
  <2>2. CASE x \in DOMAIN body
    <3>1. TypeIn(body, x, Nil) = body[x] /\ Others(x, base) = TypeIn(base, x, Nil)
      BY <2>2 DEF TypeIn, Others
    <3>2. Admits(union(Others(x, base), body[x]), loc[x])
      BY <2>1, <3>1, UnionAdmits
    <3>3. x \in DOMAIN base => TypeIn(spill_block_writes(base, body), x, Nil) = union(Others(x, base), body[x])
      BY DEF spill_block_writes, TypeIn, Others
    <3> QED BY <2>2, <3>2, <3>3, LoopBinds
  <2>3. CASE x \notin DOMAIN body
    <3>1. x \notin DOMAIN base /\ TypeIn(body, x, Nil) = TypeIn(base, x, Nil)
      BY <2>3 DEF TypeIn
    <3> QED BY <2>1, <2>3, <3>1, LoopBinds
  <2> QED BY <2>2, <2>3
<1> QED BY <1>1 DEF Fits

\* NarrowingFits: an environment that fits before a test fits in the arm taken,
\* narrowed by what the test says there: a value is never typed away by is_a?,
\* nil?, a bare read or a nil guard, also in a union (apply_narrow_true,
\* apply_narrow_false, strip_nil, eliminate_union_member).
THEOREM NarrowingFits ==
  ASSUME NEW env, NEW loc, NEW nw, nw.var \in DOMAIN loc, Fits(env, loc)
  PROVE  /\ Holds(nw, loc) => Fits(apply_narrow_true(env, nw), loc)
         /\ Fails(nw, loc) => Fits(apply_narrow_false(env, nw), loc)
<1> DEFINE x == nw.var
           cur == TypeIn(env, x, Unknown)
<1>1. Admits(cur, loc[x])
  BY DEF Fits, TypeIn, Admits
<1>2. ASSUME NilMember \notin loc[x] PROVE Fits(Insert(env, x, strip_nil(cur)), loc)
  BY <1>1, <1>2, StripNilAdmits, InsertFits
<1>3. ASSUME Holds(nw, loc) PROVE Fits(apply_narrow_true(env, nw), loc)
  <2>1. CASE nw.kind = "IsA"
    <3>1. Admits(nw.ty, loc[x])
      BY <1>3, <2>1 DEF Holds, Admits
    <3>2. apply_narrow_true(env, nw) = Insert(env, x, nw.ty)
      BY <2>1 DEF apply_narrow_true
    <3> QED BY <3>1, <3>2, InsertFits
  <2>2. CASE nw.kind = "NilCheck"
    <3>1. Admits(Nil, loc[x])
      BY <1>3, <2>2 DEF Holds, Admits, Nil, Only, NilMember
    <3>2. apply_narrow_true(env, nw) = Insert(env, x, Nil)
      BY <2>2 DEF apply_narrow_true
    <3> QED BY <3>1, <3>2, InsertFits
  <2>3. CASE nw.kind = "Truthy"
    <3>1. apply_narrow_true(env, nw) = Insert(env, x, strip_nil(cur))
      BY <2>3 DEF apply_narrow_true
    <3> QED BY <1>2, <1>3, <2>3, <3>1 DEF Holds
  <2>4. CASE nw.kind \notin {"IsA", "NilCheck", "Truthy"}
    BY <2>4 DEF apply_narrow_true
  <2> QED BY <2>1, <2>2, <2>3, <2>4
<1>4. ASSUME Fails(nw, loc) PROVE Fits(apply_narrow_false(env, nw), loc)
  <2>1. CASE nw.kind \in {"NilCheck", "NilCheckOrGuard"}
    <3>1. apply_narrow_false(env, nw) = Insert(env, x, strip_nil(cur))
      BY <2>1 DEF apply_narrow_false
    <3> QED BY <1>2, <1>4, <2>1, <3>1 DEF Fails
  <2>2. CASE nw.kind = "IsA" /\ x \in DOMAIN env
    <3>1. PICK m : nw.ty = {m} /\ m \notin loc[x]
      BY <1>4, <2>2 DEF Fails
    <3>2. apply_narrow_false(env, nw) = Insert(env, x, eliminate_union_member(env[x], m))
      <4>1. (CHOOSE ty \in {m} : TRUE) = m
        OBVIOUS
      <4> QED BY <2>2, <3>1, <4>1 DEF apply_narrow_false
    <3>3. cur = env[x]
      BY <2>2 DEF TypeIn
    <3>4. Admits(eliminate_union_member(env[x], m), loc[x])
      BY <1>1, <3>1, <3>3, EliminationAdmits
    <3> QED BY <3>2, <3>4, InsertFits
  <2>3. CASE nw.kind \notin {"NilCheck", "NilCheckOrGuard"} /\ ~(nw.kind = "IsA" /\ x \in DOMAIN env)
    BY <2>3 DEF apply_narrow_false
  <2> QED BY <2>1, <2>2, <2>3
<1> QED BY <1>3, <1>4
=============================================================================
