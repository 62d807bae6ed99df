---------------------------- MODULE ClassLookup ----------------------------
(***************************************************************************)
(* The queries of the class index (crates/itaruby_semantic/src/index.rs):  *)
(* constant resolution, linearisation, method lookup on the instance and   *)
(* the singleton track, `super`, and constant aliases.  Every query is a   *)
(* function of the merged index `ix` that ClassIndex builds.               *)
(*                                                                         *)
(* A constant path is the sequence of its segments (A::B is <<"A","B">>),  *)
(* a ClassId is the path it was interned for, and a constant as written is *)
(* [abs, path], abs standing for a leading `::`.  A nesting is the         *)
(* sequence of paths `Module.nesting` holds, outermost first.              *)
(***************************************************************************)
EXTENDS Naturals, Sequences, FiniteSets, SequencesExt

CONSTANTS
    KernelMethods,       \* names every object answers (core.rs)
    ClassObjectMethods,  \* names only a class object answers (core.rs)
    StdlibSingletons,    \* <<path, name>> of declarations/stdlib_singletons.txt
    StdlibConsts,        \* <<path, lib>> of declarations/stdlib_constants.txt
    AliasCap,            \* CONST_ALIAS_CHAIN_CAP
    StackDepth           \* nested `ancestors` calls the stack has room for

ASSUME LookupBounds == AliasCap \in Nat \ {0} /\ StackDepth \in Nat \ {0}

None == <<>>
Rel(path) == [abs |-> FALSE, path |-> path]
Abs(path) == [abs |-> TRUE, path |-> path]
NoName == Rel(<<>>)
NoAlias == [nesting |-> <<>>, target |-> NoName]

(* MethodLookup: the definition found and the class that carries it,      *)
(* a proven absence, or no conclusion.                                    *)
Found(at, site) == [kind |-> "Found", at |-> at, site |-> site]
NotFound == [kind |-> "NotFound", at |-> None, site |-> 0]
Inconclusive == [kind |-> "Inconclusive", at |-> None, site |-> 0]
Pass == [kind |-> "Pass", at |-> None, site |-> 0]

(* The answer of the first element of s that has one, or Pass.            *)
FirstAnswer(s, Answer(_)) ==
    LET i == SelectInSeq(s, LAMBDA x : Answer(x) # Pass)
    IN  IF i = 0 THEN Pass ELSE Answer(s[i])

Known(ix, path) == path \in DOMAIN ix.classes
ById(ix, path) == IF Known(ix, path) THEN path ELSE None
Open(c) == c.reason # "none"
\* An ancestor that blinds an instance lookup: an abstract stub does not.
Blinding(c) == c.reason \notin {"none", "AbstractRaise"}

-----------------------------------------------------------------------------
(* Constants and superclasses.                                             *)

(* Lookup that left the lexical scopes of an ambiguous class cannot fall   *)
(* through to an unrelated toplevel constant.                              *)
ConflictingScope(ix, nesting) ==
    nesting # <<>> /\ Last(nesting) \in ix.ambiguous

(* The innermost level of the nesting that declares the name, as one of    *)
(* `paths` other than `except` or, for a bare name, as a value constant    *)
(* that shadows whatever lies further out; 0 if no level does.             *)
LevelDeclaring(ix, nesting, path, paths, except) ==
    SelectLastInSeq(nesting, LAMBDA level :
        /\ level \o path # except
        /\ \/ level \o path \in paths
           \/ /\ Len(path) = 1 /\ Known(ix, level)
              /\ path[1] \in ix.classes[level].consts)

(* Lexical levels innermost first, then toplevel unless the scope's        *)
(* ancestry conflicts.                                                     *)
resolve_const(ix, nesting, name) ==
    LET i == LevelDeclaring(ix, nesting, name.path, DOMAIN ix.classes, None)
    IN  CASE name.abs -> ById(ix, name.path)
          [] ~name.abs /\ i # 0 -> ById(ix, nesting[i] \o name.path)
          [] ~name.abs /\ i = 0 /\ ConflictingScope(ix, nesting) -> None
          [] OTHER -> ById(ix, name.path)

(* The lexical half for a superclass header: a candidate that is the class *)
(* being defined is passed over, and there is no toplevel fallback.        *)
resolve_superclass_lexical(ix, id, nesting, name) ==
    LET i == LevelDeclaring(ix, nesting, name.path, DOMAIN ix.classes, id)
    IN  CASE name.abs -> IF name.path = id THEN None ELSE ById(ix, name.path)
          [] ~name.abs /\ i # 0 -> ById(ix, nesting[i] \o name.path)
          [] OTHER -> None

superclass_header_is_ambiguous(ix, id, header) ==
    /\ ~header.name.abs
    /\ header.nesting # <<>> /\ ConflictingScope(ix, Front(header.nesting))
    /\ resolve_superclass_lexical(ix, id, header.nesting, header.name) = None

-----------------------------------------------------------------------------
(* Linearisation: prepends reversed, self, includes reversed, superclass.  *)
(* Resolving a header that no lexical level answers asks for the ancestors *)
(* of the innermost enclosing class, with a visited set of their own:      *)
(* `depth` is what is left of the stack for such nested calls, and `deep`  *)
(* records that it ran out.                                                *)

RECURSIVE Linearize(_, _, _, _)
RECURSIVE AncestorsAt(_, _, _)

AncestorsAt(ix, id, depth) ==
    LET start == [chain |-> <<>>, seen |-> {}, complete |-> TRUE, deep |-> FALSE]
    IN  IF depth = 0 THEN [start EXCEPT !.complete = FALSE, !.deep = TRUE]
        ELSE Linearize(ix, id, start, depth)

(* resolve_superclass_header: lexical, then the nested names of the        *)
(* ancestors of the enclosing class, nearest first, then toplevel.         *)
HeaderAt(ix, id, header, depth) ==
    LET name == header.name
        lexical == resolve_superclass_lexical(ix, id, header.nesting, name)
        n == Len(header.nesting)
        enclosing == IF n < 2 THEN None ELSE ById(ix, header.nesting[n - 1])
        above == IF enclosing = None \/ lexical # None
                 THEN [chain |-> <<>>, deep |-> FALSE]
                 ELSE AncestorsAt(ix, enclosing, depth - 1)
        i == SelectInSeq(above.chain, LAMBDA a :
                 ~name.abs /\ a \o name.path # id /\ Known(ix, a \o name.path))
        to == CASE lexical # None -> lexical
                [] lexical = None /\ i # 0 -> above.chain[i] \o name.path
                [] lexical = None /\ i = 0 /\ ~name.abs /\ name.path # id -> ById(ix, name.path)
                [] OTHER -> None
    IN  [to |-> to, deep |-> above.deep]

Linearize(ix, id, st, depth) ==
    LET c == ix.classes[id]
        Follow(acc, target) == IF target = None THEN [acc EXCEPT !.complete = FALSE]
                               ELSE Linearize(ix, target, acc, depth)
        Mix(acc, name) == Follow(acc, resolve_const(ix, c.nesting, name))
        enter == [st EXCEPT !.seen = @ \cup {id}, !.complete = @ /\ id \notin ix.ambiguous]
        before == FoldLeft(Mix, enter, Reverse(c.prepends))
        own == [before EXCEPT !.chain = Append(@, id)]
        after == FoldLeft(Mix, own, Reverse(c.includes))
        sup == HeaderAt(ix, id, c.super, depth)
    IN  CASE id \in st.seen -> st       \* cycle or diamond: the first occurrence wins
          [] id \notin st.seen /\ c.super.name = NoName -> after
          [] OTHER -> Follow([after EXCEPT !.deep = @ \/ sup.deep], sup.to)

ancestors(ix, id) == AncestorsAt(ix, id, StackDepth)
Chain(ix, id) == ancestors(ix, id).chain
resolve_superclass_const(ix, id) == HeaderAt(ix, id, ix.classes[id].super, StackDepth).to

-----------------------------------------------------------------------------
(* Instance methods.                                                       *)

(* The proper descendants of a class along ix.subclasses.                  *)
RECURSIVE Below(_, _)
Below(ix, S) ==
    LET more == S \cup {e[2] : e \in {e \in ix.subclasses : e[1] \in S}}
    IN  IF more = S THEN S ELSE Below(ix, more)
Descendants(ix, id) == Below(ix, {e[2] : e \in {e \in ix.subclasses : e[1] = id}})

(* Could some descendant of the receiver define the name?  A member that   *)
(* answers every name, is open, or has a chain that is open, incomplete or *)
(* carries the name, silences the whole subtree.                           *)
abstract_family_defines(ix, id, name) ==
    \E kid \in Descendants(ix, id) :
        LET c == ix.classes[kid]
            anc == ancestors(ix, kid)
        IN  \/ {name, "method_missing", "respond_to_missing?"} \cap DOMAIN c.methods # {}
            \/ Blinding(c)
            \/ /\ ~Open(c)
               /\ \/ ~anc.complete
                  \/ \E a \in ToSet(anc.chain) :
                         name \in DOMAIN ix.classes[a].methods \/ Blinding(ix.classes[a])

descendant_defines(ix, id, name) ==
    \E kid \in Descendants(ix, id) :
        Open(ix.classes[kid]) \/ name \in DOMAIN ix.classes[kid].smethods

lookup_method(ix, id, name) ==
    LET anc == ancestors(ix, id)
        At(a) == LET c == ix.classes[a]
                 IN  CASE Blinding(c) -> Inconclusive
                       [] ~Blinding(c) /\ name \in DOMAIN c.methods -> Found(a, c.methods[name])
                       [] OTHER -> Pass
        hit == FirstAnswer(anc.chain, At)
    IN  CASE hit # Pass -> hit
          [] /\ hit = Pass /\ anc.complete /\ ~ix.classes[id].module
             /\ ~abstract_family_defines(ix, id, name) -> NotFound
          [] OTHER -> Inconclusive

-----------------------------------------------------------------------------
(* Singleton methods.                                                      *)

(* `extend M` puts M and M's ancestry on the class object.                 *)
extended_module_surface(ix, c, name) ==
    LET Through(ext) ==
            LET mid == resolve_const(ix, c.nesting, ext)
                anc == ancestors(ix, mid)
                At(a) == LET m == ix.classes[a]
                         IN  CASE Open(m) -> Inconclusive
                               [] ~Open(m) /\ name \in DOMAIN m.methods -> Found(a, m.methods[name])
                               [] OTHER -> Pass
                hit == FirstAnswer(anc.chain, At)
            IN  CASE mid = None -> Inconclusive
                  [] mid # None /\ hit # Pass -> hit
                  [] mid # None /\ hit = Pass /\ ~anc.complete -> Inconclusive
                  [] OTHER -> Pass
    IN  FirstAnswer(c.extends, Through)

(* What a class contributes to a class-object lookup; Skipped decides      *)
(* which open ancestors are passed over instead of ending it.              *)
SingletonAt(ix, a, name, Skipped(_)) ==
    LET c == ix.classes[a]
    IN  CASE Skipped(c) -> Pass
          [] ~Skipped(c) /\ Open(c) -> Inconclusive
          [] ~Skipped(c) /\ ~Open(c) /\ name \in DOMAIN c.smethods -> Found(a, c.smethods[name])
          [] OTHER -> extended_module_surface(ix, c, name)

(* A name some mixin of a reopened core class literally defines.           *)
core_mixin_definition(ix, core, mixins, name) ==
    LET Through(mixin) ==
            LET mid == resolve_const(ix, core.nesting, mixin)
                At(a) == IF name \in DOMAIN ix.classes[a].methods
                         THEN Found(a, ix.classes[a].methods[name]) ELSE Pass
            IN  IF mid = None THEN Pass ELSE FirstAnswer(Chain(ix, mid), At)
    IN  FirstAnswer(mixins, Through)

(* After its singleton chain a class object dispatches as an instance of   *)
(* Class (a module object: of Module), as far as the project reopens them. *)
core_object_instance_surface(ix, id, name) ==
    LET links == (IF ix.classes[id].module THEN <<>> ELSE <<"Class">>)
                 \o <<"Module", "Object", "Kernel", "BasicObject">>
        At(link) ==
            LET c == ix.classes[<<link>>]
                pre == core_mixin_definition(ix, c, Reverse(c.prepends), name)
            IN  CASE ~Known(ix, <<link>>) -> Pass
                  [] Known(ix, <<link>>) /\ pre # Pass -> pre
                  [] Known(ix, <<link>>) /\ pre = Pass /\ name \in DOMAIN c.methods
                        -> Found(<<link>>, c.methods[name])
                  [] OTHER -> core_mixin_definition(ix, c, Reverse(c.includes), name)
    IN  IF id \in ix.ambiguous THEN Inconclusive ELSE FirstAnswer(links, At)

lookup_singleton(ix, id, name) ==
    LET anc == ancestors(ix, id)
        own == FirstAnswer(anc.chain, LAMBDA a : SingletonAt(ix, a, name, LAMBDA c : FALSE))
        core == core_object_instance_surface(ix, id, name)
    IN  CASE own # Pass -> own
          [] own = Pass /\ core # Pass -> core
          [] own = Pass /\ core = Pass /\ anc.complete /\ ~descendant_defines(ix, id, name) -> NotFound
          [] OTHER -> Inconclusive

(* The `self.new` question: a curated declaration in the chain is skipped, *)
(* and an unresolved ancestor does not count against the conclusion.       *)
lookup_singleton_own(ix, id, name) ==
    LET own == FirstAnswer(Chain(ix, id), LAMBDA a :
                   SingletonAt(ix, a, name, LAMBDA c : c.reason = "DeclaredExternal"))
    IN  CASE own # Pass -> own
          [] own = Pass /\ (id \in ix.ambiguous \/ descendant_defines(ix, id, name)) -> Inconclusive
          [] OTHER -> NotFound

-----------------------------------------------------------------------------
(* The fallbacks that turn a NotFound into silence, and the lookups the    *)
(* checker calls.  `rbi` is the set of paths the client's sorbet/rbi names.*)

gem_reopens(ix, id, rbi) == ToSet(Chain(ix, id)) \cap rbi # {}

dynamic_mixin_covers(ix, targets, name) ==
    \E mid \in targets : name \in DOMAIN ix.classes[mid].methods

includes_singleton_mixin(ix, id) == <<"Singleton">> \in ToSet(Chain(ix, id))

singleton_surface_softens(ix, id, name) ==
    \/ <<id, name>> \in StdlibSingletons
    \/ name \in {"instance", "_load", "clone"} /\ includes_singleton_mixin(ix, id)
    \/ name \in ix.mocks
    \/ dynamic_mixin_covers(ix, ix.dynSingleton, name)

soften_not_found(ix, id, name, singleton, rbi) ==
    IF \/ gem_reopens(ix, id, rbi)
       \/ name \in KernelMethods \cup (IF singleton THEN ClassObjectMethods ELSE {})
       \/ singleton /\ singleton_surface_softens(ix, id, name)
       \/ ~singleton /\ dynamic_mixin_covers(ix, ix.dynInstance, name)
    THEN Inconclusive ELSE NotFound

lookup_method_rbi(ix, id, name, rbi) ==
    LET v == lookup_method(ix, id, name)
    IN  IF v = NotFound THEN soften_not_found(ix, id, name, FALSE, rbi) ELSE v

lookup_singleton_rbi(ix, id, name, rbi) ==
    LET v == lookup_singleton(ix, id, name)
    IN  IF v = NotFound THEN soften_not_found(ix, id, name, TRUE, rbi) ELSE v

(* Project classes that conclusively define the method: their whole chain  *)
(* is resolved and closed (build_methods_by_name is the filter's domain).  *)
closed_candidates_for(ix, name) ==
    {id \in DOMAIN ix.classes :
        /\ name \in DOMAIN ix.classes[id].methods
        /\ ancestors(ix, id).complete
        /\ \A a \in ToSet(Chain(ix, id)) : ~Open(ix.classes[a])}

-----------------------------------------------------------------------------
(* `super`: the chain continues right after the slot of the executing      *)
(* method's owner.                                                         *)

lookup_from(ix, anc, start, name, singleton) ==
    LET At(a) == LET c == ix.classes[a]
                     map == IF singleton THEN c.smethods ELSE c.methods
                 IN  CASE Open(c) -> Inconclusive
                       [] ~Open(c) /\ name \in DOMAIN map -> Found(a, map[name])
                       [] OTHER -> Pass
        hit == FirstAnswer(SubSeq(anc.chain, start, Len(anc.chain)), At)
    IN  CASE hit # Pass -> hit
          [] hit = Pass /\ anc.complete -> NotFound
          [] OTHER -> Inconclusive

(* Mutant: the search for `super` starts at the class itself.              *)
MutSlotAfter(anc, id) == SelectInSeq(anc.chain, LAMBDA a : a = id)

SlotAfter(anc, id) == 1 + SelectInSeq(anc.chain, LAMBDA a : a = id)

(* A module has no chain of its own: every class that mixes it in must     *)
(* agree on the definition that comes next (outcomes_agree).               *)
super_lookup_module(ix, module, name) ==
    LET consumers == {c \in DOMAIN ix.classes :
                         ~ix.classes[c].module /\ module \in ToSet(Chain(ix, c))}
        After(c) == lookup_from(ix, ancestors(ix, c), SlotAfter(ancestors(ix, c), module), name, FALSE)
        outcomes == {After(c) : c \in consumers}
        \* the same definition: a class has one of the name in a file (0: written nowhere)
        agree == \A v, w \in outcomes : v.kind = w.kind /\ v.site = w.site /\ (v.site # 0 => v.at = w.at)
    IN  IF outcomes = {} \/ ~agree THEN Inconclusive ELSE CHOOSE v \in outcomes : TRUE

super_lookup(ix, owner, singleton, name) ==
    LET anc == ancestors(ix, owner)
    IN  CASE ix.classes[owner].module /\ singleton -> Inconclusive
          [] ix.classes[owner].module /\ ~singleton -> super_lookup_module(ix, owner, name)
          [] OTHER -> lookup_from(ix, anc, SlotAfter(anc, owner), name, singleton)

-----------------------------------------------------------------------------
(* Constant aliases.                                                       *)

find_const_alias(ix, nesting, name) ==
    LET i == LevelDeclaring(ix, nesting, name.path, DOMAIN ix.aliases, None)
        Alias(path) == IF path \in DOMAIN ix.aliases THEN ix.aliases[path] ELSE NoAlias
    IN  CASE name.abs -> Alias(name.path)
          [] ~name.abs /\ i # 0 -> Alias(nesting[i] \o name.path)
          [] ~name.abs /\ i = 0 /\ ConflictingScope(ix, nesting) -> NoAlias
          [] OTHER -> Alias(name.path)

(* One traversal: `active` are the aliases being followed, `left` is the   *)
(* hop budget shared by every segment and right-hand side.                 *)
Resolution(kind, to, left) == [kind |-> kind, to |-> to, left |-> left]

RECURSIVE resolve_const_path(_, _, _, _, _)

follow_const_alias(ix, alias, active, left) ==
    IF alias \in active \/ left = 0 THEN Resolution("Ambiguous", None, left)
    ELSE resolve_const_path(ix, alias.nesting, alias.target, active \cup {alias}, left - 1)

resolve_const_segment(ix, nesting, name, owner, active, left) ==
    LET id == resolve_const(ix, nesting, name)
        alias == find_const_alias(ix, nesting, name)
        ambiguous == IF owner # None THEN owner \in ix.ambiguous
                     ELSE ConflictingScope(ix, nesting)
    IN  CASE id # None -> Resolution("Resolved", id, left)
          [] id = None /\ alias # NoAlias -> follow_const_alias(ix, alias, active, left)
          [] id = None /\ alias = NoAlias /\ ambiguous -> Resolution("Ambiguous", None, left)
          [] OTHER -> Resolution("Missing", None, left)

resolve_const_path(ix, nesting, name, active, left) ==
    LET whole == resolve_const(ix, nesting, name)
        scope == IF name.abs THEN <<>> ELSE nesting
        first == resolve_const_segment(ix, scope, Rel(<<name.path[1]>>), None, active, left)
        Next(acc, segment) ==
            IF acc.kind # "Resolved" THEN acc
            ELSE resolve_const_segment(ix, <<>>, Abs(Append(acc.to, segment)), acc.to, active, acc.left)
    IN  IF whole # None THEN Resolution("Resolved", whole, left)
        ELSE FoldLeft(Next, first, Tail(name.path))

const_resolution(ix, nesting, name) == resolve_const_path(ix, nesting, name, {}, AliasCap)

(* The class a constant names, through aliases; None unless it is proven.  *)
resolve_const_through_aliases(ix, nesting, name) ==
    LET r == const_resolution(ix, nesting, name)
    IN  IF r.kind = "Resolved" THEN r.to ELSE None

(* The spelling an alias chain ends in when it leaves the project.         *)
RECURSIVE ChaseFrom(_, _, _, _, _)
ChaseFrom(ix, nesting, name, visited, left) ==
    LET alias == find_const_alias(ix, nesting, name)
    IN  CASE name \in visited \/ left = 0 \/ alias = NoAlias -> None
          [] /\ name \notin visited /\ left # 0 /\ alias # NoAlias
             /\ resolve_const(ix, alias.nesting, alias.target) # None -> None
          [] /\ name \notin visited /\ left # 0 /\ alias # NoAlias
             /\ find_const_alias(ix, alias.nesting, alias.target) = NoAlias -> alias.target.path
          [] OTHER -> ChaseFrom(ix, alias.nesting, alias.target, visited \cup {name}, left - 1)

chase_alias_target_text(ix, nesting, name) == ChaseFrom(ix, nesting, name, {}, AliasCap)

(* The path a reference expands to when one of its segments is an alias    *)
(* whose target lies outside the project.                                  *)
expand_unresolved_alias_target(ix, nesting, name) ==
    LET scope == IF name.abs THEN <<>> ELSE nesting
        first == resolve_const(ix, scope, Rel(<<name.path[1]>>))
        \* the longest prefix of the path that stays inside the project
        inside == CHOOSE n \in 1..Len(name.path) :
                     /\ \A k \in 2..n : Known(ix, first \o SubSeq(name.path, 2, k))
                     /\ n = Len(name.path) \/ ~Known(ix, first \o SubSeq(name.path, 2, n + 1))
        target == IF first = None THEN chase_alias_target_text(ix, scope, Rel(<<name.path[1]>>))
                  ELSE chase_alias_target_text(ix, <<>>, Abs(first \o SubSeq(name.path, 2, inside + 1)))
        rest == SubSeq(name.path, IF first = None THEN 2 ELSE inside + 2, Len(name.path))
    IN  IF \/ first # None /\ inside = Len(name.path)
           \/ target = None
        THEN None ELSE target \o rest

-----------------------------------------------------------------------------
(* Does a constant exist?  Asked only to suppress E0104.                   *)

(* Mutant: constants are not inherited.                                    *)
MutConstInAncestors(ix, id, simple) == simple \in ix.classes[id].consts \/ Known(ix, Append(id, simple))

const_in_ancestors(ix, id, simple) ==
    \E a \in ToSet(Chain(ix, id)) :
        \/ a \in ix.ambiguous
        \/ simple \in ix.classes[a].consts
        \/ Known(ix, Append(a, simple))

stdlib_declares(ix, nesting, name) ==
    \E entry \in StdlibConsts :
        /\ entry[2] \in ix.requires
        /\ entry[1] \in {name.path} \cup {level \o name.path : level \in ToSet(nesting)}

const_exists(ix, nesting, name) ==
    LET simple == Last(name.path)
        qualified == name.abs \/ Len(name.path) > 1
        owner == IF Len(name.path) = 1 THEN None
                 ELSE resolve_const_through_aliases(ix, nesting, [name EXCEPT !.path = Front(@)])
        \* the bucket is keyed by the bare name, or by a path as written
        toplevel == name.path \in ix.toplevel /\ (name.abs => Len(name.path) = 1)
    IN  \/ const_resolution(ix, nesting, name).kind # "Missing"
        \/ qualified /\ owner # None /\ const_in_ancestors(ix, owner, simple)
        \/ qualified /\ owner = None /\ toplevel
        \/ /\ ~qualified
           /\ \/ \E level \in ToSet(nesting) :
                     Known(ix, level) /\ const_in_ancestors(ix, level, simple)
              \/ toplevel
        \/ stdlib_declares(ix, nesting, name)

-----------------------------------------------------------------------------
(* Where the client's RBI tree has to take over.                           *)

(* The names of the chain the project never resolved.                      *)
unresolved_ancestors(ix, id) ==
    LET reached == ToSet(Chain(ix, id))
        Mixins(a) == ToSet(ix.classes[a].prepends) \cup ToSet(ix.classes[a].includes)
    IN  UNION {{n.path : n \in {n \in Mixins(a) : resolve_const(ix, ix.classes[a].nesting, n) = None}}
               \cup (IF /\ ix.classes[a].super.name # NoName
                        /\ resolve_superclass_const(ix, a) = None
                     THEN {ix.classes[a].super.name.path} ELSE {}) : a \in reached}

external_ancestor_starts(ix, id) ==
    unresolved_ancestors(ix, id)
    \cup {a \in ToSet(Chain(ix, id)) : ix.classes[a].reason = "DeclaredExternal"}

project_ancestor_starts(ix, id) == Chain(ix, id)

external_lookup_starts(ix, nesting, name) ==
    IF Len(name.path) > 1 \/ name.abs
    THEN LET owner == IF Len(name.path) = 1 THEN None
                      ELSE resolve_const(ix, nesting, Rel(Front(name.path)))
         IN  IF owner = None THEN {} ELSE external_ancestor_starts(ix, owner)
    ELSE UNION {external_ancestor_starts(ix, level) : level \in ToSet(nesting) \cap DOMAIN ix.classes}

(* What blocks a conclusion on the chain of a class, for the census: an    *)
(* unresolved name survives every other fix, a declaration every project   *)
(* one.                                                                    *)
inconclusive_reason(ix, id) ==
    LET anc == ancestors(ix, id)
        reasons == {ix.classes[a].reason : a \in ToSet(anc.chain)} \ {"none"}
    IN  CASE ~anc.complete -> "Unresolved"
          [] anc.complete /\ "DeclaredExternal" \in reasons -> "Declared"
          [] anc.complete /\ "DeclaredExternal" \notin reasons /\ reasons # {} -> "Project"
          [] OTHER -> "none"

declared_by(ix, id, path) ==
    /\ ancestors(ix, id).complete
    /\ path \in ToSet(Chain(ix, id)) /\ ix.classes[path].reason = "DeclaredExternal"
=============================================================================
