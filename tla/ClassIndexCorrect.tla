------------------------- MODULE ClassIndexCorrect -------------------------
(***************************************************************************)
(* What the class index promises the checker, stated against what Ruby     *)
(* does with the same files (RubyReference).  A diagnostic is only ever    *)
(* drawn from a proven absence, so the promises are one-sided: the index   *)
(* may fail to conclude, it may not conclude what is false.                *)
(***************************************************************************)
EXTENDS ClassIndex, RubyReference

CONSTANTS
    Queries,      \* method names the checker asks for
    ConstReads,   \* constants it asks for: [nesting, name]
    Operator, Hook, CoreClass,  \* a core operator, a conversion hook, their class
    \* the queries under test: ignored_aware_index, lookup_method, lookup_method_rbi,
    \* lookup_singleton_rbi, super_lookup and check_const_ref
    AwareIndex(_, _), Lookup(_, _, _), LookupInstance(_, _, _, _), LookupSingleton(_, _, _, _),
    SuperLookup(_, _, _, _), CheckConst(_, _, _, _),
    \* and what Ruby does: MRO, RubyResolve, Own, RubyAnswers and CoreGains
    Order(_, _, _), Resolve(_, _, _, _), Owns(_, _, _), Answers(_, _, _), Gains(_, _)

WorldOf(names) == World([i \in DOMAIN names |-> Source[names[i]]])
Loaded == WorldOf(files \o ignored)

(* The modules whose literal definitions are read and whose openness is    *)
(* not: those mixed in where only the run knows, and those of the classes  *)
(* behind every class object.                                              *)
ReadByName(w) ==
    MixedAnywhere(w, FALSE) \cup MixedAnywhere(w, TRUE)
    \cup UNION {ToSet(Order(w, <<o>>, Fuel)) : o \in ClassObjectChain}

(* The ignored files reopen classes of the project and add none of their   *)
(* own, nor methods to a module read by name only.  (A module or subclass  *)
(* that only an ignored file writes is in no class table: see the README.) *)
OnlyReopened == Written(WorldOf(ignored)) \subseteq Written(WorldOf(files)) \ ReadByName(Loaded)

(* The classes an object typed as `id` can have: the subtree along headers *)
(* that name one class, and name it directly.  (Headers that disagree are  *)
(* a TypeError in Ruby; a header written through a constant alias puts no  *)
(* edge in the index: see the README.)                                     *)
Direct(w, k) ==
    LET hs == {e \in ToSet(w) : e.n.kind = "class" /\ e.owner = k /\ e.n.super # NoName}
    IN  /\ \A e \in hs : e.n.super.path \notin Values(w)
        /\ Cardinality({Resolve(w, e.nesting, e.n.super, Fuel) : e \in hs}) <= 1
Family(w, id) == {k \in Written(w) : \/ k = id
                                     \/ /\ k \notin ModulesOf(w)
                                        /\ id \in ToSet(Order(w, k, Fuel))
                                        /\ \A a \in ToSet(Order(w, k, Fuel)) : Direct(w, a)}

(* A class of a locked gem, or one the project knows by a declaration, is  *)
(* written elsewhere and may define anything; a Rails model answers to the *)
(* columns of its table.                                                   *)
Elsewhere(w, k) ==
    IF \E a \in ToSet(Order(w, k, Fuel)) : NamespaceKey[a[1]] \in LockKeys \/ \E d \in DeclaredPaths : d.path = a
    THEN Anything ELSE {}
Columns(w, k) ==
    LET h == Header(w, k)
    IN  IF h # None /\ h[1].n.super = Rel(<<"ApplicationRecord">>) /\ TableOf[Last(k)] \in DOMAIN SchemaTables
        THEN SchemaTables[TableOf[Last(k)]] ELSE {}

(* E0101/E0102: when the index proves a method absent on an instance, no   *)
(* object of the class, or of a class below it, answers to it, whatever    *)
(* bodies, hooks, mixins and ignored files the project holds; the same for *)
(* the class object.                                                       *)
AbsenceIsProven ==
    LET w == Loaded
        absent(id) == {m \in Queries : LookupInstance(index, id, m, {}) = NotFound}
        absentSingle(id) == {m \in Queries : LookupSingleton(index, id, m, {}) = NotFound}
        Lacks(k, single, names) == names # {} => (names \cup Anything) \cap (Answers(w, k, single) \cup Elsewhere(w, k)) = {}
    IN  OnlyReopened => \A id \in DOMAIN index.classes :
            /\ Lacks(id, TRUE, absentSingle(id))
            /\ \A k \in Family(w, id) : Lacks(k, FALSE, absent(id))

(* No module is mixed in at two places of the chain.  (Ruby skips a module *)
(* the superclass already has; the index keeps its first occurrence: see   *)
(* the README.)                                                            *)
NoDiamond(w, chain) ==
    LET Edges(a) == Mixins(w, a, "include", FALSE) \o Mixins(w, a, "prepend", FALSE)
        all == FlattenSeq([i \in DOMAIN chain |-> Edges(chain[i])])
    IN  \A i, j \in DOMAIN all :
            Resolve(w, all[i].nesting, all[i].name, Fuel) = Resolve(w, all[j].nesting, all[j].name, Fuel) => i = j

(* No module is mixed into a singleton class by name.  (The index runs its *)
(* `extended` hook there, which Ruby does not: see the README.)            *)
NoSingletonMixin(w) ==
    \A e \in ToSet(w) : ~(/\ e.n.kind = "call" /\ mixin_track(e.n.name) # "none"
                          /\ e.single \/ e.n.recv = "singleton")

(* E0103 and the types: a definition the index finds, or finds next for    *)
(* `super`, is the one Ruby's own search order reaches first.              *)
FoundIsFirst ==
    LET w == Loaded
        Fair(chain) == OnlyReopened /\ NoDiamond(w, chain) /\ NoSingletonMixin(w) /\ \A a \in ToSet(chain) : Direct(w, a)
        After(chain, id) == SubSeq(chain, 1 + SelectInSeq(chain, LAMBDA a : a = id), Len(chain))
    IN  \A id \in DOMAIN index.classes :
            LET chain == Order(w, id, Fuel)
                own == [a \in ToSet(chain) |-> Owns(w, a, FALSE) \cup Columns(w, a)]
            IN  Fair(chain) => \A m \in Queries :
                    LET found == Lookup(index, id, m)
                        next == SuperLookup(index, id, FALSE, m)
                    IN  /\ found.kind = "Found" => FirstToAnswer(own, chain, m) = found.at
                        /\ next.kind = "Found" /\ ~index.classes[id].module =>
                               FirstToAnswer(own, After(chain, id), m) = next.at

(* E0104: a constant reported as unresolved is one Ruby does not find      *)
(* either, through lexical scopes, inheritance, aliases and the files that *)
(* --ignore keeps out of the project.                                      *)
UnresolvedIsMissing ==
    LET w == Loaded
        wide == AwareIndex(files, ignored)
    IN  \A r \in ConstReads :
            /\ r.nesting = <<>> \/ Last(r.nesting) \in Written(w)
            /\ \A level \in ToSet(r.nesting) : \A a \in ToSet(Order(w, level, Fuel)) : Direct(w, a)
            /\ CheckConst(index, wide, r.nesting, r.name)
            => Resolve(w, r.nesting, r.name, Fuel) = None

(* reconcile_superclasses: which headers conflict, and who is below whom,  *)
(* does not depend on the order in which discovery listed the files.       *)
HeaderOrderFree ==
    LET other == Index(Reverse(files), ignored)
    IN  other.ambiguous = index.ambiguous /\ other.subclasses = index.subclasses

(* E0108: while the index holds a core operator for MRI's own, nothing the *)
(* files do redefines it or gives the argument a conversion hook.  (Class  *)
(* bodies of ignored files are not read for this: see the README.)         *)
PollutionIsSeen ==
    LET w == Loaded
        hidden == Written(WorldOf(ignored))
        core == <<CoreClass>>
        family == {core, <<"Object">>, <<"Kernel">>}
    IN  hidden = {} /\ core_ops_unpolluted(index, {core}, Operator, family, {Hook}) =>
            /\ {Operator, "*"} \cap Gains(w, core) = {}
            /\ \A c \in family : ({Hook, "*"} \cup MissingNames) \cap Gains(w, c) = {}

(* A file that --ignore matches may silence a diagnostic of the project,   *)
(* it never causes one: no absence and no intact operator is concluded     *)
(* with it that was not concluded without it.                              *)
IgnoredOnlySuppresses ==
    [][ignored' # ignored =>
        /\ \A id \in DOMAIN index.classes, m \in Queries, single \in BOOLEAN :
               LET Absent(ix) == NotFound = IF single THEN LookupSingleton(ix, id, m, {})
                                            ELSE LookupInstance(ix, id, m, {})
               IN  Absent(index') => Absent(index)
        /\ core_ops_unpolluted(index', {<<CoreClass>>}, Operator, {<<CoreClass>>}, {Hook}) =>
               core_ops_unpolluted(index, {<<CoreClass>>}, Operator, {<<CoreClass>>}, {Hook})]_vars
=============================================================================
