----------------------------- MODULE ClassIndex -----------------------------
(***************************************************************************)
(* build_index (crates/itaruby_semantic/src/index.rs): the merge of every  *)
(* file's definitions into one class table and the passes that run over    *)
(* it, in their order.  A file contributes the FileDefs that DefScan makes *)
(* of its text; its fragments are the class and module bodies it writes.   *)
(* The index is a salsa query: it is a function of the project files, the  *)
(* ignored files, the lock file and the schema, recomputed when one of     *)
(* them changes.                                                           *)
(***************************************************************************)
EXTENDS DefScan

CONSTANTS
    Source,         \* the texts of the instance: name -> statements
    Texts,          \* what the files of a project can hold
    IgnoredTexts,   \* what the files that --ignore matches can hold
    MaxFiles,       \* bound on the files of both kinds
    MaxIgnored,     \* bound on the ignored ones
    DeclaredPaths,  \* curated declarations: set of [path, module]
    LockKeys,       \* GemfileLockNamespaces: the keys of the locked gems
    NamespaceKey,   \* gem_namespace_key of a top-level segment
    SchemaTables,   \* db/schema.rb: table -> attribute methods
    TableOf,        \* derive_table_name of a simple class name
    Index(_, _)     \* the index the checker is given: project_index

VARIABLES files, ignored, index

vars == <<files, ignored, index>>

NoSuper == [name |-> NoName, nesting |-> <<>>]
Unattached == [x \in {} |-> 0]

FreshClass == [module |-> FALSE, reason |-> "none", nesting |-> <<>>, super |-> NoSuper,
               headers |-> <<>>, includes |-> <<>>, prepends |-> <<>>, extends |-> <<>>,
               methods |-> Unattached, smethods |-> Unattached, consts |-> {},
               hookInstance |-> {}, hookSingleton |-> {}, hookOpaque |-> FALSE, table |-> "none"]

EmptyIndex == [classes |-> Unattached, ambiguous |-> {}, aliases |-> Unattached,
               toplevel |-> {}, requires |-> {}, subclasses |-> {},
               dynInstance |-> {}, dynSingleton |-> {}, mocks |-> {},
               coreMixin |-> FALSE, refinedCore |-> {}, refinedUnknown |-> FALSE,
               evalCore |-> {}, evalUnknown |-> FALSE,
               pollutedMethods |-> {}, pollutedOpaque |-> {}, pollutedAny |-> {}, pollutedUnknown |-> FALSE]

merge_open(ix, ids, reason) ==
    [ix EXCEPT !.classes = [id \in DOMAIN @ |->
        IF id \in ids THEN [@[id] EXCEPT !.reason = Stronger(@, reason)] ELSE @[id]]]

Sites(names, site) == [m \in names |-> site]

-----------------------------------------------------------------------------
(* Merging files.                                                          *)

(* One class or module body into the class of its path: the last `def` of  *)
(* a name wins, the first nesting, header and table name win.              *)
MergeFragment(classes, frag, site) ==
    LET c == IF frag.path \in DOMAIN classes THEN classes[frag.path] ELSE FreshClass
        header == [name |-> frag.super, nesting |-> frag.nesting]
        written == frag.super # NoName
        merged == [c EXCEPT
            !.module = @ \/ frag.module,
            !.reason = Stronger(@, frag.reason),
            !.headers = IF written THEN Append(@, header) ELSE @,
            !.super = IF written /\ @ = NoSuper THEN header ELSE @,
            !.nesting = IF @ = <<>> THEN frag.nesting ELSE @,
            !.table = IF @ = "none" THEN frag.table ELSE @,
            !.includes = @ \o frag.includes, !.prepends = @ \o frag.prepends,
            !.extends = @ \o frag.extends, !.consts = @ \cup frag.consts,
            !.methods = Sites(frag.methods, site) @@ @,
            !.smethods = Sites(frag.smethods, site) @@ @,
            !.hookInstance = @ \cup frag.hookInstance,
            !.hookSingleton = @ \cup frag.hookSingleton,
            !.hookOpaque = @ \/ frag.hookOpaque]
    IN  (frag.path :> merged) @@ classes

(* merge_file_fragments: a by-name singleton patch is held aside.          *)
MergeFile(ix, defs, site) ==
    LET Body(classes, frag) == IF frag.patch THEN classes ELSE MergeFragment(classes, frag, site)
        Alias(aliases, w) == aliases @@ (w.path :> [nesting |-> w.nesting, target |-> w.target])
    IN  [ix EXCEPT !.classes = FoldLeft(Body, @, defs.frags),
                   !.aliases = FoldLeft(Alias, @, defs.aliases),
                   !.requires = @ \cup defs.requires,
                   !.toplevel = @ \cup {<<n>> : n \in defs.toplevel}]

MergeFiles(all) ==
    FoldLeft(LAMBDA ix, i : MergeFile(ix, all[i], i), EmptyIndex, [i \in 1..Len(all) |-> i])

(* merge_declared_fragment: a curated declaration fills only a name the    *)
(* project never defines, and its class is open.                           *)
merge_declared_fragments(ix) ==
    LET new == {d \in DeclaredPaths : ~Known(ix, d.path)}
    IN  [ix EXCEPT !.classes = @ @@ [p \in {d.path : d \in new} |->
            [FreshClass EXCEPT !.reason = "DeclaredExternal",
                               !.module = \E d \in new : d.path = p /\ d.module]]]

-----------------------------------------------------------------------------
(* Superclass headers: every written header is resolved in its own nesting *)
(* against the complete index, and headers that disagree leave no edge.    *)

(* Mutant: the first header is taken for all of them.                      *)
MutHeadersAmbiguous(ix, id) ==
    LET hs == ix.classes[id].headers
    IN  hs # <<>> /\ superclass_header_is_ambiguous(ix, id, hs[1])

superclass_headers_are_ambiguous(ix, id) ==
    LET hs == ix.classes[id].headers
        To(h) == HeaderAt(ix, id, h, StackDepth).to
    IN  \/ \E i \in DOMAIN hs : superclass_header_is_ambiguous(ix, id, hs[i])
        \/ \E i \in DOMAIN hs : hs[i] # hs[1] /\ (To(hs[1]) = None \/ To(hs[1]) # To(hs[i]))

(* propagate_ancestry_conflicts: a class above which a conflict lies.      *)
Affected(ix) ==
    {id \in DOMAIN ix.classes \ ix.ambiguous : ToSet(Chain(ix, id)) \cap ix.ambiguous # {}}

RECURSIVE ReconcileFrom(_, _)
ReconcileFrom(ix, seen) ==
    LET conflicts == {id \in DOMAIN ix.classes \ seen : superclass_headers_are_ambiguous(ix, id)}
        cut == [ix EXCEPT !.ambiguous = @ \cup conflicts,
                          !.classes = [id \in DOMAIN @ |->
                              IF id \in conflicts THEN [@[id] EXCEPT !.super = NoSuper] ELSE @[id]]]
        affected == Affected(cut)
    IN  IF conflicts = {} /\ affected = {} THEN cut
        ELSE ReconcileFrom([cut EXCEPT !.ambiguous = @ \cup affected], seen \cup conflicts)

reconcile_superclasses(ix) == ReconcileFrom(ix, {})

(* apply_schema_attributes: a model gains the attributes of its table that *)
(* it does not define itself.                                              *)
apply_schema_attributes(ix) ==
    LET Table(id, c) == IF c.table = "none" THEN TableOf[Last(id)] ELSE c.table
        IsModel(c) == /\ ~c.module /\ c.table # "Dynamic"
                      /\ c.super.name \in {Rel(<<"ApplicationRecord">>), Rel(<<"ActiveRecord", "Base">>)}
    IN  [ix EXCEPT !.classes = [id \in DOMAIN @ |->
            IF IsModel(@[id]) /\ Table(id, @[id]) \in DOMAIN SchemaTables
            THEN [@[id] EXCEPT !.methods = @ @@ Sites(SchemaTables[Table(id, ix.classes[id])], 0)]
            ELSE @[id]]]

-----------------------------------------------------------------------------
(* Opening the classes whose surface the project does not hold.            *)

apply_gem_reopenings(ix) ==
    merge_open(ix, {p \in DOMAIN ix.classes : NamespaceKey[p[1]] \in LockKeys}, "ReopenedExternal")

apply_mock_singleton_surface(ix) ==
    [ix EXCEPT !.mocks = IF LockKeys \cap {"rspecmocks", "mocha"} # {} THEN {"any_instance"} ELSE {}]

(* A path whose top segment no project body ever wrapped.                  *)
apply_undeclared_namespace_reopenings(ix) ==
    LET foreign(top) == ~Known(ix, top) \/ ix.classes[top].reason = "DeclaredExternal"
    IN  merge_open(ix, {p \in DOMAIN ix.classes : Len(p) > 1 /\ foreign(<<p[1]>>)}, "ReopenedExternal")

(* A bare stub whose name the project also defines in a string literal.    *)
apply_string_source_definitions(ix, all) ==
    LET names == UNION {all[i].strings : i \in DOMAIN all}
        bare(c) == DOMAIN c.methods = {} /\ DOMAIN c.smethods = {}
    IN  merge_open(ix, {p \in DOMAIN ix.classes : bare(ix.classes[p]) /\ Last(p) \in names},
                   "StringSourceDefined")

(* extend ActiveSupport::Concern extends the nested ClassMethods as well.  *)
apply_concern_class_methods(ix) ==
    [ix EXCEPT !.classes = [p \in DOMAIN @ |->
        IF is_concern_edge(@[p].extends) /\ Known(ix, Append(p, "ClassMethods"))
        THEN [@[p] EXCEPT !.extends = AddNew(@, Rel(Append(p, "ClassMethods")))] ELSE @[p]]]

(* A::B = value lands on A when the project has it, else in the toplevel   *)
(* bucket under the whole path.                                            *)
resolve_qualified_const_writes(ix, all) ==
    LET writes == UNION {all[i].qualified : i \in DOMAIN all}
    IN  [ix EXCEPT !.toplevel = @ \cup {Append(w.owner, w.simple) : w \in {w \in writes : ~Known(ix, w.owner)}},
                   !.classes = [p \in DOMAIN @ |-> [@[p] EXCEPT
                       !.consts = @ \cup {w.simple : w \in {w \in writes : w.owner = p}}]]]

(* class << X and X.singleton_class.prepend M, only on a class the index   *)
(* already has.                                                            *)
apply_singleton_patches(ix, all) ==
    LET Patch(classes, frag, site) ==
            LET c == classes[frag.path]
            IN  [classes EXCEPT ![frag.path] = [c EXCEPT
                    !.extends = FoldLeft(AddNew, @, frag.extends),
                    !.smethods = @ @@ Sites(frag.smethods, site),
                    !.reason = Stronger(@, frag.reason),
                    !.hookInstance = @ \cup frag.hookInstance,
                    !.hookSingleton = @ \cup frag.hookSingleton,
                    !.hookOpaque = @ \/ frag.hookOpaque]]
        InFile(classes, i) ==
            FoldLeft(LAMBDA cs, frag : IF frag.patch /\ frag.path \in DOMAIN cs THEN Patch(cs, frag, i) ELSE cs,
                     classes, all[i].frags)
    IN  [ix EXCEPT !.classes = FoldLeft(InFile, @, [i \in 1..Len(all) |-> i])]

(* Modules mixed into a receiver nobody can name, by track.                *)
resolve_dynamic_mixin_targets(ix, all) ==
    LET raw == UNION {all[i].dynamic : i \in DOMAIN all}
        Targets(track) == {resolve_const(ix, d.nesting, d.name) : d \in {d \in raw : d.track = track}} \ {None}
    IN  [ix EXCEPT !.dynInstance = Targets("instance"), !.dynSingleton = Targets("singleton")]

(* A mixin call whose receiver is known opens that receiver when the       *)
(* module answers every name.                                              *)
attributed_mixin_receivers(ix, all) ==
    LET edges == UNION {all[i].attributed : i \in DOMAIN all}
        returns == UNION {all[i].constReturning : i \in DOMAIN all}
        Receivers(e) == IF e.method = "none" THEN {[name |-> e.name, nesting |-> e.nesting]}
                        ELSE {[name |-> r.name, nesting |-> r.nesting] : r \in {r \in returns : r.method = e.method}}
        AnswersAll(m) == m # None /\ DOMAIN ix.classes[m].methods \cap {"method_missing", "respond_to_missing?"} # {}
    IN  UNION {{resolve_const(ix, r.nesting, r.name) : r \in Receivers(e)} :
               e \in {e \in edges : AnswersAll(resolve_const(ix, e.moduleNesting, e.module))}} \ {None}

apply_attributed_mixin_edges(ix, all) ==
    merge_open(ix, attributed_mixin_receivers(ix, all), "MethodMissing")

apply_load_hook_openness(ix, all) ==
    LET raw == UNION {all[i].loadHooks : i \in DOMAIN all}
    IN  merge_open(ix, {resolve_const(ix, h.nesting, h.name) : h \in raw} \ {None}, "EvalOrSend")

(* What `def self.extended(base)` of a module installs on its extenders,   *)
(* never over a method of their own.                                       *)
apply_extended_hooks(ix) ==
    LET Modules(p) == {resolve_const(ix, ix.classes[p].nesting, e) : e \in ToSet(ix.classes[p].extends)} \ {None}
        Installs(p, m) == UNION {IF m = "instance" THEN ix.classes[x].hookInstance
                                 ELSE ix.classes[x].hookSingleton : x \in Modules(p)}
        opaque == {p \in DOMAIN ix.classes : \E x \in Modules(p) : ix.classes[x].hookOpaque}
    IN  merge_open([ix EXCEPT !.classes = [p \in DOMAIN @ |-> [@[p] EXCEPT
                        !.methods = @ @@ Sites(Installs(p, "instance"), 0),
                        !.smethods = @ @@ Sites(Installs(p, "singleton"), 0)]]],
                   opaque, "EvalOrSend")

carries_own_surface(c) ==
    \/ DOMAIN c.methods # {} \/ DOMAIN c.smethods # {}
    \/ c.includes # <<>> \/ c.prepends # <<>> \/ c.extends # <<>>

(* A top-level module the project writes only to nest definitions in it.   *)
apply_namespace_only_modules(ix) ==
    LET tops == {<<p[1]>> : p \in {p \in DOMAIN ix.classes : Len(p) > 1}}
    IN  merge_open(ix, {t \in tops : Known(ix, t) /\ ix.classes[t].module
                                     /\ ~carries_own_surface(ix.classes[t])},
                   "NamespaceOnlyModule")

(* An ignored file's bodies are real at run time and never read.           *)
apply_ignored_openness(ix, ign) ==
    LET paths == {f.path : f \in UNION {ToSet(ign[i].frags) : i \in DOMAIN ign}}
    IN  [merge_open(ix, paths, "IgnoredReopening") EXCEPT !.evalCore = @ \cup paths]

build_subclass_map(ix) ==
    LET Parent(c) == resolve_superclass_const(ix, c)
        children == {c \in DOMAIN ix.classes : ix.classes[c].super # NoSuper}
    IN  [ix EXCEPT !.subclasses = {<<Parent(c), c>> : c \in {c \in children : Parent(c) \notin {None, c}}}]

-----------------------------------------------------------------------------
(* What the project adds to the core classes: the pollution picture that   *)
(* decides whether an operator or a conversion of a core class is still    *)
(* MRI's own.                                                              *)

(* Both spellings of a target: as written, and what an alias of it ends in.*)
Spellings(ix, raw) ==
    {raw.name.path, expand_unresolved_alias_target(ix, raw.nesting, raw.name)} \ {None}

resolve_refined_core(ix, all) ==
    [ix EXCEPT !.refinedCore = UNION {Spellings(ix, r) : r \in UNION {all[i].refined : i \in DOMAIN all}}]

resolve_eval_polluted_core(ix, all) ==
    [ix EXCEPT !.evalCore = UNION {Spellings(ix, r) : r \in UNION {all[i].evals : i \in DOMAIN all}}]

(* Mutant: an alias of a core class is another class.                      *)
MutTargetSpellings(ix, nesting, name) == {name.path} \cap CoreNames

(* The core names a target stands for; a reopening through an alias        *)
(* resolves in the project, so the alias table itself is read as well.     *)
target_spellings(ix, nesting, name) ==
    LET expanded == expand_unresolved_alias_target(ix, nesting, name)
        chased == IF expanded # None THEN expanded ELSE chase_alias_target_text(ix, nesting, name)
    IN  {name.path, chased} \cap CoreNames

pollution_is_unreadable(reason) ==
    reason \notin {"none", "ReopenedExternal", "NamespaceOnlyModule", "DeclaredExternal",
                   "DynamicSuperclass", "MethodMissing"}

(* The names a module can inject: its own and those of the modules it      *)
(* mixes in, three levels deep; unreadable if one of them is open or is    *)
(* not in the project.  Every name is resolved in the caller's nesting.    *)
RECURSIVE NamesFrom(_, _, _, _, _)
NamesFrom(ix, nesting, stack, seen, names) ==
    LET top == Last(stack)
        id == resolve_const(ix, nesting, top.name)
        c == ix.classes[id]
        nested == [i \in 1..Len(c.includes \o c.prepends) |->
                      [name |-> (c.includes \o c.prepends)[i], depth |-> top.depth + 1]]
    IN  CASE stack = <<>> -> [readable |-> TRUE, names |-> names]
          [] stack # <<>> /\ top.depth > 3 -> [readable |-> FALSE, names |-> {}]
          [] stack # <<>> /\ top.depth <= 3 /\ top.name \in seen ->
                NamesFrom(ix, nesting, Front(stack), seen, names)
          [] stack # <<>> /\ top.depth <= 3 /\ top.name \notin seen /\ (id = None \/ Open(c)) ->
                [readable |-> FALSE, names |-> {}]
          [] OTHER -> NamesFrom(ix, nesting, Front(stack) \o nested, seen \cup {top.name},
                                names \cup DOMAIN c.methods \cup DOMAIN c.smethods)

module_method_names(ix, nesting, name) ==
    NamesFrom(ix, nesting, <<[name |-> name, depth |-> 0]>>, {}, {})

mark_opaque(ix, raw) ==
    IF raw.target = NoName THEN [ix EXCEPT !.pollutedUnknown = TRUE]
    ELSE [ix EXCEPT !.pollutedOpaque = @ \cup target_spellings(ix, raw.nesting, raw.target)]

Pollute(ix, cores, names) == [ix EXCEPT !.pollutedMethods = @ \cup (cores \X names)]

(* Every fragment that reopens a core class, under its name or an alias.   *)
core_fragment_candidates(ix) ==
    {<<p, p>> : p \in CoreNames \cap DOMAIN ix.classes}
    \cup UNION {{<<p, core>> : core \in target_spellings(ix, <<>>, Rel(p))} :
                p \in DOMAIN ix.aliases \cap DOMAIN ix.classes}

resolve_fragment_pollution(ix) ==
    LET One(acc, cand) ==
            LET c == ix.classes[cand[1]]
                mixins == c.includes \o c.prepends
                own == Pollute(acc, {cand[2]}, DOMAIN c.methods \cup DOMAIN c.smethods)
                Mix(a, m) == LET r == module_method_names(ix, <<>>, m)
                             IN  IF r.readable THEN Pollute(a, {cand[2]}, r.names)
                                 ELSE [a EXCEPT !.pollutedOpaque = @ \cup {cand[2]}]
            IN  IF pollution_is_unreadable(c.reason)
                THEN [acc EXCEPT !.pollutedOpaque = @ \cup {cand[2]}]
                ELSE FoldLeft(Mix, own, mixins)
    IN  FoldLeft(One, ix, SetToSeq(core_fragment_candidates(ix)))

resolve_keyed_pollution(ix, all) ==
    LET raws == UNION {all[i].keyed : i \in DOMAIN all}
        One(acc, raw) ==
            LET r == IF raw.source = "module" THEN module_method_names(ix, raw.nesting, raw.module)
                     ELSE [readable |-> raw.source = "names", names |-> raw.names]
            IN  CASE ~r.readable -> mark_opaque(acc, raw)
                  [] r.readable /\ raw.target = NoName -> [acc EXCEPT !.pollutedAny = @ \cup r.names]
                  [] OTHER -> Pollute(acc, target_spellings(ix, raw.nesting, raw.target), r.names)
    IN  resolve_fragment_pollution(FoldLeft(One, ix, SetToSeq(raws)))

(* Checker::names_unpolluted and core_ops_unpolluted: the operator must be *)
(* untouched on the receiver's own class, the conversion hooks anywhere in *)
(* the argument's ancestry.                                                *)
names_unpolluted(ix, cores, keys) ==
    /\ keys \cap ix.pollutedAny = {}
    /\ cores \cap ix.pollutedOpaque = {}
    /\ (cores \X keys) \cap ix.pollutedMethods = {}

core_ops_unpolluted(ix, own, op, family, hooks) ==
    /\ ~ix.pollutedUnknown
    /\ names_unpolluted(ix, own, {op})
    /\ names_unpolluted(ix, family, hooks \cup {"method_missing", "respond_to_missing?"})

core_class_unpolluted(ix, family) ==
    /\ ~ix.coreMixin /\ ~ix.refinedUnknown /\ ~ix.evalUnknown
    /\ family \cap (DOMAIN ix.classes \cup ix.refinedCore \cup ix.evalCore) = {}

-----------------------------------------------------------------------------
(* check_const_ref: E0104 is reported on a constant that neither index     *)
(* knows and no const_missing of the namespace answers for.                *)

const_missing_namespace(ix, nesting, name) ==
    LET owner == CASE Len(name.path) > 1 ->
                        resolve_const(ix, IF name.abs THEN <<>> ELSE nesting, Rel(Front(name.path)))
                   [] Len(name.path) = 1 /\ ~name.abs /\ nesting # <<>> -> ById(ix, Last(nesting))
                   [] OTHER -> None
    IN  owner # None /\ lookup_singleton(ix, owner, "const_missing").kind = "Found"

const_is_known(ix, nesting, name) ==
    resolve_const_through_aliases(ix, nesting, name) # None \/ const_exists(ix, nesting, name)

check_const_ref(ix, wide, nesting, name) ==
    LET known(of) == const_is_known(of, nesting, name)
    IN  /\ ~known(ix)
        /\ ~const_missing_namespace(ix, nesting, name)
        /\ ~known(wide)
        /\ <<name.path[1]>> \notin CoreNames

-----------------------------------------------------------------------------
(* The whole build.  An ignored file is merged like a project file for     *)
(* ignored_aware_index; for project_index it raises the pollution flags    *)
(* and opens the classes it reopens, and adds nothing.                     *)

(* merge_file_accumulators, merge_ignored_pollution.                       *)
WithFlags(ix, all) ==
    [ix EXCEPT !.coreMixin = \E i \in DOMAIN all : all[i].coreMixin,
               !.refinedUnknown = \E i \in DOMAIN all : all[i].refinedUnknown,
               !.evalUnknown = \E i \in DOMAIN all : all[i].evalUnknown]

build_index(project, ign, merge_ignored) ==
    LET all == project \o ign
        merged == IF merge_ignored THEN all ELSE project
        m1 == reconcile_superclasses(merge_declared_fragments(WithFlags(MergeFiles(merged), all)))
        m2 == apply_mock_singleton_surface(apply_gem_reopenings(apply_schema_attributes(m1)))
        m3 == apply_string_source_definitions(apply_undeclared_namespace_reopenings(m2), merged)
        m4 == resolve_qualified_const_writes(apply_concern_class_methods(m3), merged)
        m5 == resolve_dynamic_mixin_targets(apply_singleton_patches(m4, merged), merged)
        m6 == resolve_refined_core(apply_attributed_mixin_edges(m5, merged), all)
        m7 == resolve_keyed_pollution(resolve_eval_polluted_core(m6, all), all)
        m8 == apply_extended_hooks(apply_load_hook_openness(m7, merged))
        m9 == apply_namespace_only_modules(m8)
    IN  build_subclass_map(IF merge_ignored THEN m9 ELSE apply_ignored_openness(m9, ign))

(* file_defs is a query of its own, remembered for as long as the text is  *)
(* the same.                                                               *)
Defs == [t \in Texts \cup IgnoredTexts |-> file_defs(Source[t])]
DefsOf(names) == [i \in DOMAIN names |-> Defs[names[i]]]

(* Mutant: the ignored files are merged like the others.                   *)
MutProjectIndex(project, ign) == build_index(DefsOf(project), DefsOf(ign), TRUE)

project_index(project, ign) ==
    LET defs == DefsOf(project)
    IN  build_index(defs, DefsOf(ign), FALSE)
ignored_aware_index(project, ign) ==
    LET defs == DefsOf(project)
    IN  build_index(defs, DefsOf(ign), TRUE)

(* A project grows a file at a time; each addition is a new revision of    *)
(* the inputs, and the index is the query's value at that revision.        *)
Init == files = <<>> /\ ignored = <<>> /\ index = Index(<<>>, <<>>)

AddFile(text) ==
    /\ Len(files) < MaxFiles /\ ignored = <<>>
    /\ files' = Append(files, text)
    /\ index' = Index(files', ignored)
    /\ UNCHANGED ignored

AddIgnored(text) ==
    /\ Len(ignored) < MaxIgnored /\ Len(files \o ignored) < MaxFiles
    /\ ignored' = Append(ignored, text)
    /\ index' = Index(files, ignored')
    /\ UNCHANGED files

Next == (\E text \in Texts : AddFile(text)) \/ (\E text \in IgnoredTexts : AddIgnored(text))

Spec == Init /\ [][Next]_vars
=============================================================================
