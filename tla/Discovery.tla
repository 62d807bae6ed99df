----------------------------- MODULE Discovery -----------------------------
(***************************************************************************)
(* What `ita check` finds on disk before it checks anything: the .rb files *)
(* under the roots it was given, the declaration sources above them        *)
(* (discovery.rs), sorbet/config's --ignore entries, and whether the gem   *)
(* set is known well enough to close the world (main.rs).                  *)
(*                                                                         *)
(* A path is the sequence of its names from the file system's root.  A tree*)
(* `t` is a record: `dirs` and `files` are real paths; `real` takes every  *)
(* path that exists, spelled through a symbolic link or not, to the real   *)
(* one; `config` gives the tokens of each sorbet/config, `locks` the       *)
(* sections of each Gemfile.lock, `rbis` the gems with an RBI in each      *)
(* sorbet/rbi/gems; files in `unreadable` exist and cannot be read.        *)
(***************************************************************************)
EXTENDS Integers, Sequences, SequencesExt, FiniteSets

CONSTANTS
    RbNames,        \* the file names with the extension rb
    GemspecNames,   \* the file names with the extension gemspec
    GemNames        \* the gem names of letters, digits, dashes and underscores

NoPath == <<"no such path">>
Levels == 4     \* the levels an upward walk visits

\* The elements of a sequence that are in a set, in their order.
Keep(s, S) ==
    LET keep[n \in 0..Len(s)] ==
            IF n = 0 THEN <<>> ELSE IF s[n] \in S THEN Append(keep[n - 1], s[n]) ELSE keep[n - 1]
    IN  keep[Len(s)]

(*************************** the file system *******************************)
canonicalize(t, p) == IF p \in DOMAIN t.real THEN t.real[p] ELSE NoPath
is_dir(t, p) == canonicalize(t, p) \in t.dirs
is_file(t, p) == canonicalize(t, p) \in t.files
parent(p) == IF p = <<>> THEN NoPath ELSE Front(p)
readable(t, p) == is_file(t, p) /\ canonicalize(t, p) \notin t.unreadable

(**************************** upward walks *********************************)
upward_start(t, root) ==
    LET real == canonicalize(t, root)
    IN  IF real = NoPath \/ is_dir(t, real) THEN real ELSE parent(real)

LexicalStart(t, root) == IF is_dir(t, root) THEN root ELSE parent(root)

\* The directories of an upward walk from one or more starts: on each level,
\* nearest first, the starts are tried in the order of `form`.
Ascent(starts) ==
    {[level |-> c[1], form |-> c[2].form, dir |-> SubSeq(c[2].dir, 1, Len(c[2].dir) - c[1] + 1)] :
        c \in {q \in (1..Levels) \X starts : q[2].dir # NoPath /\ q[1] <= Len(q[2].dir) + 1}}

\* The caller's own form of the path first, the resolved form second.
MutUpwardDirs(t, root) == Ascent({[form |-> 2, dir |-> LexicalStart(t, root)], [form |-> 1, dir |-> upward_start(t, root)]})
upward_dirs(t, root) == Ascent({[form |-> 1, dir |-> LexicalStart(t, root)], [form |-> 2, dir |-> upward_start(t, root)]})
ResolvedDirs(t, root) == Ascent({[form |-> 1, dir |-> upward_start(t, root)]})

\* The nearest path `rel` that is one of `kind`, the files or the directories
\* of the tree, seen from the directories of a walk.
Nearest(t, dirs, rel, kind) ==
    LET hits == {d \in dirs : canonicalize(t, d.dir \o rel) \in kind}
        before(d, e) == d.level < e.level \/ (d.level = e.level /\ d.form <= e.form)
    IN  IF hits = {} THEN NoPath ELSE (CHOOSE d \in hits : \A e \in hits : before(d, e)).dir \o rel
find_upward(t, root, name) == Nearest(t, upward_dirs(t, root), <<"db", name>>, t.files)
find_upward_dir(t, root, rel) == Nearest(t, upward_dirs(t, root), rel, t.dirs)
find_upward_bare_file(t, root, name) == Nearest(t, upward_dirs(t, root), <<name>>, t.files)
find_upward_file(t, root, name) == Nearest(t, ResolvedDirs(t, root), <<name>>, t.files)

(*********************** declaration sources *******************************)
\* Of what each root finds, the first find.
FirstRoot(finds) ==
    LET hits == {i \in DOMAIN finds : finds[i] # NoPath}
    IN  IF hits = {} THEN NoPath ELSE finds[CHOOSE i \in hits : \A j \in hits : i <= j]
AddNew(s, p) == IF p = NoPath \/ Contains(s, p) THEN s ELSE Append(s, p)

\* The gems of a lock's GEM sections; what GIT and PATH sections list is not
\* read, nor a name with a dot.
parse_gemfile_lock_gems(sections) ==
    GemNames \cap UNION {s.gems : s \in {x \in ToSet(sections) : x.head = "GEM"}}

\* The schema.rb each root finds, each once.
Schemas(t, roots) ==
    LET schemas[n \in 0..Len(roots)] ==
            IF n = 0 THEN <<>> ELSE AddNew(schemas[n - 1], find_upward(t, roots[n], "schema.rb"))
    IN  schemas[Len(roots)]

\* Every schema.rb, else the first structure.sql; the first sorbet/rbi; the
\* gems of the first Gemfile.lock, whose namespaces the index opens.
wire_declaration_sources(t, roots) ==
    LET schemas == Schemas(t, roots)
        sql == IF schemas # <<>> THEN NoPath ELSE FirstRoot([i \in DOMAIN roots |-> find_upward(t, roots[i], "structure.sql")])
        lock == FirstRoot([i \in DOMAIN roots |-> find_upward_bare_file(t, roots[i], "Gemfile.lock")])
    IN  [declarations_only |-> schemas,
         structure_sql |-> IF sql # NoPath /\ readable(t, sql) THEN sql ELSE NoPath,
         rbi_dir |-> FirstRoot([i \in DOMAIN roots |-> find_upward_dir(t, roots[i], <<"sorbet", "rbi">>)]),
         gem_names |-> IF lock # NoPath /\ readable(t, lock) THEN parse_gemfile_lock_gems(t.locks[canonicalize(t, lock)]) ELSE {}]

(**************************** --ignore *************************************)
\* An entry is the names between its slashes, `anchored` when it was written
\* with a leading one; one trailing slash leaves one empty name behind.
normalize_ignore_entry(entry) ==
    IF entry.names # <<>> /\ Last(entry.names) = "" THEN [entry EXCEPT !.names = Front(@)] ELSE entry

\* A token has a flag, the entry after `--ignore=`, and its whole text read as
\* an entry, which is what a preceding `--ignore` makes of it.
sorbet_ignore_entries(t, root) ==
    LET file == root \o <<"sorbet", "config">>
        step(acc, tok) ==
            IF acc.pending THEN [pending |-> FALSE, entries |-> acc.entries \cup {normalize_ignore_entry(tok.text)}]
            ELSE CASE tok.flag = "--ignore=" -> [acc EXCEPT !.entries = @ \cup {normalize_ignore_entry(tok.entry)}]
                   [] tok.flag = "--ignore"  -> [acc EXCEPT !.pending = TRUE]
                   [] OTHER                  -> acc
    IN  IF ~readable(t, file) THEN {}
        ELSE FoldLeft(step, [pending |-> FALSE, entries |-> {}], t.config[canonicalize(t, file)]).entries

\* An entry names whole names of the path: from its start when anchored, else anywhere.
ignore_entry_matches(rel, entry) ==
    /\ entry.names # <<>>
    /\ IF entry.anchored THEN IsPrefix(entry.names, rel)
       ELSE \E i \in 0..Len(rel) : IsPrefix(entry.names, SubSeq(rel, i + 1, Len(rel)))
path_is_ignored(rel, entries) == \E e \in entries : ignore_entry_matches(rel, e)

(************************** source discovery *******************************)
\* The walk below a root: regular .rb files under the real directory, named
\* through the root; links on the way down are not followed.
Walk(t, root) ==
    {root \o SubSeq(f, Len(canonicalize(t, root)) + 1, Len(f)) : f \in {g \in t.files : Last(g) \in RbNames /\ IsPrefix(canonicalize(t, root), g)}}
Below(root, p) == SubSeq(p, Len(root) + 1, Len(p))

\* The files of one root, and those the root's config ignores; a root that is
\* a file is taken as it is.
discover_rb_files(t, root) ==
    IF is_file(t, root)
    THEN [out |-> IF Last(root) \in RbNames THEN {root} ELSE {}, ignored |-> {}]
    ELSE LET ignored == {p \in Walk(t, root) : path_is_ignored(Below(root, p), sorbet_ignore_entries(t, root))}
         IN  [out |-> Walk(t, root) \ ignored, ignored |-> ignored]

(**************************** closed world *********************************)
HasGems(t, dir) ==
    \/ is_file(t, Append(dir, "Gemfile")) \/ is_file(t, Append(dir, "Gemfile.lock"))
    \/ \E n \in GemspecNames : is_file(t, Append(dir, n))

\* A root that cannot be resolved counts as one with gems.
MutGemsDetected(t, root) == \E d \in Ascent({[form |-> 1, dir |-> LexicalStart(t, root)]}) : HasGems(t, d.dir)
gems_detected(t, root) == upward_start(t, root) = NoPath \/ \E d \in ResolvedDirs(t, root) : HasGems(t, d.dir)

gem_rbi_names(t, dir) == t.rbis[canonicalize(t, dir)]
tapioca_coverage_complete(t, root) ==
    LET lock == find_upward_file(t, root, "Gemfile.lock")
        gems_dir == find_upward_dir(t, root, <<"sorbet", "rbi", "gems">>)
    IN  /\ lock # NoPath /\ gems_dir # NoPath
        /\ readable(t, lock)
        /\ parse_gemfile_lock_gems(t.locks[canonicalize(t, lock)]) # {}
        /\ parse_gemfile_lock_gems(t.locks[canonicalize(t, lock)]) \subseteq gem_rbi_names(t, gems_dir)
wire_closed_world(t, roots) ==
    \A r \in ToSet(roots) : ~gems_detected(t, r) \/ tapioca_coverage_complete(t, r)
=============================================================================
