----------------------------- MODULE CliCorrect -----------------------------
(* What a run of `ita` promises the person, script or editor that started it.*)
EXTENDS Cli

Ended == pc = "exit"
Checked == args.cmd = "check" /\ Ended /\ exit \in {0, 1}

\* What one thread collects working through the files in the order of their
\* paths.
Sequential == [i \in DOMAIN to_check |-> check_and_print(to_check[i])]

\* ReportIsSequential: a check prints what one thread would print file by file
\* in path order, whatever order the directories were walked in, however the
\* files were split and whichever thread was fastest (main.rs run_check: "the
\* PRINTED byte stream is exactly what the old sequential loop produced"); a
\* run that panicked prints nothing, and none panics unless the index does or a
\* diagnostic starts or ends inside a character.
InPathOrder == \A i, j \in DOMAIN to_check : i < j => ~PathLess(to_check[j], to_check[i])
ReportIsSequential ==
    args.cmd = "check" =>
        /\ (Checked => InPathOrder /\ stdout = Printed(Sequential) \o Footer(Sequential))
        /\ (Ended /\ exit = 101 =>
               stdout = <<>> /\ (run.index_panics \/ \E p \in ToSet(to_check) : Panics(p)))
        /\ (Checked /\ args.dark = "on" => census = Records(Sequential))

\* ExitTells: 1 says that a checked file has an error, 0 that none has, in
\* every output format (check_and_print: "the exit code must never depend on
\* which channel is rendered").
ExitTells ==
    Checked => (exit = 1 <=> \E p \in ToSet(to_check) : \E d \in ToSet(Code(p).diags) : d.severity = "error")

\* OnlyProjectCode: what is checked and reported is neither a schema that was
\* read for its declarations, nor the db/schema.rb of a root, in the form of its
\* path that the walk came by when the root is a link (upward_dirs), nor a file
\* that is only suppressing evidence, also when the roots overlap.
OnlyProjectCode ==
    \A p \in ToSet(to_check) :
        /\ p \notin ToSet(found.declarations_only) /\ p \notin ignored
        /\ \A r \in ToSet(args.roots) : is_dir(t, r) => p # r \o <<"db", "schema.rb">>

\* OneRole: every .rb file below the roots that can be read is either project
\* code or ignored evidence, and none is both, also when the roots overlap and
\* one root's config ignores what another root names (build_project).
OneRole ==
    args.cmd = "check" /\ pc \in {"spawn", "join", "unwind"} =>
        \A r \in ToSet(args.roots) : \A p \in (IF is_dir(t, r) THEN Walk(t, r) ELSE {}) :
            readable(t, p) => (Contains(sources, p) <=> p \notin ignored)

\* The gems the code below a root is loaded with: Bundler takes the nearest
\* Gemfile above the real directory, and the lock beside it.  Of these the
\* command promises RBIs for what the GEM sections name (main.rs: "every gem in
\* the lock's GEM/specs sections"), dotted names left out.
BundleDir(r) ==
    LET dir == upward_start(t, r)
        hits == {n \in 0..Len(dir) : is_file(t, Append(SubSeq(dir, 1, n), "Gemfile"))}
    IN  IF hits = {} THEN NoPath ELSE SubSeq(dir, 1, CHOOSE n \in hits : \A m \in hits : m <= n)
BundleLock(r) == t.locks[canonicalize(t, Append(BundleDir(r), "Gemfile.lock"))]
Bundle(r) == parse_gemfile_lock_gems(BundleLock(r))
DeclaredGems ==
    LET dir == Append(found.rbi_dir, "gems")
    IN  IF is_dir(t, dir) THEN gem_rbi_names(t, dir) ELSE {}

\* The bundle is one the upward walks come to: fewer than Levels directories up,
\* with its lock, and no lock without a Gemfile lies nearer.
WithinReach(r) ==
    LET dir == upward_start(t, r)
    IN  /\ BundleDir(r) # NoPath /\ Len(dir) - Len(BundleDir(r)) < Levels
        /\ is_file(t, Append(BundleDir(r), "Gemfile.lock"))
        /\ \A n \in (Len(BundleDir(r)) + 1)..Len(dir) : ~is_file(t, Append(SubSeq(dir, 1, n), "Gemfile.lock"))

\* The RBIs a root is judged by are those the run reads: the nearest sorbet/rbi
\* has them, and no other root comes to another one.
RbisShared(r) ==
    LET rbi(q) == find_upward_dir(t, q, <<"sorbet", "rbi">>)
    IN  /\ rbi(r) # NoPath => is_dir(t, Append(rbi(r), "gems"))
        /\ \A q \in ToSet(args.roots) : rbi(q) \in {NoPath, rbi(r)}

\* ClosedWorldIsEarned: when the world is closed, so that a core method nobody
\* declares may be called missing, every gem that the lock of a root within
\* reach names has an RBI in the directory the run reads RBIs from
\* (wire_closed_world, gems_detected, tapioca_coverage_complete,
\* wire_declaration_sources).  Of a bundle out of reach, and of a root whose
\* RBIs the run does not read, the code closes the world without this.
ClosedWorldIsEarned ==
    closed => \A r \in ToSet(args.roots) : WithinReach(r) /\ RbisShared(r) => Bundle(r) \subseteq DeclaredGems

\* PositionsLeadBack: the line and column `ita check` prints for a diagnostic,
\* given to `ita definition` or `ita hover`, name the byte the diagnostic starts
\* at (LineIndex::line_col and ::offset, parse_location_arg); and a location
\* typed by hand names the character that covers or follows its column.
PositionsLeadBack ==
    /\ Checked => \A p \in ToSet(to_check) : \A d \in ToSet(Shown(p)) :
            \E e \in ToSet(stdout) :
                e.kind = "diagnostic" /\ e.at.path = p /\ e.level = d.severity
                /\ offset(Code(p).text, e.at.line - 1, e.at.col - 1) = d.start
    /\ asked # -1 =>
            LET text == Code(Target).text
                before == {b \in Boundaries(text) : b < asked}
            IN  /\ asked \in Boundaries(text)
                /\ \A b \in before : line_col(text, b).line >= args.line - 1 => line_col(text, b).col < args.col - 1

\* UriRoundTrip: a document has one path: the URI the server publishes for it
\* comes back from the editor as the same path, whatever URI the editor opened
\* it with, and for a file found on disk when its name is UTF-8 (path_to_uri,
\* uri_to_path, to_string_lossy, from_utf8_lossy).
UriRoundTrip == echoed # <<>> /\ (args.opened = "editor" \/ IsUtf8(args.document)) => echoed = Known

\* Terminates: every run ends, also when the thread that computes the index
\* panics while others wait for it, or one panics while others check (run_check's
\* scope).
Terminates == <>Ended
=============================================================================
