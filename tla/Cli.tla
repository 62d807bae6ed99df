-------------------------------- MODULE Cli --------------------------------
(***************************************************************************)
(* One run of the `ita` binary (crates/itaruby/src/main.rs): the command   *)
(* line, the project it loads, the threads of `ita check` over clones of   *)
(* one salsa database, the report and the exit code.                       *)
(*                                                                         *)
(* `run` is what the process was started with and never changes: the       *)
(* command line, the file system (see Discovery), for each file on it its  *)
(* text and what check_file finds there, and whether the computation of    *)
(* the project index panics: pure queries of one database, the same on     *)
(* every thread.                                                           *)
(***************************************************************************)
EXTENDS Discovery, LineIndex

CONSTANTS
    Runs,       \* bound: the command lines and file systems tried
    NameRank    \* the order of file names

\* The file system is finite, no file is a directory and none is called
\* NoPath; a path is a sequence of names; ITARUBY_JOBS counts only if positive;
\* a server names documents by their absolute paths; a diagnostic starts in its
\* text, which is where the parser takes its spans from, though perhaps inside a
\* character; what exists lies in a directory.
ASSUME RunsAssumption ==
    \A r \in Runs :
        /\ IsFiniteSet(r.tree.files) /\ r.tree.files \cap r.tree.dirs = {}
        /\ NoPath \notin DOMAIN r.tree.real \cup r.tree.dirs
        /\ \A p \in DOMAIN r.tree.real :
              /\ r.tree.real[p] \in Seq(ToSet(r.tree.real[p]))
              /\ p # <<>> => is_dir(r.tree, Front(p))
        /\ r.args.roots \in Seq(ToSet(r.args.roots))
        /\ \A root \in ToSet(r.args.roots) : root \in Seq(ToSet(root))
        /\ r.args.jobs \in Nat \ {0} /\ r.args.line \in Nat /\ r.args.col \in Nat
        /\ r.args.cmd = "server" =>
              r.args.document \in Seq(0..255) /\ r.args.document # <<>> /\ Head(r.args.document) = Slash
        /\ DOMAIN r.rb = r.tree.files
        /\ \A f \in DOMAIN r.rb :
              /\ r.rb[f].text \in Seq(Char) /\ r.rb[f].outcomes \in Nat
              /\ r.rb[f].diags \in Seq(ToSet(r.rb[f].diags))
              /\ \A d \in ToSet(r.rb[f].diags) : d.start \in 0..Bytes(r.rb[f].text)

VARIABLES
    run,
    pc,         \* the main thread
    sources,    \* ProjectFiles, in the order the walk found them
    ignored,    \* IgnoredFiles
    found,      \* DiscoveredSources
    to_check,   \* the files to check, in path order
    closed,     \* ClosedWorld
    index,      \* who computes the project index all checks share
    worker,     \* per chunk: is its thread running, finished or panicked
    results,    \* per chunk: what its thread has collected
    outputs,    \* what the main thread has joined
    stdout,
    census,     \* the --dark-singletons file
    asked,      \* the offset a location argument named, -1 before
    echoed,     \* the path the server reads from a URI it wrote
    exit        \* the exit code, -1 before

vars == <<run, pc, sources, ignored, found, to_check, closed, index, worker, results, outputs, stdout, census, asked, echoed, exit>>

t == run.tree
args == run.args
NotFound == [declarations_only |-> <<>>, structure_sql |-> NoPath, rbi_dir |-> NoPath, gem_names |-> {}]

Nobody == 0
Ready == -1

Init ==
    /\ run \in Runs
    /\ pc = "main" /\ exit = -1 /\ asked = -1
    /\ sources = <<>> /\ ignored = {} /\ found = NotFound /\ to_check = <<>> /\ closed = FALSE
    /\ index = Nobody /\ worker = <<>> /\ results = <<>> /\ outputs = <<>>
    /\ stdout = <<>> /\ census = <<>> /\ echoed = <<>>

Loaded == <<sources, ignored, found, to_check, closed>>
Pool == <<index, worker, results, outputs>>
Exit(code) == pc' = "exit" /\ exit' = code

(***************************** check: loading ******************************)
verify_roots(roots) == \A i \in DOMAIN roots : is_dir(t, roots[i]) \/ is_file(t, roots[i])
Usable == args.format # "unknown" /\ args.roots # <<>> /\ verify_roots(args.roots)

\* An unknown command or format, no path, or a path that does not exist.
Refuse ==
    /\ pc = "main"
    /\ args.cmd = "other" \/ (args.cmd = "check" /\ ~Usable)
    /\ Exit(2)
    /\ UNCHANGED <<run, Loaded, Pool, stdout, census, asked, echoed>>

\* The walk of a directory comes in any order.
Orders(s) == {q \in [1..Cardinality(s) -> s] : \A i, j \in DOMAIN q : q[i] = q[j] => i = j}

\* The roots' files, the schemas among them or added, as far as they can be
\* read; of the ignored files those no other root brought in.
MutLoad(rb_files, schemas, ignored_files) ==
    LET all == rb_files \o Keep(schemas, ToSet(schemas) \ ToSet(rb_files))
    IN  [sources |-> Keep(all, {p \in ToSet(all) : readable(t, p)}),
         ignored |-> {p \in ignored_files : readable(t, p)}]
Load(rb_files, schemas, ignored_files) ==
    LET all == rb_files \o Keep(schemas, ToSet(schemas) \ ToSet(rb_files))
    IN  [sources |-> Keep(all, {p \in ToSet(all) : readable(t, p)}),
         ignored |-> {p \in ignored_files : p \notin ToSet(all) /\ readable(t, p)}]

Walked(i) == discover_rb_files(t, args.roots[i])

\* The steps of build_project: the declaration sources, the files, the world.
\* The first two read different parts of the disk and commute.
build_project ==
    /\ pc = "main" /\ args.cmd = "check" /\ Usable
    /\ found' = wire_declaration_sources(t, args.roots)
    /\ closed' = wire_closed_world(t, args.roots)
    /\ pc' = "load"
    /\ UNCHANGED <<run, sources, ignored, to_check, Pool, stdout, census, asked, echoed, exit>>
LoadSources ==
    /\ pc = "load"
    /\ \E order \in {o \in [DOMAIN args.roots -> UNION {Orders(Walked(i).out) : i \in DOMAIN args.roots}] :
                        \A i \in DOMAIN args.roots : ToSet(o[i]) = Walked(i).out} :
         LET p == Load(FlattenSeq(order), found.declarations_only, UNION {Walked(i).ignored : i \in DOMAIN args.roots})
         IN  sources' = p.sources /\ ignored' = p.ignored
    /\ pc' = "spawn"
    /\ UNCHANGED <<run, found, to_check, closed, Pool, stdout, census, asked, echoed, exit>>

(***************************** check: one file *****************************)
Code(p) == run.rb[canonicalize(t, p)]

At(p, at) == LET pos == line_col(Code(p).text, at) IN [path |-> p, line |-> pos.line + 1, col |-> pos.col + 1]
Entry(p, d) == [kind |-> "diagnostic", at |-> At(p, d.start), level |-> d.severity]

\* Census sites may lie inside a character: they are kept without a position.
render_dark_records(p) ==
    [i \in DOMAIN Code(p).dark |->
        IF Code(p).dark[i] \in Boundaries(Code(p).text) THEN At(p, Code(p).dark[i]) ELSE [path |-> p, line |-> 0, col |-> 0]]

Shown(p) == Keep(Code(p).diags, {d \in ToSet(Code(p).diags) : args.format # "agent" \/ d.constraint})
Outcomes(p) == IF args.format = "agent" THEN [i \in 1..Code(p).outcomes |-> [kind |-> "outcome", path |-> p]] ELSE <<>>

MutCheckAndPrint(p) ==
    [error |-> \E d \in ToSet(Shown(p)) : d.severity = "error",
     blocks |-> IF args.format = "agent" THEN Len(Shown(p)) + Code(p).outcomes ELSE 0,
     out |-> [i \in DOMAIN Shown(p) |-> Entry(p, Shown(p)[i])] \o Outcomes(p),
     dark |-> IF args.dark = "off" THEN <<>> ELSE render_dark_records(p)]
check_and_print(p) ==
    [error |-> \E d \in ToSet(Code(p).diags) : d.severity = "error",
     blocks |-> IF args.format = "agent" THEN Len(Shown(p)) + Code(p).outcomes ELSE 0,
     out |-> [i \in DOMAIN Shown(p) |-> Entry(p, Shown(p)[i])] \o Outcomes(p),
     dark |-> IF args.dark = "off" THEN <<>> ELSE render_dark_records(p)]
\* The excerpt slices the line at the end of the span, and the text of the file
\* that the suggestion's definition is in; only the text format has one.
excerpt_panics(text, d) ==
    \/ d.start < d.end /\ d.end < line_end(text, d.start) /\ d.end \notin Boundaries(text)
    \/ d.def # NoPath /\ line_col_panics(Code(d.def).text, d.def_start)
Panics(p) ==
    \E d \in ToSet(Shown(p)) :
        \/ line_col_panics(Code(p).text, d.start)
        \/ args.format = "text" /\ excerpt_panics(Code(p).text, d)

(***************************** check: threads ******************************)
PathLess(p, q) ==
    \E n \in 0..Len(p) :
        /\ n <= Len(q) /\ SubSeq(p, 1, n) = SubSeq(q, 1, n)
        /\ \/ n = Len(p) /\ n < Len(q)
           \/ n < Len(p) /\ n < Len(q) /\ NameRank[p[n + 1]] < NameRank[q[n + 1]]
Kept == Keep(sources, ToSet(sources) \ ToSet(found.declarations_only))

check_worker_count(files) == LET cap == IF files = 0 THEN 1 ELSE files IN IF args.jobs < cap THEN args.jobs ELSE cap
CeilDiv(n, d) == (n + d - 1) \div d
chunk_size(files) == LET size == CeilDiv(files, check_worker_count(files)) IN IF size = 0 THEN 1 ELSE size
Chunk(k) ==
    LET size == chunk_size(Len(to_check))
    IN  SubSeq(to_check, (k - 1) * size + 1, IF k * size < Len(to_check) THEN k * size ELSE Len(to_check))

\* The files under review in path order, one thread per chunk.
Spawn ==
    /\ pc = "spawn"
    /\ \E order \in Orders(1..Len(Kept)) :
         /\ \A i, j \in DOMAIN order : i < j => ~PathLess(Kept[order[j]], Kept[order[i]])
         /\ to_check' = [i \in DOMAIN order |-> Kept[order[i]]]
    /\ LET chunks == CeilDiv(Len(to_check'), chunk_size(Len(to_check')))
       IN  worker' = [k \in 1..chunks |-> "running"] /\ results' = [k \in 1..chunks |-> <<>>]
    /\ pc' = "join"
    /\ UNCHANGED <<run, sources, ignored, found, closed, index, outputs, stdout, census, asked, echoed, exit>>

Unchecked(k) == worker[k] = "running" /\ Len(results[k]) < Len(Chunk(k))

\* The first check to need the index computes it, on its own thread; the
\* others wait for it.  If the computation panics, so do the threads that wait
\* by then (salsa), and one that asks later computes, and panics, again.
ClaimIndex(k) ==
    /\ Unchecked(k) /\ index = Nobody
    /\ index' = k
    /\ UNCHANGED <<run, pc, Loaded, worker, results, outputs, stdout, census, asked, echoed, exit>>
FinishIndex(k) ==
    /\ index = k
    /\ IF run.index_panics
       THEN /\ index' = Nobody
            /\ \E waiting \in SUBSET {j \in DOMAIN worker : Unchecked(j)} :
                 worker' = [j \in DOMAIN worker |-> IF j \in waiting \cup {k} THEN "panicked" ELSE worker[j]]
       ELSE index' = Ready /\ UNCHANGED worker
    /\ UNCHANGED <<run, pc, Loaded, results, outputs, stdout, census, asked, echoed, exit>>

CheckFile(k) ==
    /\ Unchecked(k) /\ index = Ready
    /\ LET p == Chunk(k)[Len(results[k]) + 1]
       IN  IF Panics(p)
           THEN worker' = [worker EXCEPT ![k] = "panicked"] /\ UNCHANGED results
           ELSE results' = [results EXCEPT ![k] = Append(@, check_and_print(p))] /\ UNCHANGED worker
    /\ UNCHANGED <<run, pc, Loaded, index, outputs, stdout, census, asked, echoed, exit>>
EndWorker(k) ==
    /\ worker[k] = "running" /\ Len(results[k]) = Len(Chunk(k))
    /\ worker' = [worker EXCEPT ![k] = "finished"]
    /\ UNCHANGED <<run, pc, Loaded, index, results, outputs, stdout, census, asked, echoed, exit>>

\* The handles are joined in the order of the chunks; joining a thread that
\* panicked panics the main thread, which the scope lets go on once every
\* other thread has ended.
MutJoinAny(k) ==
    /\ pc = "join" /\ worker[k] \in {"finished", "panicked"}
    /\ IF worker[k] = "panicked" THEN pc' = "unwind" /\ UNCHANGED <<worker, outputs>>
       ELSE outputs' = outputs \o results[k] /\ worker' = [worker EXCEPT ![k] = "joined"] /\ UNCHANGED pc
    /\ UNCHANGED <<run, Loaded, index, results, stdout, census, asked, echoed, exit>>
MutJoinFinished(k) ==
    /\ pc = "join" /\ worker[k] = "finished"
    /\ \A j \in 1..(k - 1) : worker[j] = "joined"
    /\ outputs' = outputs \o results[k]
    /\ worker' = [worker EXCEPT ![k] = "joined"]
    /\ UNCHANGED <<run, pc, Loaded, index, results, stdout, census, asked, echoed, exit>>
Join(k) ==
    /\ pc = "join" /\ worker[k] \in {"finished", "panicked"}
    /\ \A j \in 1..(k - 1) : worker[j] = "joined"
    /\ IF worker[k] = "panicked" THEN pc' = "unwind" /\ UNCHANGED <<worker, outputs>>
       ELSE outputs' = outputs \o results[k] /\ worker' = [worker EXCEPT ![k] = "joined"] /\ UNCHANGED pc
    /\ UNCHANGED <<run, Loaded, index, results, stdout, census, asked, echoed, exit>>
Unwind ==
    /\ pc = "unwind" /\ \A k \in DOMAIN worker : worker[k] # "running"
    /\ Exit(101)
    /\ UNCHANGED <<run, Loaded, Pool, stdout, census, asked, echoed>>

\* The buffers are printed, the census written, the agent's footer added; a
\* census that cannot be written ends the run there.
Printed(outs) == FlattenSeq([i \in DOMAIN outs |-> outs[i].out])
Records(outs) == FlattenSeq([i \in DOMAIN outs |-> outs[i].dark])
Blocks(outs) == FoldLeft(LAMBDA n, o : n + o.blocks, 0, outs)
Footer(outs) == IF args.format # "agent" THEN <<>>
                ELSE <<[kind |-> "footer", checked |-> Len(to_check), blocks |-> Blocks(outs)]>>
Report ==
    /\ pc = "join" /\ \A k \in DOMAIN worker : worker[k] = "joined"
    /\ LET had_error == \E o \in ToSet(outputs) : o.error
       IN  IF args.dark = "unwritable"
           THEN stdout' = Printed(outputs) /\ UNCHANGED census /\ Exit(2)
           ELSE /\ stdout' = Printed(outputs) \o Footer(outputs)
                /\ census' = IF args.dark = "on" THEN Records(outputs) ELSE census
                /\ Exit(IF had_error THEN 1 ELSE 0)
    /\ UNCHANGED <<run, Loaded, Pool, asked, echoed>>

(*********************** definition, hover, server *************************)
\* `<path>:<line>:<col>`, 1-based.  The project is every .rb file below the
\* target's real directory, nothing ignored, and the target itself.
Target == canonicalize(t, args.path)
Siblings == {p \in Walk(t, parent(Target)) \cup {Target} : readable(t, p)}
Located == args.line > 0 /\ args.col > 0 /\ Target # NoPath /\ readable(t, Target)

\* What definition_at and hover_at answer: a place in the project, or nothing.
\* hover prints the line only.
Place(at) == IF args.cmd = "hover" THEN [path |-> at.path, line |-> at.line] ELSE at
Answers == {<<>>} \cup UNION {{<<Place(At(p, o))>> : o \in Boundaries(Code(p).text)} : p \in Siblings}

Locate ==
    /\ pc = "main" /\ args.cmd \in {"definition", "hover"}
    /\ IF ~Located THEN Exit(2) /\ UNCHANGED <<asked, stdout>>
       ELSE /\ asked' = offset(Code(Target).text, args.line - 1, args.col - 1)
            /\ \/ \E s \in Answers : stdout' = s /\ Exit(0)
               \/ run.index_panics /\ Exit(101) /\ UNCHANGED stdout
    /\ UNCHANGED <<run, Loaded, Pool, census, echoed>>

\* A document is known by the path it was found under, or by what the server
\* reads from the URI the editor opened it with; the server names it by URI, and
\* the editor sends that URI back.
Known == IF args.opened = "editor" THEN uri_to_path(args.document) ELSE args.document
Serve ==
    /\ pc = "main" /\ args.cmd = "server"
    /\ \E known \in {Known} : \E uri \in {path_to_uri(known)} : echoed' = uri_to_path(uri)
    /\ \E code \in {0, 1} : Exit(code)
    /\ UNCHANGED <<run, Loaded, Pool, stdout, census, asked>>

(*************************** specification *********************************)
Main == Refuse \/ build_project \/ LoadSources \/ Spawn \/ (\E k \in DOMAIN worker : Join(k)) \/ Unwind \/ Report \/ Locate \/ Serve
Worker(k) == ClaimIndex(k) \/ FinishIndex(k) \/ CheckFile(k) \/ EndWorker(k)
Next == Main \/ \E k \in DOMAIN worker : Worker(k)
Spec == Init /\ [][Next]_vars /\ WF_vars(Main) /\ WF_vars(\E k \in DOMAIN worker : Worker(k))
=============================================================================
