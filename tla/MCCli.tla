-------------------------------- MODULE MCCli --------------------------------
(* Runs of `ita` over small file systems: where gems, schemas, RBIs, ignored *)
(* files and links lie; how files are split among threads; short texts with  *)
(* characters of one, two and four bytes; names with any bytes.              *)
EXTENDS CliCorrect

Utf8Len == [a |-> 1, e |-> 2, g |-> 4, nl |-> 1]      \* a, e-acute, an emoji, newline
Utf16Len == [a |-> 1, e |-> 1, g |-> 2, nl |-> 1]
Rank == [n \in {"a", "b", "db", "l", "p", "q", "schema.rb", "v", "w", "x.rb", "y.rb", "z.rb"} |->
            CHOOSE i \in 1..12 : <<"a", "b", "db", "l", "p", "q", "schema.rb", "v", "w", "x.rb", "y.rb", "z.rb">>[i] = n]

W == <<"w">>
P == <<"w", "p">>
A == <<"w", "p", "a">>
V == <<"w", "p", "v">>
L == <<"w", "l">>

UpFrom(p) == {SubSeq(p, 1, n) : n \in 0..Len(p)}
Tree(files, links, config, locks, rbis) ==
    LET all == files \cup DOMAIN config \cup DOMAIN locks
        dirs == UNION {UpFrom(Front(f)) : f \in all} \cup UNION {UpFrom(d) : d \in DOMAIN rbis}
        through == {q \in (DOMAIN links) \X (all \cup dirs) : IsPrefix(links[q[1]], q[2])}
        spelled(q) == q[1] \o SubSeq(q[2], Len(links[q[1]]) + 1, Len(q[2]))
    IN  [files |-> all, dirs |-> dirs, config |-> config, locks |-> locks, rbis |-> rbis, unreadable |-> {},
         real |-> [p \in all \cup dirs \cup {spelled(q) : q \in through} |->
                     IF p \in all \cup dirs THEN p ELSE (CHOOSE q \in through : spelled(q) = p)[2]]]
Args(cmd, roots) ==
    [cmd |-> cmd, roots |-> roots, format |-> "text", dark |-> "off", jobs |-> 2, path |-> <<>>, line |-> 1, col |-> 1,
     document |-> <<>>, opened |-> "disk"]
File(text, diags) == [text |-> text, diags |-> diags, dark |-> <<>>, outcomes |-> 0]
Diag(start, severity) ==
    [start |-> start, end |-> start, def |-> NoPath, def_start |-> 0, severity |-> severity, constraint |-> FALSE]
Run(tree, a, rb) == [tree |-> tree, args |-> a, rb |-> rb, index_panics |-> FALSE]
Uniform(tree, code) == [f \in tree.files |-> code]

(***************************** closed world ********************************)
Gem(gems) == [head |-> "GEM", gems |-> gems]
Git(gems) == [head |-> "GIT", gems |-> gems]
Locks == {<<Gem({"g"})>>, <<Gem({"g"}), Gem({"h"})>>, <<Git({"g"})>>, <<Git({"h"}), Gem({"g", "g.js"})>>}
At1(dir, lock) == Append(dir, "Gemfile.lock") :> lock
None == [p \in {} |-> <<>>]
At2(lock_a, lock_b) == At1(P, lock_a) @@ At1(W, lock_b)
Gems(d, gems) == (d \o <<"sorbet", "rbi", "gems">>) :> gems
Rbis == {None} \cup {Gems(d, gems) : d \in {P, W}, gems \in {{"g"}, {"g", "h"}}}
TwoRbis == Gems(P, {"h"}) @@ Gems(W \o <<"q">>, {"g"})
Shims(dir) == dir \o <<"sorbet", "rbi", "shims">>      \* an RBI directory without gems
B == Append(A, "b")
C == Append(B, "c")
GemRoots == {<<A>>, <<L>>, <<P>>, <<Append(A, "x.rb")>>, <<B>>, <<C>>, <<A, W \o <<"q">>>>, <<L, P>>}
GemTree(gemfiles, locks, rbis, extra) ==
    Tree({Append(A, "x.rb"), Append(C, "x.rb"), W \o <<"q", "y.rb">>} \cup extra \cup {Append(d, "Gemfile") : d \in gemfiles},
         L :> A, None, locks, rbis)
\* Each Gemfile with its lock; a gemspec; a lock that cannot be read; a Gemfile
\* without a lock; a lock without a Gemfile; a nearer sorbet/rbi without gems;
\* two projects with RBIs of their own.
GemTrees ==
    {GemTree({}, None, r, {}) : r \in Rbis}
    \cup {GemTree({d}, At1(d, k), r, {}) : d \in {P, W}, k \in Locks, r \in Rbis}
    \cup {GemTree({P, W}, At2(<<Gem({"h"})>>, <<Gem({"g"})>>), r, {}) : r \in Rbis}
    \cup {GemTree({}, None, r, {Append(P, "p.gemspec")}) : r \in Rbis}
    \cup {[GemTree({P}, At1(P, <<Gem({"g"})>>), r, {}) EXCEPT !.unreadable = {Append(P, "Gemfile.lock")}] : r \in Rbis}
    \cup {GemTree(g, At2(<<Gem({"g"})>>, <<Gem({"h"})>>), r, {}) : g \in {{P}, {W}}, r \in Rbis}
    \cup {GemTree({P}, At1(W, <<Gem({"g"})>>), r, {}) : r \in Rbis}
    \cup {GemTree({P}, At1(P, <<Gem({"g"})>>), r, {Shims(A)}) : r \in Rbis}
    \cup {GemTree({P, W}, At2(<<Gem({"h"})>>, <<Gem({"g"})>>), TwoRbis, {})}
ClosedRuns == {Run(tree, Args("check", roots), Uniform(tree, File(<<"a">>, <<>>))) : tree \in GemTrees, roots \in GemRoots}

(******************************* roles *************************************)
Entry1(anchored, names) == [anchored |-> anchored, names |-> names]
Verbatim == Entry1(FALSE, <<"a flag">>)     \* a flag read as an entry names no file
Token(flag, entry, text) == [flag |-> flag, entry |-> entry, text |-> text]
Configs ==
    {<<Token("--ignore=", Entry1(TRUE, <<"v">>), Verbatim)>>,
     <<Token("--ignore=", Entry1(FALSE, <<"v", "">>), Verbatim)>>,
     <<Token("--ignore", Verbatim, Verbatim), Token("value", Verbatim, Entry1(FALSE, <<"y.rb">>))>>,
     <<Token("--ignore", Verbatim, Verbatim), Token("--ignore=", Entry1(FALSE, <<"v">>), Verbatim)>>,
     <<Token("--ignore=", Entry1(FALSE, <<"db">>), Verbatim), Token("--ignore", Verbatim, Verbatim)>>}
RoleTree(config, extra) ==
    Tree({Append(P, "x.rb"), Append(V, "y.rb")} \cup extra, L :> P,
         IF config = <<>> THEN None ELSE (P \o <<"sorbet", "config">>) :> config, None, None)
SchemaAt(dir) == dir \o <<"db", "schema.rb">>
RoleRoots == {<<P>>, <<L>>, <<P, V>>, <<V, P>>, <<Append(V, "y.rb")>>, <<L, L \o <<"v">>>>, <<P \o <<"db">>, L>>}
RoleTrees == {RoleTree(c, {SchemaAt(P)} \cup e) : c \in Configs \cup {<<>>}, e \in {{}, {SchemaAt(W)}}}
             \cup {RoleTree(c, {P \o <<"db", "structure.sql">>, SchemaAt(V)}) : c \in Configs}
RoleRuns ==
    {Run(tree, [Args("check", roots) EXCEPT !.jobs = 1], Uniform(tree, File(<<"a">>, <<Diag(0, "error")>>))) : tree \in RoleTrees, roots \in RoleRoots}

(****************************** reports ************************************)
Clean == File(<<"e", "a">>, <<>>)
Wrong == File(<<"e", "a">>, <<Diag(0, "error"), Diag(2, "warning")>>)
Inside == File(<<"e", "a">>, <<Diag(1, "error")>>)      \* a span that starts inside a character
EndsInside == File(<<"a", "e">>, <<[Diag(0, "error") EXCEPT !.end = 2]>>)
DefInside == File(<<"e", "a">>, <<[Diag(0, "warning") EXCEPT !.def = Append(P, "y.rb"), !.def_start = 1]>>)
Contradicts == [File(<<"e", "a">>, <<Diag(0, "error"), [Diag(2, "warning") EXCEPT !.constraint = TRUE]>>) EXCEPT !.outcomes = 1, !.dark = <<1, 2>>]
Flat == Tree({Append(P, "z.rb"), Append(P, "y.rb"), Append(V, "x.rb")}, None, None, None, None)
FlatFiles == {Append(P, "z.rb"), Append(P, "y.rb"), Append(V, "x.rb")}
ReportRuns ==
    {Run(Flat, [Args("check", <<P>>) EXCEPT !.jobs = j], rb) : j \in 1..3, rb \in [FlatFiles -> {Clean, Wrong, Inside}]}
    \cup {[Run(Flat, [Args("check", <<P>>) EXCEPT !.jobs = j], [p \in FlatFiles |-> Wrong]) EXCEPT !.index_panics = TRUE] : j \in 1..3}
    \cup {Run(Flat, [Args("check", <<P>>) EXCEPT !.format = f], [[p \in FlatFiles |-> Clean] EXCEPT ![Append(P, "z.rb")] = odd]) :
            f \in {"text", "json"}, odd \in {EndsInside, DefInside}}
ChannelRuns ==
    {Run([Flat EXCEPT !.unreadable = u], [Args("check", r) EXCEPT !.format = f, !.dark = d], rb) :
        f \in {"text", "agent", "unknown"}, d \in {"off", "on", "unwritable"}, r \in {<<P>>, <<>>, <<P \o <<"gone">>>>},
        u \in {{}, {Append(P, "y.rb")}},
        rb \in {[p \in FlatFiles |-> Contradicts], [p \in FlatFiles |-> IF p = Append(P, "y.rb") THEN Wrong ELSE Clean]}}

(****************************** positions **********************************)
Chars == {"a", "e", "g", "nl"}
Texts(n) == UNION {[1..k -> Chars] : k \in 0..n}
One == Append(P, "x.rb")
OneTree == Tree({One}, None, None, None, None)
PositionRuns ==
    {Run(OneTree, Args("check", <<One>>), One :> File(text, <<Diag(o, "error")>>)) :
        <<text, o>> \in {q \in Texts(3) \X (0..12) : q[2] \in Boundaries(q[1])}}
LocateRuns ==
    {Run(OneTree, [Args(c, <<>>) EXCEPT !.path = p, !.line = l, !.col = k], One :> File(text, <<>>)) :
        c \in {"definition"}, p \in {One}, l \in 0..3, k \in 0..4, text \in Texts(2)}
    \cup {Run(OneTree, [Args(c, <<>>) EXCEPT !.path = p, !.line = l, !.col = k], One :> File(text, <<>>)) :
        c \in {"hover"}, p \in {One, Append(P, "gone")}, l \in 1..2, k \in 1..4, text \in {<<"g", "e", "nl">>, <<"nl", "g", "g">>}}
    \cup {[Run(OneTree, [Args("definition", <<>>) EXCEPT !.path = One], One :> Clean) EXCEPT !.index_panics = TRUE]}

(******************************** names ************************************)
\* Names on disk: plain bytes, a percent sign before digits, characters of two
\* to four bytes, and bytes that are none.  URIs of an editor, which may escape
\* what the server does not, in digits of either case.
Parts == {<<97>>, <<Percent>>, <<50>>, <<53>>, <<32>>, <<43>>, <<195, 169>>, <<226, 130, 172>>, <<240, 159, 146, 142>>,
          <<233>>, <<226, 130>>, <<237, 160>>}
Escaped(b) == <<Percent, HexDigit(b \div 16), HexDigit(b % 16)>>
UriParts == {<<97>>, <<43>>, Escaped(97), Escaped(47), Escaped(Percent), <<Percent, 99, 51>>, Escaped(169), Escaped(255), Escaped(226), Escaped(130)}
Names(parts, n) == {<<Slash>> \o FlattenSeq(s) : s \in UNION {[1..k -> parts] : k \in 0..n}}
DiskNames == Names(Parts, 2) \cup Names({<<Percent>>, <<50>>, <<53>>, <<195, 169>>, <<226, 130>>}, 3)
UriNames == Names(UriParts, 2) \cup Names({<<97>>, Escaped(226), Escaped(130), Escaped(172)}, 3)
ServerRuns ==
    {Run(OneTree, [Args("server", <<>>) EXCEPT !.document = n], One :> Clean) : n \in DiskNames}
    \cup {Run(OneTree, [Args("server", <<>>) EXCEPT !.document = n, !.opened = "editor"], One :> Clean) : n \in UriNames}
OtherRuns == {Run(OneTree, Args("other", <<>>), One :> Clean)}

MCRuns == ClosedRuns \cup RoleRuns \cup ReportRuns \cup ChannelRuns \cup PositionRuns \cup LocateRuns \cup ServerRuns \cup OtherRuns
=============================================================================
