----------------------------- MODULE LspServer -----------------------------
(***************************************************************************)
(* `ita server`: the main thread's message loop, the salsa database it     *)
(* shares with one diagnostics worker thread, and the editor at the other  *)
(* end of the two pipes (crates/itaruby_server/src/main_loop.rs).          *)
(*                                                                         *)
(* The editor numbers its messages 1, 2, ...; the number of a didOpen or a *)
(* didChange stands both for the document version and for the text it      *)
(* carries.  The server never compares versions or reads a text, it only   *)
(* has to keep the two together, so equality of the two numbers says that  *)
(* it did.  Text 0 is what was on disk when the workspace was loaded.      *)
(*                                                                         *)
(* `rev` counts the completed salsa writes: a diagnostic depends on every  *)
(* file of the project, so what a check saw is its own file's text plus    *)
(* the revision it ran in.                                                 *)
(***************************************************************************)
EXTENDS Integers, Sequences

CONSTANTS
  Path,       \* the file names the editor and the disk know
  InRoot,     \* ProjectRoot::contains
  Ignored,    \* ProjectRoot::is_ignored: sorbet/config's --ignore
  OnDisk,     \* the .rb files discover_rb_files walks
  Schema,     \* the db/schema.rb files found upward of the root
  MaxId,      \* bound: requests the editor makes; it numbers them from 1
  Sends,      \* the kinds of message this editor sends
  Kinds,      \* the request methods this editor calls
  MaxSent,    \* bound: messages the editor sends
  Panics,     \* whether check_file may panic in the worker
  None        \* no message

MsgTypes == {"didOpen", "didChange", "didClose", "cancel", "request",
             "other", "malformed", "exit", "gone"}
ReqKinds == {"definition", "hover", "diagnostic", "unknown", "malformed", "shutdown"}

ASSUME ConstAssumption ==
  /\ InRoot \subseteq Path
  /\ Ignored \subseteq Path
  /\ OnDisk \subseteq InRoot
  /\ Schema \subseteq Path
  /\ Sends \subseteq MsgTypes
  /\ Kinds \subseteq ReqKinds
  /\ MaxSent \in Nat /\ MaxId \in Nat
  /\ Panics \in BOOLEAN

Token == 0..MaxSent
Id == 1..MaxId

\* A SourceFile is a path and the occasion it was created on: the walk of the
\* root, the schema pulled in after the walk, or the didOpen that brought it.
WalkBorn == 0
SchemaBorn == -1
NoFile == -2
Born == -1..MaxSent
FileId == Path \X Born

\* Paths of the `declarations_only` set load_workspace returns.
DeclOnly == Schema \cup (OnDisk \cap Ignored)

Doc == [type : {"didOpen", "didChange"}, path : Path, ver : Token]
Close == [type : {"didClose"}, path : Path]
Cancel == [type : {"cancel"}, id : Id]
\* `asof` is the newest text of the path the editor had sent by then.
Request == [type : {"request"}, id : Id, kind : ReqKinds, path : Path, asof : Token]
Bare == [type : {"other", "malformed", "exit"}]
Message == Doc \cup Close \cup Cancel \cup Request \cup Bare

Bodies == {"answer", "null", "cancelled", "notFound", "shutdown"}
Response == [to : {"request"}, id : Id, kind : ReqKinds, body : Bodies, path : Path,
             text : Token, asof : Token]
Notice == [to : {"clear", "warn"}, path : Path]
Publish == [kind : {"none", "clear", "diag"}, ver : Token, text : Token, rev : Nat]
NoPublish == [kind |-> "none", ver |-> 0, text |-> 0, rev |-> 0]
Clear == [kind |-> "clear", ver |-> 0, text |-> 0, rev |-> 0]
Item == [file : FileId, ver : Token]
Job == [path : Path, item : Item, pub : Publish]

ASSUME NoneAssumption == None \notin Message \cup Response \cup Notice \cup Job

VARIABLES
  (* the editor *)
  sent,       \* messages sent so far
  copen,      \* documents it has open
  ctext,      \* newest text it sent of each document
  asked,      \* requests it has made; their ids are 1..asked
  cstate,     \* "on", "exited" (sent exit) or "gone" (both pipes closed)
  wire,       \* what it wrote and the main thread has not received
  shown,      \* the last publishDiagnostics it got for each path
  resps,      \* the responses it got, in order
  (* the main thread *)
  mpc,        \* where message_loop stands
  req,        \* the request popped from `pending`, while draining
  note,       \* the notification waiting for its salsa write
  outmsg,     \* the message waiting for the writer thread
  pending, cancelled, files, open, warned,
  exitTaken,  \* the reader thread stopped after handing over `exit`
  (* the salsa database *)
  text, project, ignored, rev,
  flag,       \* salsa's cancellation flag
  (* the worker thread *)
  workq,      \* the work channel; each entry also holds a Db clone
  wpc, witems, wpub

editorVars == <<sent, copen, ctext, asked, cstate>>
outVars == <<shown, resps>>
loopVars == <<pending, cancelled, exitTaken>>
docVars == <<files, open, warned>>
dbVars == <<text, project, ignored, rev>>
workerVars == <<wpc, witems, wpub>>
mainVars == <<mpc, req, note, outmsg>>
vars == <<editorVars, outVars, loopVars, docVars, dbVars, workerVars, mainVars,
          wire, flag, workq>>

HasFile(p) == files[p] # NoFile
File(p) == <<p, files[p]>>

EditorTypeOK ==
  /\ sent \in Token /\ copen \subseteq Path /\ ctext \in [Path -> Token]
  /\ asked \in 0..MaxId /\ cstate \in {"on", "exited", "gone"}
OutTypeOK == shown \in [Path -> Publish] /\ resps \in Seq(Response)
LoopTypeOK == pending \in Seq(Request) /\ cancelled \subseteq Id
FlagTypeOK == flag \in BOOLEAN /\ exitTaken \in BOOLEAN
DocTypeOK ==
  /\ files \in [Path -> Born \cup {NoFile}] /\ open \in [Path -> Token]
  /\ warned \subseteq Path
DbTypeOK ==
  /\ text \in [FileId -> Token] /\ project \subseteq FileId /\ ignored \subseteq FileId
  /\ rev \in Nat
WorkerTypeOK ==
  /\ wpc \in {"recv", "next", "check", "send", "dead"}
  /\ witems \subseteq Item /\ wpub \in Job \cup {None}
MainTypeOK ==
  /\ mpc \in {"idle", "drain", "write", "send", "awaitExit", "stop", "done", "failed"}
  /\ req \in Request \cup {None}
  /\ note \in Doc \cup {None}
  /\ outmsg \in Response \cup Notice \cup {None}

\* The type of every variable (the state of message_loop, the salsa inputs and
\* diagnostics_worker).
TypeOK ==
  /\ EditorTypeOK /\ OutTypeOK /\ LoopTypeOK /\ DocTypeOK /\ DbTypeOK
  /\ WorkerTypeOK /\ MainTypeOK /\ FlagTypeOK
  /\ wire \in Seq(Message) /\ workq \in Seq(SUBSET Item)

(***************************************************************************)
(* load_workspace.  A file --ignore matches goes to IgnoredFiles, the rest *)
(* and every discovered schema to ProjectFiles; the ignored ones join      *)
(* `files` last, over a schema entry of the same path.                     *)
(***************************************************************************)
LoadedFiles ==
  [p \in Path |-> IF p \in OnDisk THEN WalkBorn
                  ELSE IF p \in Schema THEN SchemaBorn ELSE NoFile]
MutLoadedProject ==
  {<<p, WalkBorn>> : p \in OnDisk} \cup {<<p, SchemaBorn>> : p \in Schema \ OnDisk}
LoadedProject ==
  {<<p, WalkBorn>> : p \in OnDisk \ Ignored}
    \cup {<<p, SchemaBorn>> : p \in Schema \ (OnDisk \ Ignored)}
LoadedIgnored == {<<p, WalkBorn>> : p \in OnDisk \cap Ignored}

Init ==
  /\ sent = 0 /\ copen = {} /\ ctext = [p \in Path |-> 0] /\ asked = 0
  /\ cstate = "on" /\ wire = <<>>
  /\ shown = [p \in Path |-> NoPublish] /\ resps = <<>>
  /\ mpc = "idle" /\ req = None /\ note = None /\ outmsg = None
  /\ pending = <<>> /\ cancelled = {}
  /\ files = LoadedFiles /\ open = [p \in Path |-> 0] /\ warned = {}
  /\ exitTaken = FALSE
  /\ text = [f \in FileId |-> 0]
  /\ project = LoadedProject /\ ignored = LoadedIgnored
  /\ rev = 0 /\ flag = FALSE /\ workq = <<>>
  /\ wpc = "recv" /\ witems = {} /\ wpub = None

----------------------------------------------------------------------------
(* The editor (external): a disciplined LSP client that may also die.      *)

Post(type, m) ==
  /\ cstate = "on" /\ sent < MaxSent /\ type \in Sends
  /\ sent' = sent + 1
  /\ wire' = Append(wire, m)
  /\ UNCHANGED <<outVars, loopVars, docVars, dbVars, workerVars, mainVars, flag, workq>>

EditorOpens(p) ==
  /\ p \notin copen
  /\ Post("didOpen", [type |-> "didOpen", path |-> p, ver |-> sent + 1])
  /\ copen' = copen \cup {p}
  /\ ctext' = [ctext EXCEPT ![p] = sent + 1]
  /\ UNCHANGED <<asked, cstate>>

EditorChanges(p) ==
  /\ p \in copen
  /\ Post("didChange", [type |-> "didChange", path |-> p, ver |-> sent + 1])
  /\ ctext' = [ctext EXCEPT ![p] = sent + 1]
  /\ UNCHANGED <<copen, asked, cstate>>

EditorCloses(p) ==
  /\ p \in copen
  /\ Post("didClose", [type |-> "didClose", path |-> p])
  /\ copen' = copen \ {p}
  /\ UNCHANGED <<ctext, asked, cstate>>

EditorRequests(k, p) ==
  /\ asked < MaxId
  /\ Post("request", [type |-> "request", id |-> asked + 1, kind |-> k, path |-> p,
                      asof |-> ctext[p]])
  /\ asked' = asked + 1
  /\ UNCHANGED <<copen, ctext, cstate>>

EditorCancels(i) ==
  /\ i <= asked
  /\ Post("cancel", [type |-> "cancel", id |-> i])
  /\ UNCHANGED <<copen, ctext, asked, cstate>>

EditorSends(type) ==
  /\ Post(type, [type |-> type])
  /\ cstate' = IF type = "exit" THEN "exited" ELSE cstate
  /\ UNCHANGED <<copen, ctext, asked>>

EditorDies ==
  /\ cstate # "gone" /\ "gone" \in Sends
  /\ cstate' = "gone"
  /\ UNCHANGED <<sent, copen, ctext, asked, wire, outVars, loopVars, docVars, dbVars,
                 workerVars, mainVars, flag, workq>>

EditorNext ==
  \/ \E p \in Path : EditorOpens(p) \/ EditorChanges(p) \/ EditorCloses(p)
  \/ \E k \in Kinds, p \in Path : EditorRequests(k, p)
  \/ \E i \in Id : EditorCancels(i)
  \/ \E type \in {"other", "malformed", "exit"} : EditorSends(type)
  \/ EditorDies

----------------------------------------------------------------------------
(* The main thread.                                                        *)

\* Where message_loop resumes: the drain of the popped request, or the top.
MutResume == "idle"
Resume == IF req = None THEN "idle" ELSE "drain"

\* A message comes from the blocking recv at the top of the loop when nothing
\* is pending, and from try_recv while draining.
Receive(m) ==
  /\ \/ mpc = "idle" /\ pending = <<>>
     \/ mpc = "drain"
  /\ wire' = Tail(wire)

\* The reader thread is done and nothing is left: both receives now fail.
Disconnected == wire = <<>> /\ (cstate = "gone" \/ exitTaken)

AbsorbRequest(m) ==
  /\ Receive(m) /\ m.type = "request"
  /\ pending' = Append(pending, m)
  /\ UNCHANGED <<editorVars, outVars, cancelled, exitTaken, docVars, dbVars, workerVars,
                 mainVars, flag, workq>>

AbsorbCancel(m) ==
  /\ Receive(m) /\ m.type = "cancel"
  /\ cancelled' = cancelled \cup {m.id}
  /\ UNCHANGED <<editorVars, outVars, pending, exitTaken, docVars, dbVars, workerVars,
                 mainVars, flag, workq>>

\* Notifications without effect: didSave and unknown ones, responses, `exit`,
\* a change or close of a path that has no file, a warning already given.
MutNoEffect(m) ==
  \/ m.type \in {"other", "exit"}
  \/ m.type \in {"didChange", "didClose"} /\ ~HasFile(m.path)
  \/ m.type = "didOpen" /\ m.path \notin InRoot /\ m.path \in warned
  \/ m.type = "didChange" /\ wpc = "check"
NoEffect(m) ==
  \/ m.type \in {"other", "exit"}
  \/ m.type \in {"didChange", "didClose"} /\ ~HasFile(m.path)
  \/ m.type = "didOpen" /\ m.path \notin InRoot /\ m.path \in warned

AbsorbNothing(m) ==
  /\ Receive(m) /\ NoEffect(m)
  /\ exitTaken' = (exitTaken \/ m.type = "exit")
  /\ UNCHANGED <<editorVars, outVars, pending, cancelled, docVars, dbVars, workerVars,
                 mainVars, flag, workq>>

\* Parameters serde_json refuses end the loop with an error.
AbsorbMalformed(m) ==
  /\ Receive(m) /\ m.type = "malformed"
  /\ mpc' = "failed"
  /\ UNCHANGED <<editorVars, outVars, loopVars, docVars, dbVars, workerVars,
                 req, note, outmsg, flag, workq>>

AbsorbOutOfRoot(m) ==
  /\ Receive(m) /\ m.type = "didOpen" /\ m.path \notin InRoot /\ m.path \notin warned
  /\ warned' = warned \cup {m.path}
  /\ outmsg' = [to |-> "warn", path |-> m.path]
  /\ mpc' = "send"
  /\ UNCHANGED <<editorVars, outVars, loopVars, files, open, dbVars, workerVars,
                 req, note, flag, workq>>

\* schedule_recompute: a request holds the open documents and a Db clone.
MutScheduleAll(fs, op) ==
  LET items == {[file |-> <<p, fs[p]>>, ver |-> op[p]] :
                 p \in {q \in Path : op[q] # 0 /\ fs[q] # NoFile}}
  IN workq' = IF wpc = "dead" THEN workq ELSE Append(workq, items)
MutScheduleEdited(fs, op) ==
  LET items == {[file |-> <<note.path, fs[note.path]>>, ver |-> op[note.path]]}
  IN workq' = IF wpc = "dead" THEN workq ELSE Append(workq, items)
Schedule(fs, op) ==
  LET items == {[file |-> <<p, fs[p]>>, ver |-> op[p]] :
                 p \in {q \in Path : op[q] # 0 /\ q \notin DeclOnly /\ fs[q] # NoFile}}
  IN workq' = IF wpc = "dead" THEN workq ELSE Append(workq, items)

MutAbsorbClose(m) ==
  /\ Receive(m) /\ m.type = "didClose" /\ HasFile(m.path)
  /\ open' = [open EXCEPT ![m.path] = 0]
  /\ Schedule(files, open')
  /\ outmsg' = [to |-> "clear", path |-> m.path]
  /\ mpc' = "send"
  /\ UNCHANGED <<editorVars, outVars, loopVars, files, warned, dbVars, workerVars,
                 req, note, flag>>
AbsorbClose(m) ==
  /\ Receive(m) /\ m.type = "didClose" /\ HasFile(m.path)
  /\ open' = [open EXCEPT ![m.path] = 0]
  /\ outmsg' = [to |-> "clear", path |-> m.path]
  /\ mpc' = "send"
  /\ UNCHANGED <<editorVars, outVars, loopVars, files, warned, dbVars, workerVars,
                 req, note, flag, workq>>

\* The first new ignored file of a workspace that had none: IgnoredFiles::new
\* is no setter, it neither cancels nor waits.
AbsorbFirstIgnored(m) ==
  /\ Receive(m) /\ m.type = "didOpen" /\ m.path \in InRoot /\ ~HasFile(m.path)
  /\ m.path \in Ignored /\ ignored = {}
  /\ text' = [text EXCEPT ![<<m.path, m.ver>>] = m.ver]
  /\ ignored' = {<<m.path, m.ver>>}
  /\ UNCHANGED <<editorVars, outVars, loopVars, docVars, project, rev, workerVars,
                 mainVars, flag, workq>>

\* A salsa setter raises the cancellation flag, then waits for the clones.
NeedsWrite(m) ==
  \/ m.type = "didChange" /\ HasFile(m.path)
  \/ /\ m.type = "didOpen" /\ m.path \in InRoot
     /\ HasFile(m.path) \/ m.path \notin Ignored \/ ignored # {}

AbsorbWrite(m) ==
  /\ Receive(m) /\ NeedsWrite(m)
  /\ flag' = TRUE
  /\ note' = m /\ mpc' = "write"
  /\ UNCHANGED <<editorVars, outVars, loopVars, docVars, dbVars, workerVars,
                 req, outmsg, workq>>

\* The worker drops its request, and with it the clone, when it goes back to
\* recv or ends.
MutHolds == wpc # "dead"
Holds == wpc \in {"next", "check", "send"}
ClonesGone == workq = <<>> /\ ~Holds

MutOpenAt(p, v) == [open EXCEPT ![p] = v + 1]
MutOpenKeeps(p, v) == IF open[p] # 0 THEN open ELSE [open EXCEPT ![p] = v]
OpenAt(p, v) == [open EXCEPT ![p] = v]

Written ==
  /\ mpc = "write" /\ ClonesGone
  /\ flag' = FALSE /\ rev' = rev + 1
  /\ note' = None /\ mpc' = Resume

MutWriteText ==
  /\ Written /\ HasFile(note.path)
  /\ text' = [text EXCEPT ![File(note.path)] = note.ver]
  /\ Schedule(files, open)
  /\ open' = OpenAt(note.path, note.ver)
  /\ UNCHANGED <<editorVars, outVars, loopVars, files, warned, project, ignored,
                 workerVars, req, outmsg, wire>>
WriteText ==
  /\ Written /\ HasFile(note.path)
  /\ text' = [text EXCEPT ![File(note.path)] = note.ver]
  /\ open' = OpenAt(note.path, note.ver)
  /\ Schedule(files, open')
  /\ UNCHANGED <<editorVars, outVars, loopVars, files, warned, project, ignored,
                 workerVars, req, outmsg, wire>>

MutProjectOf(fs) == {<<p, fs[p]>> : p \in {q \in Path : fs[q] # NoFile}}
ProjectOf(fs) == {<<p, fs[p]>> : p \in {q \in Path : fs[q] # NoFile}} \ ignored

WriteNewFile ==
  /\ Written /\ ~HasFile(note.path) /\ note.path \notin Ignored
  /\ text' = [text EXCEPT ![<<note.path, note.ver>>] = note.ver]
  /\ files' = [files EXCEPT ![note.path] = note.ver]
  /\ project' = ProjectOf(files')
  /\ open' = OpenAt(note.path, note.ver)
  /\ Schedule(files', open')
  /\ UNCHANGED <<editorVars, outVars, loopVars, warned, ignored, workerVars,
                 req, outmsg, wire>>

WriteNewIgnored ==
  /\ Written /\ ~HasFile(note.path) /\ note.path \in Ignored
  /\ text' = [text EXCEPT ![<<note.path, note.ver>>] = note.ver]
  /\ ignored' = ignored \cup {<<note.path, note.ver>>}
  /\ UNCHANGED <<editorVars, outVars, loopVars, docVars, project, workerVars,
                 req, outmsg, wire, workq>>

MutPopFront == <<pending[Len(pending)], SubSeq(pending, 1, Len(pending) - 1)>>
PopFront == <<Head(pending), Tail(pending)>>

PopRequest ==
  /\ mpc = "idle" /\ pending # <<>>
  /\ req' = PopFront[1] /\ pending' = PopFront[2]
  /\ mpc' = "drain"
  /\ UNCHANGED <<editorVars, outVars, cancelled, exitTaken, docVars, dbVars, workerVars,
                 note, outmsg, wire, flag, workq>>

Reply(body, t) ==
  [to |-> "request", id |-> req.id, kind |-> req.kind, body |-> body,
   path |-> req.path, text |-> t, asof |-> req.asof]

\* definition and hover: null for a path without a file.  Only this thread
\* writes, so its own queries are never cancelled.
PositionResult ==
  IF HasFile(req.path) THEN Reply("answer", text[File(req.path)]) ELSE Reply("null", 0)

\* A pull also has an empty report for declarations.
PullResult == IF req.path \in DeclOnly THEN Reply("null", 0) ELSE PositionResult

Result ==
  CASE req.kind = "diagnostic" -> PullResult
    [] req.kind \in {"definition", "hover"} -> PositionResult
    [] OTHER -> Reply("notFound", 0)

MutAnswer == IF req.kind = "shutdown" THEN Reply("shutdown", 0) ELSE Result
Answer ==
  IF req.kind = "shutdown" THEN Reply("shutdown", 0)
  ELSE IF req.id \in cancelled THEN Reply("cancelled", 0)
  ELSE Result

\* try_recv found nothing: the reader thread offers one message at a time on a
\* rendezvous channel, so this can happen although the editor has written more.
Dispatch ==
  /\ mpc = "drain"
  /\ IF req.kind = "malformed" /\ req.id \notin cancelled
     THEN mpc' = "failed" /\ UNCHANGED outmsg
     ELSE mpc' = "send" /\ outmsg' = Answer
  /\ cancelled' = IF req.kind = "shutdown" THEN cancelled ELSE cancelled \ {req.id}
  /\ req' = None
  /\ UNCHANGED <<editorVars, outVars, pending, exitTaken, docVars, dbVars, workerVars,
                 note, wire, flag, workq>>

IsShutdownReply == outmsg.to = "request" /\ outmsg.body = "shutdown"

\* The writer thread takes the message; the editor reads its pipe.
MainSends ==
  /\ mpc = "send"
  /\ shown' = IF outmsg.to = "clear" THEN [shown EXCEPT ![outmsg.path] = Clear] ELSE shown
  /\ resps' = IF outmsg.to = "request" THEN Append(resps, outmsg) ELSE resps
  /\ mpc' = IF IsShutdownReply THEN "awaitExit" ELSE Resume
  /\ outmsg' = None
  /\ UNCHANGED <<editorVars, loopVars, docVars, dbVars, workerVars, req, note,
                 wire, flag, workq>>

\* With the editor gone the writer thread ends and sends fail: an error out of
\* the loop, except for the reply to shutdown, whose send error is dropped.
MainSendFails ==
  /\ mpc = "send" /\ cstate = "gone"
  /\ mpc' = IF IsShutdownReply THEN "awaitExit" ELSE "failed"
  /\ outmsg' = None
  /\ UNCHANGED <<editorVars, outVars, loopVars, docVars, dbVars, workerVars, req, note,
                 wire, flag, workq>>

\* handle_shutdown waits 30 s for `exit`; another message, a timeout or a
\* disconnected channel is a protocol error.
GetExit ==
  /\ mpc = "awaitExit" /\ wire # <<>>
  /\ wire' = Tail(wire)
  /\ exitTaken' = (Head(wire).type = "exit")
  /\ mpc' = IF Head(wire).type = "exit" THEN "stop" ELSE "failed"
  /\ UNCHANGED <<editorVars, outVars, pending, cancelled, docVars, dbVars, workerVars,
                 req, note, outmsg, flag, workq>>

NoExit ==
  /\ mpc = "awaitExit" /\ wire = <<>>
  /\ mpc' = "failed"
  /\ UNCHANGED <<editorVars, outVars, loopVars, docVars, dbVars, workerVars,
                 req, note, outmsg, wire, flag, workq>>

\* recv fails: leave the loop, drop work_tx.
ClientWentAway ==
  /\ mpc = "idle" /\ pending = <<>> /\ Disconnected
  /\ mpc' = "stop"
  /\ UNCHANGED <<editorVars, outVars, loopVars, docVars, dbVars, workerVars,
                 req, note, outmsg, wire, flag, workq>>

JoinWorker ==
  /\ mpc = "stop" /\ wpc = "dead"
  /\ mpc' = "done"
  /\ UNCHANGED <<editorVars, outVars, loopVars, docVars, dbVars, workerVars,
                 req, note, outmsg, wire, flag, workq>>

Absorb(m) ==
  \/ AbsorbRequest(m) \/ AbsorbCancel(m) \/ AbsorbNothing(m) \/ AbsorbMalformed(m)
  \/ AbsorbOutOfRoot(m) \/ AbsorbClose(m) \/ AbsorbFirstIgnored(m) \/ AbsorbWrite(m)

MainNext ==
  \/ wire # <<>> /\ Absorb(Head(wire))
  \/ WriteText \/ WriteNewFile \/ WriteNewIgnored
  \/ PopRequest \/ Dispatch \/ MainSends \/ MainSendFails
  \/ GetExit \/ NoExit \/ ClientWentAway \/ JoinWorker

----------------------------------------------------------------------------
(* The diagnostics worker.                                                 *)

otherThanWorker == <<editorVars, resps, loopVars, docVars, dbVars, mainVars, wire, flag>>

\* Coalesce: the newest request is kept, the older ones are dropped.
WorkerReceives ==
  /\ wpc = "recv" /\ workq # <<>>
  /\ witems' = workq[Len(workq)] /\ workq' = <<>>
  /\ wpc' = "next"
  /\ UNCHANGED <<otherThanWorker, shown, wpub>>

WorkerFinishes ==
  /\ wpc = "next" /\ witems = {}
  /\ wpc' = "recv"
  /\ UNCHANGED <<otherThanWorker, shown, witems, wpub, workq>>

\* check_file begins; HashMap order is arbitrary.
WorkerBegins(it) ==
  /\ wpc = "next" /\ it \in witems /\ ~flag
  /\ witems' = witems \ {it}
  /\ wpub' = [path |-> it.file[1], item |-> it, pub |-> NoPublish]
  /\ wpc' = "check"
  /\ UNCHANGED <<otherThanWorker, shown, workq>>

WorkerChecks ==
  /\ wpc = "check"
  /\ wpub' = [wpub EXCEPT !.pub = [kind |-> "diag", ver |-> wpub.item.ver,
                                   text |-> text[wpub.item.file], rev |-> rev]]
  /\ wpc' = "send"
  /\ UNCHANGED <<otherThanWorker, shown, witems, workq>>

\* salsa unwinds a query that starts, or looks, while the flag is up.
WorkerCancelled ==
  /\ flag /\ (wpc = "check" \/ (wpc = "next" /\ witems # {}))
  /\ witems' = {} /\ wpub' = None
  /\ wpc' = "recv"
  /\ UNCHANGED <<otherThanWorker, shown, workq>>

WorkerPublishes ==
  /\ wpc = "send"
  /\ shown' = [shown EXCEPT ![wpub.path] = wpub.pub]
  /\ wpub' = None
  /\ wpc' = "next"
  /\ UNCHANGED <<otherThanWorker, witems, workq>>

WorkerEnds ==
  /\ wpc' = "dead" /\ witems' = {} /\ wpub' = None /\ workq' = <<>>
  /\ UNCHANGED <<otherThanWorker, shown>>

WorkerSendFails == wpc = "send" /\ cstate = "gone" /\ WorkerEnds

\* work_tx is dropped when message_loop leaves its loop or fails.
MutWorkerDisconnected == wpc = "recv" /\ workq = <<>> /\ mpc = "done" /\ WorkerEnds
WorkerDisconnected ==
  wpc = "recv" /\ workq = <<>> /\ mpc \in {"stop", "failed"} /\ WorkerEnds

WorkerPanics == Panics /\ wpc = "check" /\ WorkerEnds

WorkerNext ==
  \/ WorkerReceives \/ WorkerFinishes \/ WorkerChecks \/ WorkerCancelled
  \/ WorkerPublishes \/ WorkerSendFails \/ WorkerDisconnected
  \/ \E it \in witems : WorkerBegins(it)

----------------------------------------------------------------------------
Next == EditorNext \/ MainNext \/ WorkerNext \/ WorkerPanics

\* Both threads keep running, and a blocked send ends when the editor reads
\* or dies.  Nothing obliges the editor to send, nor check_file to panic.
Spec == Init /\ [][Next]_vars /\ WF_vars(MainNext) /\ WF_vars(WorkerNext)

----------------------------------------------------------------------------
(* Properties.                                                             *)

Ended == mpc \in {"stop", "done", "failed"}
Reviewed == InRoot \ (DeclOnly \cup Ignored)

\* The diagnostics an editor sees refine the one-revision-at-a-time feed: no
\* publishDiagnostics mixes two revisions or pairs a version with another text,
\* none goes back to an older text, and none is about a file not under review
\* (schedule_recompute, file_lsp_diagnostics, diagnostics_worker).
Feed == INSTANCE DiagnosticsFeed WITH
          doc <- [p \in Path |-> IF HasFile(p) THEN text[File(p)] ELSE 0],
          Text <- Token
FeedRefined == Feed!Spec

\* At most one Db clone is alive besides the main thread's: each
\* schedule_recompute follows a salsa write, and the write waited for the
\* earlier clones.  So the worker's coalescing loop never finds a newer request.
OneSnapshot == Len(workq) + (IF Holds THEN 1 ELSE 0) <= 1

\* A request the worker has yet to answer names, for each document, the file
\* the main thread knows it by and the very version whose text is in the db,
\* though the document may have been closed since.
LiveItems == (UNION {workq[i] : i \in DOMAIN workq}) \cup witems
               \cup (IF wpub = None THEN {} ELSE {wpub.item})
SnapshotCurrent ==
  \A it \in LiveItems : /\ it.file = File(it.file[1])
                         /\ it.ver = text[it.file]

\* A main thread blocked in a salsa setter always gets out: the worker, whatever
\* it is doing -- checking, sending, dead of a panic -- lets go of its clone.
WriteCompletes == (mpc = "write") ~> (mpc # "write")

\* Once the editor stops typing, every open document under review ends up with
\* diagnostics of its own version computed in the final revision, so an edit of
\* one file also refreshes the others (schedule_recompute sends all of `open`).
Converges ==
  <>[](Ended \/ \A p \in Reviewed :
                 open[p] # 0 => shown[p] = [kind |-> "diag", ver |-> open[p],
                                            text |-> open[p], rev |-> rev])

\* ProjectFiles is always the files the server knows by path less the ignored
\* ones: load_workspace and didOpen's new-file branch, the two writers, agree.
ProjectIsFiles == project = {File(p) : p \in {q \in Path : HasFile(q)}} \ ignored

\* A file --ignore matches is evidence only: it is never part of ProjectFiles,
\* under whichever SourceFile, and a pull never reports on it.
IgnoredIsEvidence ==
  /\ \A f \in project : f[1] \notin Ignored
  /\ \A i \in DOMAIN resps :
       resps[i].kind = "diagnostic" /\ resps[i].body = "answer" => resps[i].path \in Reviewed

\* An answer about a document under the root covers every edit the editor sent
\* before the request, though edits and requests take different ways through
\* the loop (edits apply at once, requests queue).
AnswerCoversEdits ==
  \A i \in DOMAIN resps :
    resps[i].body = "answer" /\ resps[i].path \in InRoot => resps[i].text >= resps[i].asof

\* Requests are answered in the order they were made, each at most once, the
\* cancelled ones included.
AnsweredInOrder ==
  \A i, j \in DOMAIN resps : i < j => resps[i].id < resps[j].id

Answered(i, bodies) == \E n \in DOMAIN resps : resps[n].id = i /\ resps[n].body \in bodies

\* Every request the editor makes is answered unless the server stops first.
RequestsAnswered ==
  \A i \in Id : (asked >= i) ~> (Answered(i, Bodies) \/ Ended)

\* A $/cancelRequest absorbed while its request still waits -- in the queue, or
\* popped and draining -- is what the request is answered with.
Waiting(i) == (req # None /\ req.id = i) \/ \E n \in DOMAIN pending : pending[n].id = i
CancelTakesEffect ==
  \A i \in Id : (i \in cancelled /\ Waiting(i))
                   ~> (Answered(i, {"cancelled", "shutdown"}) \/ Ended)

\* When the editor exits or dies, both threads end: message_loop drops work_tx
\* before it joins the worker, and every blocked send fails or completes.
ProcessEnds == (cstate # "on") ~> (mpc \in {"done", "failed"} /\ wpc = "dead")

----------------------------------------------------------------------------
(* What the comments and tests of the repository say of the server, where   *)
(* the code does otherwise.                                                 *)

\* main_loop.rs:839 -- a cancelled recompute is superseded: "A fresher snapshot is
\* already on its way; go fetch it".
FresherSnapshotFollows ==
  \A p \in Reviewed :
    (flag /\ Holds /\ open[p] # 0)
      ~> (Ended \/ open[p] = 0 \/ (shown[p].kind = "diag" /\ shown[p].ver = open[p]))

\* main_loop.rs:257 -- dispatch_request "Returns `true` when the request was
\* `shutdown`": with `exit` sent behind it, the wait for `exit` succeeds.
ShutdownThenExitSucceeds ==
  [][mpc = "awaitExit" /\ cstate = "exited" => mpc' # "failed"]_vars

\* main_loop.rs:186 -- load_workspace is to "pull any discovered declaration file
\* into the project", for good: nothing removes a file from a workspace.
SchemaStaysInProject ==
  \A p \in Schema : \E f \in project : f[1] = p
=============================================================================
