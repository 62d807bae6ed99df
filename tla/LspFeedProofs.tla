--------------------------- MODULE LspFeedProofs ---------------------------
(***************************************************************************)
(* That what the editor is shown refines DiagnosticsFeed.  The heart is    *)
(* SnapshotInv: the single Db clone alive keeps the database still, so the *)
(* request that holds it goes on describing the present.                   *)
(***************************************************************************)
EXTENDS LspServerProofs

\* Messages reach the database in the order they were sent: what is on the wire
\* is newer than what waits to be written, and that newer than every text.
HasVer(m) == m.type \in {"didOpen", "didChange"}
Ordered ==
  /\ \A i \in DOMAIN wire : HasVer(wire[i]) =>
       /\ wire[i].ver <= sent
       /\ note # None => wire[i].ver > note.ver
       /\ \A f \in FileId : wire[i].ver > text[f]
       /\ \A j \in DOMAIN wire : i < j /\ HasVer(wire[j]) => wire[i].ver < wire[j].ver
  /\ note # None => note.ver <= sent /\ \A f \in FileId : note.ver > text[f]
  /\ \A f \in FileId : text[f] <= sent

\* The version the server has of an open document is the one of its text.
OpenIsText == \A p \in Path : open[p] # 0 => HasFile(p) /\ open[p] = text[File(p)]

\* A path gets a file at load or under the root, and not if --ignore matches it.
Admitted ==
  /\ \A p \in Path : HasFile(p) /\ p \notin DeclOnly => p \in Reviewed
  /\ note # None => HasFile(note.path) \/ note.path \in InRoot

\* The worker's job is an item of its request, and a finished one is what the
\* database says now.
JobCurrent ==
  wpub # None =>
    /\ wpub.path = wpub.item.file[1]
    /\ wpc = "send" => wpub.pub = [kind |-> "diag", ver |-> wpub.item.ver,
                                   text |-> text[wpub.item.file], rev |-> rev]

\* Only documents under review are asked about.
ItemsReviewed == \A it \in LiveItems : it.file[1] \in Reviewed
\* Nothing is left to check while the worker waits for a request.
IdleIsEmpty == wpc \in {"recv", "dead"} => witems = {}

SnapshotInv ==
  JobCurrent /\ ItemsReviewed /\ IdleIsEmpty /\ OneSnapshot /\ SnapshotCurrent

IInv == TypeInv /\ Ordered /\ OpenIsText /\ Admitted /\ SnapshotInv

----------------------------------------------------------------------------
(* Order of the messages.                                                  *)

\* At load nothing has been sent and every text is the one on disk.
LEMMA OrderedInit == Init => Ordered
BY ConstAssumption DEF Init, Ordered

\* A message the editor writes is newer than everything sent before it.
LEMMA OrderedPost ==
  ASSUME TypeInv, Ordered, NEW type, NEW m, Post(type, m), HasVer(m) => m.ver = sent + 1
  PROVE  Ordered'
<1>1. /\ wire \in Seq(Message) /\ sent \in Nat /\ note' = note /\ text' = text
      /\ wire' = Append(wire, m) /\ sent' = sent + 1
      /\ \A f \in FileId : text[f] \in Nat
      /\ note # None => note.ver \in Nat
  BY ConstAssumption
     DEF Post, TypeInv, TypeOK, EditorTypeOK, DbTypeOK, MainTypeOK, dbVars, mainVars, Token, Doc
<1>2. \A i \in DOMAIN wire : HasVer(wire[i]) => wire[i].ver \in Nat
  BY <1>1, MessageFacts, ConstAssumption DEF HasVer, Doc, Token
<1>3. \A i \in DOMAIN wire' : (i \in DOMAIN wire /\ wire'[i] = wire[i])
                              \/ (i = Len(wire) + 1 /\ wire'[i] = m)
  BY <1>1
<1> QED
  BY <1>1, <1>2, <1>3 DEF Ordered

\* Taking the oldest message off the wire.
LEMMA TailFacts ==
  ASSUME TypeInv, wire # <<>>, wire' = Tail(wire)
  PROVE  /\ 1 \in DOMAIN wire /\ wire[1] = Head(wire)
         /\ \A i \in DOMAIN wire' : i + 1 \in DOMAIN wire /\ wire'[i] = wire[i + 1]
         /\ \A i \in DOMAIN wire' : i \in Int /\ 1 < i + 1
BY DEF TypeInv, TypeOK

\* Taking a message off the wire keeps the order of the rest.
LEMMA OrderedTail ==
  ASSUME TypeInv, Ordered, wire # <<>>, wire' = Tail(wire), UNCHANGED <<sent, note, text>>
  PROVE  Ordered'
BY TailFacts DEF Ordered

\* absorb_message moves at most the oldest message on, to the write or to a new file.
LEMMA OrderedAbsorb ==
  ASSUME TypeInv, Ordered, wire # <<>>, Absorb(Head(wire))
  PROVE  Ordered'
<1> DEFINE m == Head(wire)
<1>1. wire' = Tail(wire)
  BY DEF Absorb, Receive, AbsorbRequest, AbsorbCancel, AbsorbNothing, AbsorbMalformed,
         AbsorbOutOfRoot, AbsorbClose, AbsorbFirstIgnored, AbsorbWrite
<1>2. note = None \/ AbsorbWrite(m) => note = None
  BY DEF AbsorbWrite, Receive, TypeInv, Slots, MainSlots
<1>3. CASE AbsorbWrite(m)
  <2>1. note' = wire[1] /\ HasVer(wire[1]) /\ UNCHANGED <<sent, text>>
    BY <1>1, <1>3, TailFacts DEF AbsorbWrite, NeedsWrite, HasVer, editorVars, dbVars
  <2> QED BY <1>1, <2>1, TailFacts DEF Ordered
<1>4. CASE AbsorbFirstIgnored(m)
  <2>1. /\ HasVer(wire[1]) /\ UNCHANGED <<sent, note>> /\ note = None
        /\ text' = [text EXCEPT ![<<m.path, m.ver>>] = wire[1].ver]
    BY <1>1, <1>4, TailFacts DEF AbsorbFirstIgnored, Receive, HasVer, editorVars, mainVars,
       TypeInv, Slots, MainSlots
  <2>2. \A f \in FileId : text'[f] = text[f] \/ text'[f] = wire[1].ver
    BY <2>1 DEF TypeInv, TypeOK, DbTypeOK
  <2> QED BY <1>1, <2>1, <2>2, TailFacts DEF Ordered
<1>5. CASE ~AbsorbWrite(m) /\ ~AbsorbFirstIgnored(m)
  <2>1. UNCHANGED <<sent, note, text>>
    BY <1>5 DEF Absorb, AbsorbRequest, AbsorbCancel, AbsorbNothing, AbsorbMalformed,
       AbsorbOutOfRoot, AbsorbClose, editorVars, mainVars, dbVars
  <2> QED BY <1>1, <2>1, OrderedTail
<1> QED BY <1>3, <1>4, <1>5

\* A completed salsa write makes the waiting version the newest text.
LEMMA OrderedWrite ==
  ASSUME TypeInv, Ordered, WriteText \/ WriteNewFile \/ WriteNewIgnored
  PROVE  Ordered'
<1>1. note # None /\ note' = None /\ UNCHANGED <<wire, sent>>
  BY DEF WriteText, WriteNewFile, WriteNewIgnored, Written, editorVars, TypeInv, Slots, MainSlots
<1>2. \A f \in FileId : text'[f] = text[f] \/ text'[f] = note.ver
  BY DEF WriteText, WriteNewFile, WriteNewIgnored, TypeInv, TypeOK, DbTypeOK
<1> QED BY <1>1, <1>2 DEF Ordered

\* Every step keeps the messages in order.
LEMMA OrderedStep == TypeInv /\ Ordered /\ [Next]_vars => Ordered'
<1> SUFFICES ASSUME TypeInv, Ordered, [Next]_vars PROVE Ordered'
  OBVIOUS
<1>1. CASE EditorNext
  <2>1. CASE UNCHANGED <<wire, sent, note, text>>
    BY <2>1 DEF Ordered
  <2>2. ASSUME NEW type, NEW m, Post(type, m), HasVer(m) => m.ver = sent + 1 PROVE Ordered'
    BY <2>2, OrderedPost
  <2>3. CASE \E p \in Path : EditorOpens(p)
    BY <2>2, <2>3 DEF EditorOpens
  <2>4. CASE \E p \in Path : EditorChanges(p)
    BY <2>2, <2>4 DEF EditorChanges
  <2>5. CASE \E p \in Path : EditorCloses(p)
    BY <2>2, <2>5 DEF EditorCloses, HasVer
  <2>6. CASE \E k \in Kinds, p \in Path : EditorRequests(k, p)
    BY <2>2, <2>6 DEF EditorRequests, HasVer
  <2>7. CASE \E i \in Id : EditorCancels(i)
    BY <2>2, <2>7 DEF EditorCancels, HasVer
  <2>8. CASE \E type \in {"other", "malformed", "exit"} : EditorSends(type)
    BY <2>2, <2>8 DEF EditorSends, HasVer
  <2>9. CASE EditorDies
    BY <2>1, <2>9 DEF EditorDies, mainVars, dbVars
  <2> QED BY <1>1, <2>3, <2>4, <2>5, <2>6, <2>7, <2>8, <2>9 DEF EditorNext
<1>2. CASE MainNext
  <2>1. CASE UNCHANGED <<wire, sent, note, text>>
    BY <2>1 DEF Ordered
  <2>2. CASE PopRequest \/ Dispatch \/ MainSends \/ MainSendFails \/ NoExit
             \/ ClientWentAway \/ JoinWorker
    BY <2>1, <2>2 DEF PopRequest, Dispatch, MainSends, MainSendFails, NoExit,
       ClientWentAway, JoinWorker, editorVars, dbVars
  <2>3. CASE GetExit
    BY <2>3, OrderedTail DEF GetExit, editorVars, dbVars
  <2> QED BY <1>2, <2>2, <2>3, OrderedAbsorb, OrderedWrite DEF MainNext
<1>3. CASE WorkerNext \/ WorkerPanics \/ UNCHANGED vars
  <2>1. UNCHANGED <<wire, sent, note, text>>
    BY <1>3 DEF WorkerNext, WorkerReceives, WorkerFinishes, WorkerBegins, WorkerChecks,
       WorkerCancelled, WorkerPublishes, WorkerSendFails, WorkerDisconnected, WorkerPanics,
       WorkerEnds, otherThanWorker, vars, editorVars, mainVars, dbVars
  <2> QED BY <2>1 DEF Ordered
<1> QED BY <1>1, <1>2, <1>3 DEF Next

----------------------------------------------------------------------------
(* Files, versions and texts of the main thread.                           *)

\* The steps that leave the files, the open versions and the texts alone.
LEMMA QuietSteps ==
  ASSUME [Next]_vars, ~(wire # <<>> /\ Absorb(Head(wire))),
         ~(WriteText \/ WriteNewFile \/ WriteNewIgnored)
  PROVE  UNCHANGED <<files, open, text, rev, note, ignored>>
<1>1. CASE EditorNext
  BY <1>1 DEF EditorNext, EditorOpens, EditorChanges, EditorCloses, EditorRequests,
     EditorCancels, EditorSends, EditorDies, Post, docVars, dbVars, mainVars
<1>2. CASE MainNext
  BY <1>2 DEF MainNext, PopRequest, Dispatch, MainSends, MainSendFails, GetExit, NoExit,
     ClientWentAway, JoinWorker, docVars, dbVars
<1>3. CASE WorkerNext \/ WorkerPanics \/ UNCHANGED vars
  BY <1>3 DEF WorkerNext, WorkerReceives, WorkerFinishes, WorkerBegins, WorkerChecks,
     WorkerCancelled, WorkerPublishes, WorkerSendFails, WorkerDisconnected, WorkerPanics,
     WorkerEnds, otherThanWorker, vars, docVars, dbVars, mainVars
<1> QED BY <1>1, <1>2, <1>3 DEF Next

\* A write to a SourceFile of a path without a file is no write to a document.
LEMMA OtherFile ==
  ASSUME TypeInv, NEW p \in Path, ~HasFile(p), NEW b, NEW v,
         text' = [text EXCEPT ![<<p, b>>] = v]
  PROVE  \A q \in Path, c \in Born : q # p => text'[<<q, c>>] = text[<<q, c>>]
BY DEF TypeInv, TypeOK, DbTypeOK, FileId

DocInv == OpenIsText /\ Admitted

\* At load no document is open, and only walked files and schemas are known.
LEMMA DocInit == Init => DocInv
<1> SUFFICES ASSUME Init PROVE DocInv
  OBVIOUS
<1>1. \A p \in Path : HasFile(p) => p \in OnDisk \cup Schema
  BY DEF Init, HasFile, LoadedFiles
<1> QED
  BY <1>1, ConstAssumption DEF Init, DocInv, OpenIsText, Admitted, Reviewed, DeclOnly

\* absorb_message keeps versions and texts together: a close forgets the version, and
\* the first ignored file belongs to a path without a document.
LEMMA DocAbsorb ==
  ASSUME TypeInv, DocInv, wire # <<>>, Absorb(Head(wire))
  PROVE  DocInv'
<1> DEFINE m == Head(wire)
<1>1. m \in Message
  BY DEF TypeInv, TypeOK
<1>2. files' = files
  BY DEF Absorb, AbsorbRequest, AbsorbCancel, AbsorbNothing, AbsorbMalformed,
         AbsorbOutOfRoot, AbsorbClose, AbsorbFirstIgnored, AbsorbWrite, docVars
<1> HIDE DEF m
<1>3. Admitted'
  <2>1. CASE AbsorbWrite(m)
    BY <1>2, <2>1 DEF AbsorbWrite, NeedsWrite, DocInv, Admitted, HasFile, Reviewed
  <2>2. CASE ~AbsorbWrite(m)
    <3>1. note' = note
      BY <2>2 DEF Absorb, AbsorbRequest, AbsorbCancel, AbsorbNothing, AbsorbMalformed,
         AbsorbOutOfRoot, AbsorbClose, AbsorbFirstIgnored, mainVars, m
    <3> QED BY <1>2, <3>1 DEF DocInv, Admitted, HasFile, Reviewed
  <2> QED BY <2>1, <2>2
<1>4. OpenIsText'
  <2>1. CASE AbsorbClose(m)
    <3>1. text' = text /\ open' = [open EXCEPT ![m.path] = 0]
      BY <2>1 DEF AbsorbClose, dbVars
    <3> QED BY <1>2, <3>1 DEF DocInv, OpenIsText, HasFile, File, TypeInv, TypeOK, DocTypeOK
  <2>2. CASE AbsorbFirstIgnored(m)
    <3>1. m.path \in Path /\ ~HasFile(m.path) /\ open' = open
      BY <1>1, <2>2, MessageFacts DEF AbsorbFirstIgnored, Doc, docVars
    <3>2. \A q \in Path, c \in Born : q # m.path => text'[<<q, c>>] = text[<<q, c>>]
      BY <2>2, <3>1, OtherFile DEF AbsorbFirstIgnored
    <3> QED
      BY <1>2, <3>1, <3>2 DEF DocInv, OpenIsText, HasFile, File, TypeInv, TypeOK, DocTypeOK
  <2>3. CASE ~AbsorbClose(m) /\ ~AbsorbFirstIgnored(m)
    <3>1. UNCHANGED <<open, text>>
      BY <2>3 DEF Absorb, AbsorbRequest, AbsorbCancel, AbsorbNothing, AbsorbMalformed,
         AbsorbOutOfRoot, AbsorbWrite, docVars, dbVars, m
    <3> QED BY <1>2, <3>1 DEF DocInv, OpenIsText, HasFile, File
  <2> QED BY <2>1, <2>2, <2>3
<1> QED BY <1>3, <1>4 DEF DocInv

\* A write sets a document's version and its text together.
LEMMA DocWrite ==
  ASSUME TypeInv, DocInv, WriteText \/ WriteNewFile \/ WriteNewIgnored
  PROVE  DocInv'
<1> USE DEF DocInv
<1>1. Written
  BY DEF WriteText, WriteNewFile, WriteNewIgnored
<1>2. note # None /\ note' = None
  BY <1>1 DEF Written, TypeInv, Slots, MainSlots
<1>3. note.path \in Path /\ note.ver \in Token /\ <<note.path, note.ver>> \in FileId
  BY <1>2 DEF TypeInv, TypeOK, MainTypeOK, Doc, FileId, Born, Token
<1> USE DEF TypeInv, TypeOK, DocTypeOK, DbTypeOK
<1>4. CASE WriteText
  <2>1. File(note.path) \in FileId /\ HasFile(note.path)
    BY <1>3, <1>4, FileInType DEF WriteText
  <2>2. /\ files' = files
        /\ text' = [text EXCEPT ![File(note.path)] = note.ver]
        /\ open' = [open EXCEPT ![note.path] = note.ver]
    BY <1>4 DEF WriteText, OpenAt
  <2>3. OpenIsText'
    BY <1>3, <2>1, <2>2, FileInType DEF OpenIsText, HasFile, File
  <2> QED BY <1>2, <2>2, <2>3 DEF Admitted, HasFile, Reviewed
<1>5. CASE WriteNewFile
  <2>1. /\ files' = [files EXCEPT ![note.path] = note.ver]
        /\ text' = [text EXCEPT ![<<note.path, note.ver>>] = note.ver]
        /\ open' = [open EXCEPT ![note.path] = note.ver]
        /\ ~HasFile(note.path) /\ note.path \notin Ignored
    BY <1>5 DEF WriteNewFile, OpenAt
  <2>2. \A q \in Path, c \in Born : q # note.path => text'[<<q, c>>] = text[<<q, c>>]
    BY <1>3, <2>1, OtherFile
  <2>3. OpenIsText'
    <3>1. \A q \in Path : q # note.path =>
            /\ files'[q] = files[q] /\ open'[q] = open[q]
            /\ HasFile(q) => text'[<<q, files[q]>>] = text[<<q, files[q]>>]
      BY <1>3, <2>1, <2>2 DEF HasFile
    <3>2. /\ files'[note.path] = note.ver /\ open'[note.path] = note.ver
          /\ text'[<<note.path, note.ver>>] = note.ver
      BY <1>3, <2>1
    <3>3. note.ver # NoFile
      BY <1>3, ConstAssumption DEF NoFile, Token
    <3>4. \A q \in Path : q # note.path /\ open'[q] # 0 =>
            files'[q] # NoFile /\ open'[q] = text'[<<q, files'[q]>>]
      BY <3>1 DEF OpenIsText, HasFile, File
    <3>5. files'[note.path] # NoFile /\ open'[note.path] = text'[<<note.path, files'[note.path]>>]
      BY <3>2, <3>3
    <3> QED BY <3>4, <3>5 DEF OpenIsText, HasFile, File
  <2>4. Admitted'
    BY <1>2, <1>3, <2>1 DEF Admitted, HasFile, Reviewed
  <2> QED BY <2>3, <2>4
<1>6. CASE WriteNewIgnored
  <2>1. /\ files' = files /\ open' = open
        /\ text' = [text EXCEPT ![<<note.path, note.ver>>] = note.ver]
        /\ ~HasFile(note.path)
    BY <1>6 DEF WriteNewIgnored, docVars
  <2>2. \A q \in Path, c \in Born : q # note.path => text'[<<q, c>>] = text[<<q, c>>]
    BY <1>3, <2>1, OtherFile
  <2>3. OpenIsText'
    BY <2>1, <2>2 DEF OpenIsText, HasFile, File
  <2> QED BY <1>2, <2>1, <2>3 DEF Admitted, HasFile, Reviewed
<1> QED BY <1>4, <1>5, <1>6

\* Every step keeps the open versions equal to the texts.
LEMMA DocStep == TypeInv /\ DocInv /\ [Next]_vars => DocInv'
<1> SUFFICES ASSUME TypeInv, DocInv, [Next]_vars,
                    ~(wire # <<>> /\ Absorb(Head(wire))),
                    ~(WriteText \/ WriteNewFile \/ WriteNewIgnored)
             PROVE  DocInv'
  BY DocAbsorb, DocWrite
<1> QED
  BY QuietSteps DEF DocInv, OpenIsText, Admitted, HasFile, File, Reviewed

----------------------------------------------------------------------------
(* The snapshot.                                                           *)

\* At load no request exists.
LEMMA SnapshotInit == Init => SnapshotInv
BY DEF Init, SnapshotInv, JobCurrent, ItemsReviewed, IdleIsEmpty, OneSnapshot,
       SnapshotCurrent, LiveItems, Holds

\* A live request and its job only shrink; the database does not move under it.
LEMMA SnapshotShrinks ==
  ASSUME SnapshotInv, LiveItems' \subseteq LiveItems, JobCurrent', IdleIsEmpty', OneSnapshot',
         \A it \in LiveItems : /\ files'[it.file[1]] = files[it.file[1]]
                               /\ text'[it.file] = text[it.file]
  PROVE  SnapshotInv'
BY DEF SnapshotInv, ItemsReviewed, SnapshotCurrent, File, Reviewed

\* A step that touches neither the request nor the database keeps the snapshot.
LEMMA SameSnapshot ==
  ASSUME SnapshotInv, UNCHANGED <<files, text, rev, workq, wpc, witems, wpub>>
  PROVE  SnapshotInv'
BY DEF SnapshotInv, JobCurrent, ItemsReviewed, IdleIsEmpty, OneSnapshot, SnapshotCurrent,
       LiveItems, Holds, File, Reviewed

\* The file of a live item belongs to a path the server knows.
LEMMA LiveHasFile ==
  ASSUME TypeInv, SnapshotInv, NEW it \in LiveItems
  PROVE  /\ it \in Item /\ it.file[1] \in Path /\ HasFile(it.file[1])
         /\ it.file = <<it.file[1], files[it.file[1]]>> /\ files[it.file[1]] \in Born
<1>1. it \in Item
  <2>1. CASE it \in witems
    BY <2>1 DEF TypeInv, TypeOK, WorkerTypeOK
  <2>2. CASE \E i \in DOMAIN workq : it \in workq[i]
    BY <2>2 DEF TypeInv, TypeOK
  <2>3. CASE wpub # None /\ it = wpub.item
    BY <2>3 DEF TypeInv, TypeOK, WorkerTypeOK, Job
  <2> QED BY <2>1, <2>2, <2>3 DEF LiveItems
<1>2. it.file = <<it.file[1], files[it.file[1]]>>
  BY DEF SnapshotInv, SnapshotCurrent, File
<1>3. it.file[1] \in Path /\ it.file[2] \in Born
  BY <1>1 DEF Item, FileId
<1>4. files[it.file[1]] \in Born
  BY <1>2, <1>3
<1>5. HasFile(it.file[1])
  BY <1>4 DEF HasFile, Born, NoFile
<1> QED BY <1>1, <1>2, <1>3, <1>4, <1>5

\* absorb_message leaves the live request and the texts it names alone.
LEMMA SnapshotAbsorb ==
  ASSUME TypeInv, SnapshotInv, wire # <<>>, Absorb(Head(wire))
  PROVE  SnapshotInv'
<1> DEFINE m == Head(wire)
<1>1. m \in Message
  BY DEF TypeInv, TypeOK
<1>2. UNCHANGED <<files, rev, workq, wpc, witems, wpub>>
  BY DEF Absorb, AbsorbRequest, AbsorbCancel, AbsorbNothing, AbsorbMalformed, AbsorbOutOfRoot,
         AbsorbClose, AbsorbFirstIgnored, AbsorbWrite, docVars, dbVars, workerVars
<1> HIDE DEF m
<1>3. CASE AbsorbFirstIgnored(m)
  <2>1. m.path \in Path /\ ~HasFile(m.path)
    BY <1>1, <1>3, MessageFacts DEF AbsorbFirstIgnored, Doc
  <2>2. \A q \in Path, c \in Born : q # m.path => text'[<<q, c>>] = text[<<q, c>>]
    BY <1>3, <2>1, OtherFile DEF AbsorbFirstIgnored
  <2>3. \A it \in LiveItems : text'[it.file] = text[it.file]
    BY <2>1, <2>2, LiveHasFile
  <2>4. wpub # None => wpub.item \in LiveItems
    BY DEF LiveItems
  <2>5. JobCurrent'
    BY <1>2, <2>3, <2>4 DEF SnapshotInv, JobCurrent
  <2>6. LiveItems' = LiveItems /\ IdleIsEmpty' /\ OneSnapshot'
    BY <1>2 DEF LiveItems, SnapshotInv, IdleIsEmpty, OneSnapshot, Holds
  <2> QED BY <1>2, <2>3, <2>5, <2>6, SnapshotShrinks
<1>4. CASE ~AbsorbFirstIgnored(m)
  <2>1. text' = text
    BY <1>4 DEF Absorb, AbsorbRequest, AbsorbCancel, AbsorbNothing, AbsorbMalformed,
       AbsorbOutOfRoot, AbsorbClose, AbsorbWrite, dbVars, m
  <2> QED BY <1>2, <2>1, SameSnapshot
<1> QED BY <1>3, <1>4

\* A write finds no clone, so no live item; the request it schedules is made of
\* the versions and files it leaves.
LEMMA SnapshotWrite ==
  ASSUME TypeInv, TypeInv', DocInv', SnapshotInv,
         WriteText \/ WriteNewFile \/ WriteNewIgnored
  PROVE  SnapshotInv'
<1>1. workq = <<>> /\ wpc \in {"recv", "dead"} /\ UNCHANGED <<wpc, witems, wpub>>
  BY DEF WriteText, WriteNewFile, WriteNewIgnored, Written, ClonesGone, Holds, workerVars,
         TypeInv, TypeOK, WorkerTypeOK
<1>2. witems' = {} /\ wpub' = None
  BY <1>1 DEF SnapshotInv, IdleIsEmpty, TypeInv, Slots, WorkerSlots
<1>3. JobCurrent' /\ IdleIsEmpty'
  BY <1>1, <1>2 DEF JobCurrent, IdleIsEmpty
<1>4. CASE WriteNewIgnored
  <2>1. workq' = <<>>
    BY <1>1, <1>4 DEF WriteNewIgnored
  <2>2. LiveItems' = {}
    BY <1>2, <2>1 DEF LiveItems
  <2> QED
    BY <1>1, <1>3, <2>1, <2>2 DEF SnapshotInv, ItemsReviewed, SnapshotCurrent, OneSnapshot, Holds
<1>5. CASE WriteText \/ WriteNewFile
  <2> DEFINE docs == {q \in Path : open'[q] # 0 /\ q \notin DeclOnly /\ files'[q] # NoFile}
             items == {[file |-> <<p, files'[p]>>, ver |-> open'[p]] : p \in docs}
  <2>1. workq' = <<>> \/ workq' = <<items>>
    BY <1>1, <1>5 DEF WriteText, WriteNewFile, Schedule
  <2>2. \A it \in items : /\ it.file[1] \in docs
                          /\ it.file = <<it.file[1], files'[it.file[1]]>>
                          /\ it.ver = open'[it.file[1]]
    OBVIOUS
  <2>3. \A p \in docs : p \in Reviewed /\ open'[p] = text'[<<p, files'[p]>>]
    BY DEF DocInv, OpenIsText, Admitted, HasFile, File, Reviewed
  <2> HIDE DEF items
  <2>4. LiveItems' \subseteq items
    BY <1>2, <2>1 DEF LiveItems
  <2>5. ItemsReviewed' /\ SnapshotCurrent'
    BY <2>2, <2>3, <2>4 DEF ItemsReviewed, SnapshotCurrent, File, Reviewed
  <2>6. ~Holds'
    BY <1>1 DEF Holds
  <2>7. Len(workq') \in {0, 1}
    <3>1. Len(<<>>) = 0 /\ \A s : Len(<<s>>) = 1
      OBVIOUS
    <3> QED BY <2>1, <3>1
  <2>8. OneSnapshot'
    <3>1. (IF Holds' THEN 1 ELSE 0) = 0
      BY <2>6
    <3>2. \A n \in {0, 1} : n + 0 <= 1
      OBVIOUS
    <3>3. Len(workq') + (IF Holds' THEN 1 ELSE 0) <= 1
      BY <2>7, <3>1, <3>2, Zenon
    <3> QED BY <3>3, Zenon DEF OneSnapshot
  <2> QED BY <1>3, <2>5, <2>8 DEF SnapshotInv
<1> QED BY <1>4, <1>5

\* diagnostics_worker only consumes its request, and a check it finishes is of the
\* present revision.
LEMMA SnapshotWorker ==
  ASSUME TypeInv, SnapshotInv, WorkerNext \/ WorkerPanics
  PROVE  SnapshotInv'
<1> USE DEF otherThanWorker, docVars, dbVars
<1>0. ASSUME UNCHANGED <<files, text>>, LiveItems' \subseteq LiveItems,
             JobCurrent', IdleIsEmpty', OneSnapshot'
      PROVE  SnapshotInv'
  BY <1>0, SnapshotShrinks
<1>1. CASE WorkerReceives
  <2>1. Len(workq) \in DOMAIN workq /\ Len(workq) \in Nat
    BY <1>1 DEF WorkerReceives, TypeInv, TypeOK
  <2>2. LiveItems' \subseteq LiveItems
    BY <1>1, <2>1 DEF WorkerReceives, LiveItems
  <2>3. JobCurrent' /\ IdleIsEmpty' /\ OneSnapshot'
    BY <1>1 DEF WorkerReceives, SnapshotInv, JobCurrent, IdleIsEmpty, OneSnapshot, Holds
  <2> QED BY <1>0, <1>1, <2>2, <2>3 DEF WorkerReceives
<1>2. CASE WorkerFinishes
  <2>1. LiveItems' \subseteq LiveItems
    BY <1>2 DEF WorkerFinishes, LiveItems
  <2>2. JobCurrent' /\ IdleIsEmpty' /\ OneSnapshot'
    BY <1>2 DEF WorkerFinishes, SnapshotInv, JobCurrent, IdleIsEmpty, OneSnapshot, Holds,
       TypeInv, TypeOK
  <2> QED BY <1>0, <1>2, <2>1, <2>2 DEF WorkerFinishes
<1>3. ASSUME NEW it \in witems, WorkerBegins(it) PROVE SnapshotInv'
  <2>1. LiveItems' \subseteq LiveItems
    BY <1>3, NoneAssumption DEF WorkerBegins, LiveItems
  <2>2. JobCurrent' /\ IdleIsEmpty' /\ OneSnapshot'
    BY <1>3 DEF WorkerBegins, SnapshotInv, JobCurrent, IdleIsEmpty, OneSnapshot, Holds
  <2> QED BY <1>0, <1>3, <2>1, <2>2 DEF WorkerBegins
<1>4. CASE WorkerChecks
  <2>1. wpub \in Job /\ wpub # None
    BY <1>4 DEF WorkerChecks, TypeInv, TypeOK, WorkerTypeOK, Slots, WorkerSlots
  <2>2. /\ wpub'.path = wpub.path /\ wpub'.item = wpub.item
        /\ wpub'.pub = [kind |-> "diag", ver |-> wpub.item.ver,
                        text |-> text[wpub.item.file], rev |-> rev]
    BY <1>4, <2>1 DEF WorkerChecks, Job
  <2>3. LiveItems' \subseteq LiveItems
    BY <1>4, <2>1, <2>2 DEF WorkerChecks, LiveItems
  <2>4. JobCurrent'
    BY <1>4, <2>1, <2>2 DEF WorkerChecks, SnapshotInv, JobCurrent
  <2>5. IdleIsEmpty' /\ OneSnapshot'
    BY <1>4 DEF WorkerChecks, SnapshotInv, IdleIsEmpty, OneSnapshot, Holds
  <2> QED BY <1>0, <1>4, <2>3, <2>4, <2>5 DEF WorkerChecks
<1>5. CASE WorkerCancelled
  <2>1. LiveItems' \subseteq LiveItems
    BY <1>5 DEF WorkerCancelled, LiveItems
  <2>2. JobCurrent' /\ IdleIsEmpty' /\ OneSnapshot'
    BY <1>5 DEF WorkerCancelled, SnapshotInv, JobCurrent, IdleIsEmpty, OneSnapshot, Holds,
       TypeInv, TypeOK
  <2> QED BY <1>0, <1>5, <2>1, <2>2 DEF WorkerCancelled
<1>6. CASE WorkerPublishes
  <2>1. LiveItems' \subseteq LiveItems
    BY <1>6 DEF WorkerPublishes, LiveItems
  <2>2. JobCurrent' /\ IdleIsEmpty' /\ OneSnapshot'
    BY <1>6 DEF WorkerPublishes, SnapshotInv, JobCurrent, IdleIsEmpty, OneSnapshot, Holds
  <2> QED BY <1>0, <1>6, <2>1, <2>2 DEF WorkerPublishes
<1>7. CASE WorkerEnds
  <2>1. LiveItems' \subseteq LiveItems
    BY <1>7 DEF WorkerEnds, LiveItems
  <2>2. JobCurrent' /\ IdleIsEmpty' /\ OneSnapshot'
    BY <1>7 DEF WorkerEnds, JobCurrent, IdleIsEmpty, OneSnapshot, Holds
  <2> QED BY <1>0, <1>7, <2>1, <2>2 DEF WorkerEnds
<1> QED
  BY <1>1, <1>2, <1>3, <1>4, <1>5, <1>6, <1>7
     DEF WorkerNext, WorkerPanics, WorkerSendFails, WorkerDisconnected

\* Neither the editor nor the rest of the main loop touches the snapshot.
LEMMA SnapshotOthers ==
  ASSUME SnapshotInv, [Next]_vars, ~(wire # <<>> /\ Absorb(Head(wire))),
         ~(WriteText \/ WriteNewFile \/ WriteNewIgnored), ~(WorkerNext \/ WorkerPanics)
  PROVE  SnapshotInv'
<1>1. CASE EditorNext
  <2>1. UNCHANGED <<workq, wpc, witems, wpub>>
    BY <1>1 DEF EditorNext, EditorOpens, EditorChanges, EditorCloses, EditorRequests,
       EditorCancels, EditorSends, EditorDies, Post, workerVars
  <2> QED BY <2>1, QuietSteps, SameSnapshot
<1>2. CASE MainNext
  <2>1. UNCHANGED <<workq, wpc, witems, wpub>>
    BY <1>2 DEF MainNext, PopRequest, Dispatch, MainSends, MainSendFails, GetExit, NoExit,
       ClientWentAway, JoinWorker, workerVars
  <2> QED BY <2>1, QuietSteps, SameSnapshot
<1>3. CASE UNCHANGED vars
  BY <1>3, SameSnapshot DEF vars, docVars, dbVars, workerVars
<1> QED BY <1>1, <1>2, <1>3 DEF Next

\* The inductive invariant holds at load.
LEMMA IInvInit == Init => IInv
BY TypeInit, OrderedInit, DocInit, SnapshotInit DEF IInv, DocInv

\* Every step of the server keeps the inductive invariant.
LEMMA IInvStep == IInv /\ [Next]_vars => IInv'
<1> SUFFICES ASSUME IInv, [Next]_vars PROVE IInv'
  OBVIOUS
<1>1. TypeInv' /\ Ordered' /\ DocInv'
  BY TypeStep, OrderedStep, DocStep DEF IInv, DocInv
<1>2. SnapshotInv'
  BY <1>1, SnapshotAbsorb, SnapshotWrite, SnapshotWorker, SnapshotOthers DEF IInv
<1> QED BY <1>1, <1>2 DEF IInv, DocInv

\* At most one Db clone besides the main thread's is ever alive, so the worker's
\* coalescing loop has nothing to drop (schedule_recompute, diagnostics_worker).
THEOREM SnapshotUnique == Spec => []OneSnapshot
<1>1. IInv => OneSnapshot
  BY DEF IInv, SnapshotInv
<1> QED BY <1>1, IInvInit, IInvStep, PTL DEF Spec

\* As long as a recompute request is alive, its versions are those of the texts
\* the database holds, whatever the editor sends meanwhile.
THEOREM SnapshotStaysCurrent == Spec => []SnapshotCurrent
<1>1. IInv => SnapshotCurrent
  BY DEF IInv, SnapshotInv
<1> QED BY <1>1, IInvInit, IInvStep, PTL DEF Spec

----------------------------------------------------------------------------
(* The refinement.                                                         *)

\* The document text the feed sees: the one of the file a path is known by.
DocOf(p) == IF HasFile(p) THEN text[File(p)] ELSE 0
docs == [p \in Path |-> DocOf(p)]

\* Before the first message nothing was edited and nothing is shown.
LEMMA FeedInit == Init => Feed!Init
BY FileInType, TypeInit DEF Init, Feed!Init, HasFile, File, NoPublish, TypeInv, TypeOK, DocTypeOK, Born, NoFile

\* A step that changes no text of a known file and shows nothing stutters.
LEMMA FeedStutters ==
  ASSUME UNCHANGED <<files, rev, shown>>,
         \A p \in Path : HasFile(p) => text'[File(p)] = text[File(p)]
  PROVE  UNCHANGED Feed!vars
BY DEF Feed!vars, HasFile, File

\* A write to a document's file is an edit of that document to a newer text; a
\* new ignored file is evidence.
LEMMA FeedWrite ==
  ASSUME IInv, WriteText \/ WriteNewFile \/ WriteNewIgnored
  PROVE  Feed!Next
<1>1. Written /\ UNCHANGED shown
  BY DEF WriteText, WriteNewFile, WriteNewIgnored, outVars
<1>2. note # None /\ rev' = rev + 1
  BY <1>1 DEF Written, IInv, TypeInv, Slots, MainSlots
<1>3. note.path \in Path /\ note.ver \in Token /\ <<note.path, note.ver>> \in FileId
  BY <1>2 DEF IInv, TypeInv, TypeOK, MainTypeOK, Doc, FileId, Born, Token
<1>4. \A f \in FileId : note.ver > text[f]
  BY <1>2 DEF IInv, Ordered
<1>5. TypeInv /\ files \in [Path -> Born \cup {NoFile}] /\ text \in [FileId -> Token]
  BY DEF IInv, TypeInv, TypeOK, DocTypeOK, DbTypeOK
<1>6. ASSUME docs' = [docs EXCEPT ![note.path] = note.ver], note.ver > docs[note.path]
      PROVE  Feed!Next
  <2>1. Feed!Edit(note.path, note.ver)
    BY <1>1, <1>2, <1>6 DEF Feed!Edit, docs, DocOf
  <2> QED BY <1>3, <2>1 DEF Feed!Next
<1>7. CASE WriteText
  <2>1. /\ files' = files /\ HasFile(note.path) /\ File(note.path) \in FileId
        /\ text' = [text EXCEPT ![File(note.path)] = note.ver]
    BY <1>3, <1>7, FileInType DEF WriteText, IInv, TypeInv, TypeOK
  <2>2. note.ver > docs[note.path]
    BY <1>3, <1>4, <2>1 DEF docs, DocOf
  <2>3. \A p \in Path : DocOf(p)' = IF p = note.path THEN note.ver ELSE DocOf(p)
    BY <1>3, <1>5, <2>1, FileInType DEF DocOf, HasFile, File
  <2>4. docs' = [docs EXCEPT ![note.path] = note.ver]
    BY <1>3, <2>3 DEF docs
  <2> QED BY <1>6, <2>2, <2>4
<1>8. CASE WriteNewFile
  <2>1. /\ files' = [files EXCEPT ![note.path] = note.ver] /\ ~HasFile(note.path)
        /\ text' = [text EXCEPT ![<<note.path, note.ver>>] = note.ver]
    BY <1>8 DEF WriteNewFile
  <2>2. note.ver > docs[note.path]
    <3>1. text[<<note.path, note.ver>>] \in Nat /\ note.ver \in Nat
      BY <1>3, <1>5, ConstAssumption DEF Token
    <3>2. note.ver > text[<<note.path, note.ver>>]
      BY <1>3, <1>4
    <3>3. docs[note.path] = 0
      BY <1>3, <2>1 DEF docs, DocOf
    <3> QED BY <3>1, <3>2, <3>3
  <2>3. \A p \in Path : DocOf(p)' = IF p = note.path THEN note.ver ELSE DocOf(p)
    <3>1. note.ver # NoFile
      BY <1>3, ConstAssumption DEF NoFile, Token
    <3>2. ASSUME NEW p \in Path, p = note.path PROVE DocOf(p)' = note.ver
      <4>1. files'[p] = note.ver /\ text'[<<p, note.ver>>] = note.ver
        BY <1>3, <1>5, <2>1, <3>2
      <4> QED BY <3>1, <4>1 DEF DocOf, HasFile, File
    <3>3. ASSUME NEW p \in Path, p # note.path PROVE DocOf(p)' = DocOf(p)
      <4>1. files'[p] = files[p]
        BY <1>5, <2>1, <3>3
      <4>2. HasFile(p) => text'[<<p, files[p]>>] = text[<<p, files[p]>>]
        BY <1>3, <1>5, <2>1, <3>3, OtherFile DEF HasFile
      <4> QED BY <4>1, <4>2 DEF DocOf, HasFile, File
    <3> QED BY <3>2, <3>3
  <2>4. docs' = [docs EXCEPT ![note.path] = note.ver]
    BY <1>3, <2>3 DEF docs
  <2> QED BY <1>6, <2>2, <2>4
<1>9. CASE WriteNewIgnored
  <2>1. /\ files' = files /\ ~HasFile(note.path)
        /\ text' = [text EXCEPT ![<<note.path, note.ver>>] = note.ver]
    BY <1>9 DEF WriteNewIgnored, docVars
  <2>2. \A p \in Path : HasFile(p) => text'[File(p)] = text[File(p)]
    BY <1>3, <1>5, <2>1, OtherFile DEF HasFile, File
  <2>3. \A p \in Path : DocOf(p)' = DocOf(p)
    BY <2>1, <2>2 DEF DocOf, HasFile, File
  <2>4. docs' = docs
    BY <2>3 DEF docs
  <2>5. Feed!Evidence
    BY <1>1, <1>2, <2>4 DEF Feed!Evidence, docs, DocOf
  <2> QED BY <2>5 DEF Feed!Next
<1> QED BY <1>7, <1>8, <1>9

\* What the worker publishes is a report of the present revision on a document
\* under review, though it was computed earlier.
LEMMA FeedReport == ASSUME IInv, WorkerPublishes PROVE Feed!Next
<1>1. wpub # None /\ wpub.item \in LiveItems
  BY DEF WorkerPublishes, IInv, TypeInv, Slots, WorkerSlots, LiveItems
<1> DEFINE p == wpub.path
<1>2. /\ p = wpub.item.file[1]
      /\ wpub.pub = [kind |-> "diag", ver |-> wpub.item.ver,
                     text |-> text[wpub.item.file], rev |-> rev]
  BY <1>1 DEF WorkerPublishes, IInv, SnapshotInv, JobCurrent
<1>3. p \in Reviewed /\ wpub.item.file = File(p) /\ wpub.item.ver = text[File(p)]
  BY <1>1, <1>2 DEF IInv, SnapshotInv, ItemsReviewed, SnapshotCurrent
<1>4. p \in Path /\ HasFile(p)
  BY <1>1, <1>2, LiveHasFile DEF IInv
<1>5. docs[p] = text[File(p)]
  BY <1>4 DEF docs, DocOf
<1>6. shown' = [shown EXCEPT ![p] = [kind |-> "diag", ver |-> docs[p], text |-> docs[p],
                                     rev |-> rev]]
  BY <1>2, <1>3, <1>5 DEF WorkerPublishes
<1>7. UNCHANGED <<files, text, rev>>
  BY DEF WorkerPublishes, otherThanWorker, docVars, dbVars
<1>8. docs' = docs
  BY <1>7 DEF docs, DocOf, HasFile, File
<1>9. Feed!Report(p)
  BY <1>6, <1>7, <1>8 DEF Feed!Report, docs, DocOf
<1> QED BY <1>3, <1>9 DEF Feed!Next

\* The empty publish that answers didClose withdraws a report.
LEMMA FeedMainSends == ASSUME IInv, MainSends PROVE Feed!Next \/ UNCHANGED Feed!vars
<1>1. UNCHANGED <<files, text, rev>>
  BY DEF MainSends, docVars, dbVars
<1>2. docs' = docs
  BY <1>1 DEF docs, DocOf, HasFile, File
<1>3. CASE outmsg.to = "clear"
  <2>1. outmsg.path \in Path
    BY <1>3 DEF IInv, TypeInv, TypeOK, MainTypeOK, Slots, MainSlots, MainSends, Response, Notice
  <2>2. shown' = [shown EXCEPT ![outmsg.path] = [kind |-> "clear", ver |-> 0, text |-> 0,
                                                 rev |-> 0]]
    BY <1>3 DEF MainSends, Clear
  <2>3. Feed!Withdraw(outmsg.path)
    BY <1>1, <1>2, <2>2 DEF Feed!Withdraw, docs, DocOf
  <2> QED BY <2>1, <2>3 DEF Feed!Next
<1>4. CASE outmsg.to # "clear"
  BY <1>1, <1>4, FeedStutters DEF MainSends, File
<1> QED BY <1>3, <1>4

\* Absorbing a message shows nothing, and the SourceFile that the first ignored
\* file creates is no document's.
LEMMA FeedAbsorb ==
  ASSUME IInv, wire # <<>>, Absorb(Head(wire))
  PROVE  UNCHANGED Feed!vars
<1> DEFINE m == Head(wire)
<1>1. UNCHANGED <<files, rev, shown>>
  BY DEF Absorb, AbsorbRequest, AbsorbCancel, AbsorbNothing, AbsorbMalformed, AbsorbOutOfRoot,
         AbsorbClose, AbsorbFirstIgnored, AbsorbWrite, docVars, dbVars, outVars
<1>2. CASE AbsorbFirstIgnored(m)
  <2>1. m.path \in Path /\ ~HasFile(m.path) /\ TypeInv
    BY <1>2, MessageFacts DEF AbsorbFirstIgnored, Doc, IInv, TypeInv, TypeOK
  <2>2. \A q \in Path, c \in Born : q # m.path => text'[<<q, c>>] = text[<<q, c>>]
    BY <1>2, <2>1, OtherFile DEF AbsorbFirstIgnored
  <2>3. \A p \in Path : HasFile(p) => text'[File(p)] = text[File(p)]
    BY <2>1, <2>2 DEF HasFile, File, TypeInv, TypeOK, DocTypeOK
  <2> QED BY <1>1, <2>3, FeedStutters
<1>3. CASE ~AbsorbFirstIgnored(m)
  <2>1. text' = text
    BY <1>3 DEF Absorb, AbsorbRequest, AbsorbCancel, AbsorbNothing, AbsorbMalformed,
       AbsorbOutOfRoot, AbsorbClose, AbsorbWrite, dbVars
  <2> QED BY <1>1, <2>1, FeedStutters
<1> QED BY <1>2, <1>3

\* Everything else leaves the feed as it is.
LEMMA FeedOthers ==
  ASSUME [Next]_vars, ~(wire # <<>> /\ Absorb(Head(wire))),
         ~(WriteText \/ WriteNewFile \/ WriteNewIgnored), ~WorkerPublishes, ~MainSends
  PROVE  UNCHANGED Feed!vars
<1>1. UNCHANGED <<files, text, rev>>
  BY QuietSteps
<1>2. UNCHANGED shown
  <2>1. CASE EditorNext
    BY <2>1 DEF EditorNext, EditorOpens, EditorChanges, EditorCloses, EditorRequests,
       EditorCancels, EditorSends, EditorDies, Post, outVars
  <2>2. CASE MainNext
    BY <2>2 DEF MainNext, PopRequest, Dispatch, MainSendFails, GetExit, NoExit,
       ClientWentAway, JoinWorker, outVars
  <2>3. CASE WorkerNext \/ WorkerPanics \/ UNCHANGED vars
    BY <2>3 DEF WorkerNext, WorkerReceives, WorkerFinishes, WorkerBegins, WorkerChecks,
       WorkerCancelled, WorkerSendFails, WorkerDisconnected, WorkerPanics, WorkerEnds,
       vars, outVars
  <2> QED BY <2>1, <2>2, <2>3 DEF Next
<1> QED BY <1>1, <1>2, FeedStutters

\* What the editor is shown refines the one-revision-at-a-time feed, for every
\* workspace and any number of messages: no publishDiagnostics mixes revisions,
\* pairs a version with another text, goes back to an older text, or reports on
\* a document not under review.
THEOREM FeedRefinement == Spec => FeedRefined
<1>1. IInv /\ [Next]_vars => [Feed!Next]_(Feed!vars)
  BY FeedWrite, FeedReport, FeedMainSends, FeedAbsorb, FeedOthers
<1> QED BY <1>1, FeedInit, IInvInit, IInvStep, PTL DEF Spec, FeedRefined, Feed!Spec
=============================================================================
