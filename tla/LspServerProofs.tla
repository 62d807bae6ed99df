-------------------------- MODULE LspServerProofs --------------------------
(***************************************************************************)
(* Proofs about LspServer, for any set of paths, any classification of     *)
(* them and any number of messages.                                        *)
(***************************************************************************)
EXTENDS LspServer, TLAPS

\* Each slot is full exactly while its thread stands where it fills it.
MainSlots ==
  /\ note # None <=> mpc = "write"
  /\ outmsg # None <=> mpc = "send"
  /\ mpc = "drain" => req # None
WorkerSlots == wpub # None <=> wpc \in {"check", "send"}
Slots == MainSlots /\ WorkerSlots

----------------------------------------------------------------------------
TypeInv == TypeOK /\ Slots

\* The type tag of a message tells which record it is.
LEMMA MessageFacts ==
  ASSUME NEW m \in Message
  PROVE  /\ m.type \in {"didOpen", "didChange"} => m \in Doc
         /\ m.type = "didClose" => m \in Close
         /\ m.type = "cancel" => m \in Cancel
         /\ m.type = "request" => m \in Request
BY DEF Message, Doc, Close, Cancel, Request, Bare

\* load_workspace and the fresh loop state are well typed.
LEMMA TypeInit == Init => TypeInv
<1> SUFFICES ASSUME Init PROVE TypeInv
  OBVIOUS
<1> USE ConstAssumption
<1>1. 0 \in Token /\ Token \subseteq Born /\ SchemaBorn \in Born /\ WalkBorn \in Born
  BY DEF Token, Born, SchemaBorn, WalkBorn
<1>2. NoPublish \in Publish
  BY <1>1 DEF NoPublish, Publish
<1>3. files \in [Path -> Born \cup {NoFile}]
  BY <1>1 DEF Init, LoadedFiles
<1>4. project \subseteq FileId /\ ignored \subseteq FileId
  BY <1>1 DEF Init, LoadedProject, LoadedIgnored, FileId
<1>5. /\ ctext \in [Path -> Token] /\ shown \in [Path -> Publish]
      /\ open \in [Path -> Token] /\ text \in [FileId -> Token]
  BY <1>1, <1>2 DEF Init
<1>6. EditorTypeOK /\ OutTypeOK
  BY <1>1, <1>5 DEF Init, EditorTypeOK, OutTypeOK
<1>7. LoopTypeOK /\ DocTypeOK
  BY <1>3, <1>5 DEF Init, LoopTypeOK, DocTypeOK
<1>8. DbTypeOK /\ WorkerTypeOK /\ MainTypeOK
  BY <1>4, <1>5 DEF Init, DbTypeOK, WorkerTypeOK, MainTypeOK
<1>9. Slots
  BY DEF Init, Slots, MainSlots, WorkerSlots
<1>10. FlagTypeOK
  BY Zenon DEF Init, FlagTypeOK
<1> QED
  BY <1>6, <1>7, <1>8, <1>9, <1>10 DEF Init, TypeInv, TypeOK

\* What an action leaves alone keeps its type.
LEMMA Stable ==
  /\ EditorTypeOK /\ UNCHANGED editorVars => EditorTypeOK'
  /\ OutTypeOK /\ UNCHANGED outVars => OutTypeOK'
  /\ LoopTypeOK /\ UNCHANGED <<pending, cancelled>> => LoopTypeOK'
  /\ DocTypeOK /\ UNCHANGED docVars => DocTypeOK'
  /\ DbTypeOK /\ UNCHANGED dbVars => DbTypeOK'
  /\ WorkerTypeOK /\ UNCHANGED workerVars => WorkerTypeOK'
  /\ MainTypeOK /\ UNCHANGED mainVars => MainTypeOK'
  /\ FlagTypeOK /\ UNCHANGED <<flag, exitTaken>> => FlagTypeOK'
  /\ MainSlots /\ UNCHANGED mainVars => MainSlots'
  /\ WorkerSlots /\ UNCHANGED workerVars => WorkerSlots'
BY DEF EditorTypeOK, OutTypeOK, LoopTypeOK, DocTypeOK, DbTypeOK, WorkerTypeOK, MainTypeOK,
       FlagTypeOK, MainSlots, WorkerSlots, editorVars, outVars, docVars, dbVars,
       workerVars, mainVars

\* Writing a well-typed message to the wire keeps the types.
LEMMA PostStep ==
  ASSUME TypeInv, NEW type, NEW m, sent + 1 \in Token => m \in Message, Post(type, m),
         EditorTypeOK'
  PROVE  TypeInv'
<1>1. sent + 1 \in Token
  BY ConstAssumption DEF Post, TypeInv, TypeOK, EditorTypeOK, Token
<1>2. wire' \in Seq(Message)
  BY <1>1 DEF Post, TypeInv, TypeOK
<1> QED
  BY <1>2, Stable DEF Post, TypeInv, TypeOK, Slots, loopVars

\* Whatever the editor does keeps the types.
LEMMA EditorTypeStep == TypeInv /\ EditorNext => TypeInv'
<1> SUFFICES ASSUME TypeInv, EditorNext PROVE TypeInv'
  OBVIOUS
<1> USE ConstAssumption
<1>1. ASSUME NEW p \in Path, EditorOpens(p) PROVE TypeInv'
  <2>1. sent + 1 \in Token => [type |-> "didOpen", path |-> p, ver |-> sent + 1] \in Message
    BY DEF Message, Doc
  <2>2. EditorTypeOK'
    BY <1>1 DEF EditorOpens, Post, TypeInv, TypeOK, EditorTypeOK, Token
  <2> QED BY <1>1, <2>1, <2>2, PostStep DEF EditorOpens
<1>2. ASSUME NEW p \in Path, EditorChanges(p) PROVE TypeInv'
  <2>1. sent + 1 \in Token => [type |-> "didChange", path |-> p, ver |-> sent + 1] \in Message
    BY DEF Message, Doc
  <2>2. EditorTypeOK'
    BY <1>2 DEF EditorChanges, Post, TypeInv, TypeOK, EditorTypeOK, Token
  <2> QED BY <1>2, <2>1, <2>2, PostStep DEF EditorChanges
<1>3. ASSUME NEW p \in Path, EditorCloses(p) PROVE TypeInv'
  <2>1. [type |-> "didClose", path |-> p] \in Message
    BY DEF Message, Close
  <2>2. EditorTypeOK'
    BY <1>3 DEF EditorCloses, Post, TypeInv, TypeOK, EditorTypeOK, Token
  <2> QED BY <1>3, <2>1, <2>2, PostStep DEF EditorCloses
<1>4. ASSUME NEW k \in Kinds, NEW p \in Path, EditorRequests(k, p) PROVE TypeInv'
  <2>1. asked + 1 \in Id /\ ctext[p] \in Token
    BY <1>4 DEF EditorRequests, TypeInv, TypeOK, EditorTypeOK, Id
  <2>2. [type |-> "request", id |-> asked + 1, kind |-> k, path |-> p, asof |-> ctext[p]]
          \in Message
    BY <2>1 DEF Message, Request
  <2>3. EditorTypeOK'
    BY <1>4 DEF EditorRequests, Post, TypeInv, TypeOK, EditorTypeOK, Token
  <2> QED BY <1>4, <2>2, <2>3, PostStep DEF EditorRequests
<1>5. ASSUME NEW i \in Id, EditorCancels(i) PROVE TypeInv'
  <2>1. [type |-> "cancel", id |-> i] \in Message
    BY DEF Message, Cancel
  <2>2. EditorTypeOK'
    BY <1>5 DEF EditorCancels, Post, TypeInv, TypeOK, EditorTypeOK, Token
  <2> QED BY <1>5, <2>1, <2>2, PostStep DEF EditorCancels
<1>6. ASSUME NEW type \in {"other", "malformed", "exit"}, EditorSends(type) PROVE TypeInv'
  <2>1. [type |-> type] \in Message
    BY DEF Message, Bare
  <2>2. EditorTypeOK'
    BY <1>6 DEF EditorSends, Post, TypeInv, TypeOK, EditorTypeOK, Token
  <2> QED BY <1>6, <2>1, <2>2, PostStep DEF EditorSends
<1>7. ASSUME EditorDies PROVE TypeInv'
  <2>1. EditorTypeOK'
    BY <1>7 DEF EditorDies, TypeInv, TypeOK, EditorTypeOK
  <2> QED BY <1>7, <2>1, Stable DEF EditorDies, TypeInv, TypeOK, Slots, loopVars
<1> QED
  BY <1>1, <1>2, <1>3, <1>4, <1>5, <1>6, <1>7 DEF EditorNext

\* absorb_message keeps the types, whatever the message.
LEMMA AbsorbTypeStep ==
  ASSUME TypeInv, wire # <<>>, Absorb(Head(wire))
  PROVE  TypeInv'
<1> DEFINE m == Head(wire)
<1>1. m \in Message
  BY DEF TypeInv, TypeOK
<1>2. Receive(m) => wire' \in Seq(Message) /\ mpc \in {"idle", "drain"}
  BY DEF Receive, TypeInv, TypeOK
<1> HIDE DEF m
<1> USE DEF TypeInv, TypeOK, Slots, loopVars
<1>3. CASE AbsorbRequest(m)
  <2>1. LoopTypeOK'
    BY <1>1, <1>3, MessageFacts DEF AbsorbRequest, LoopTypeOK
  <2> QED BY <1>2, <1>3, <2>1, Stable DEF AbsorbRequest
<1>4. CASE AbsorbCancel(m)
  <2>1. LoopTypeOK'
    BY <1>1, <1>4, MessageFacts DEF AbsorbCancel, LoopTypeOK, Cancel
  <2> QED BY <1>2, <1>4, <2>1, Stable DEF AbsorbCancel
<1>5. CASE AbsorbNothing(m)
  <2>1. FlagTypeOK'
    BY <1>5, Zenon DEF AbsorbNothing, FlagTypeOK
  <2> QED BY <1>2, <1>5, <2>1, Stable DEF AbsorbNothing
<1>6. CASE AbsorbMalformed(m)
  <2>1. MainTypeOK' /\ MainSlots'
    BY <1>2, <1>6 DEF AbsorbMalformed, MainTypeOK, MainSlots
  <2> QED BY <1>2, <1>6, <2>1, Stable DEF AbsorbMalformed
<1>7. CASE AbsorbOutOfRoot(m)
  <2>1. m.path \in Path
    BY <1>1, <1>7, MessageFacts DEF AbsorbOutOfRoot, Doc
  <2>2. [to |-> "warn", path |-> m.path] \in Notice
    BY <2>1 DEF Notice
  <2>3. MainTypeOK' /\ MainSlots'
    BY <1>2, <1>7, <2>2, NoneAssumption DEF AbsorbOutOfRoot, MainTypeOK, MainSlots
  <2>4. DocTypeOK'
    BY <1>7, <2>1 DEF AbsorbOutOfRoot, DocTypeOK
  <2> QED BY <1>2, <1>7, <2>3, <2>4, Stable DEF AbsorbOutOfRoot
<1>8. CASE AbsorbClose(m)
  <2>1. m.path \in Path
    BY <1>1, <1>8, MessageFacts DEF AbsorbClose, Close
  <2>2. [to |-> "clear", path |-> m.path] \in Notice
    BY <2>1 DEF Notice
  <2>3. MainTypeOK' /\ MainSlots'
    BY <1>2, <1>8, <2>2, NoneAssumption DEF AbsorbClose, MainTypeOK, MainSlots
  <2>4. DocTypeOK'
    BY <1>8, <2>1, ConstAssumption DEF AbsorbClose, DocTypeOK, Token
  <2> QED BY <1>2, <1>8, <2>3, <2>4, Stable DEF AbsorbClose
<1>9. CASE AbsorbFirstIgnored(m)
  <2>1. m.ver \in Token /\ <<m.path, m.ver>> \in FileId
    BY <1>1, <1>9, MessageFacts DEF AbsorbFirstIgnored, Doc, FileId, Born, Token
  <2>2. DbTypeOK'
    BY <1>9, <2>1 DEF AbsorbFirstIgnored, DbTypeOK
  <2> QED BY <1>2, <1>9, <2>2, Stable DEF AbsorbFirstIgnored
<1>10. CASE AbsorbWrite(m)
  <2>1. m \in Doc
    BY <1>1, <1>10, MessageFacts DEF AbsorbWrite, NeedsWrite
  <2>2. MainTypeOK' /\ MainSlots'
    BY <1>2, <1>10, <2>1, NoneAssumption DEF AbsorbWrite, MainTypeOK, MainSlots, Message
  <2>3. FlagTypeOK'
    BY <1>10, Zenon DEF AbsorbWrite, FlagTypeOK
  <2> QED BY <1>2, <1>10, <2>2, <2>3, Stable DEF AbsorbWrite
<1> QED
  BY <1>3, <1>4, <1>5, <1>6, <1>7, <1>8, <1>9, <1>10 DEF Absorb, m

\* What every completed salsa write does to the main thread's own state.
LEMMA WrittenType ==
  ASSUME TypeInv, Written, UNCHANGED <<req, outmsg, exitTaken>>
  PROVE  /\ note \in Doc /\ note.path \in Path /\ note.ver \in Token
         /\ <<note.path, note.ver>> \in FileId
         /\ MainTypeOK' /\ MainSlots' /\ FlagTypeOK' /\ rev' \in Nat
<1> USE DEF TypeInv, TypeOK, Slots, Written
<1>1. note \in Doc /\ note.path \in Path /\ note.ver \in Token
  BY DEF MainTypeOK, MainSlots, Doc
<1>2. <<note.path, note.ver>> \in FileId
  BY <1>1 DEF FileId, Born, Token
<1>3. MainTypeOK' /\ MainSlots'
  BY DEF MainTypeOK, MainSlots, Resume
<1>4. FlagTypeOK'
  BY Zenon DEF FlagTypeOK
<1>5. rev' \in Nat
  BY DEF DbTypeOK
<1> QED BY <1>1, <1>2, <1>3, <1>4, <1>5

\* The file a known path stands for is a SourceFile.
LEMMA FileInType ==
  ASSUME DocTypeOK, NEW p \in Path, HasFile(p)
  PROVE  File(p) \in FileId
BY DEF DocTypeOK, HasFile, File, FileId

\* The files a request names are SourceFiles of known paths.
LEMMA ScheduleType ==
  ASSUME NEW fs \in [Path -> Born \cup {NoFile}], NEW op \in [Path -> Token],
         workq \in Seq(SUBSET Item), Schedule(fs, op)
  PROVE  workq' \in Seq(SUBSET Item)
<1> DEFINE asked2 == {q \in Path : op[q] # 0 /\ q \notin DeclOnly /\ fs[q] # NoFile}
           items == {[file |-> <<p, fs[p]>>, ver |-> op[p]] : p \in asked2}
<1>1. items \in SUBSET Item
  BY DEF Item, FileId
<1>2. workq' = workq \/ workq' = Append(workq, items)
  BY DEF Schedule
<1> HIDE DEF items
<1> QED BY <1>1, <1>2

\* The salsa writes, with the recompute they schedule, keep the types.
LEMMA WriteTypeStep == TypeInv /\ (WriteText \/ WriteNewFile \/ WriteNewIgnored) => TypeInv'
<1> SUFFICES ASSUME TypeInv, WriteText \/ WriteNewFile \/ WriteNewIgnored PROVE TypeInv'
  OBVIOUS
<1> USE DEF TypeInv, TypeOK, Slots, loopVars
<1>1. CASE WriteText
  <2>1. /\ note.path \in Path /\ note.ver \in Token /\ rev' \in Nat
        /\ MainTypeOK' /\ MainSlots' /\ FlagTypeOK'
    BY <1>1, WrittenType DEF WriteText
  <2>2. File(note.path) \in FileId
    BY <1>1, <2>1, FileInType DEF WriteText
  <2>3. DbTypeOK'
    BY <1>1, <2>1, <2>2 DEF WriteText, DbTypeOK
  <2>4. DocTypeOK'
    BY <1>1, <2>1 DEF WriteText, DocTypeOK, OpenAt
  <2>5. workq' \in Seq(SUBSET Item)
    BY <1>1, <2>4, ScheduleType DEF WriteText, DocTypeOK
  <2> QED BY <1>1, <2>1, <2>3, <2>4, <2>5, Stable DEF WriteText
<1>2. CASE WriteNewFile
  <2>1. /\ note.path \in Path /\ note.ver \in Token /\ rev' \in Nat
        /\ <<note.path, note.ver>> \in FileId
        /\ MainTypeOK' /\ MainSlots' /\ FlagTypeOK'
    BY <1>2, WrittenType DEF WriteNewFile
  <2>2. DocTypeOK'
    BY <1>2, <2>1 DEF WriteNewFile, DocTypeOK, OpenAt, Token, Born
  <2>3. project' \subseteq FileId
    BY <1>2, <2>2 DEF WriteNewFile, ProjectOf, DocTypeOK, FileId
  <2>4. DbTypeOK'
    BY <1>2, <2>1, <2>3 DEF WriteNewFile, DbTypeOK
  <2>5. workq' \in Seq(SUBSET Item)
    BY <1>2, <2>2, ScheduleType DEF WriteNewFile, DocTypeOK
  <2> QED BY <1>2, <2>1, <2>2, <2>4, <2>5, Stable DEF WriteNewFile
<1>3. CASE WriteNewIgnored
  <2>1. /\ note.path \in Path /\ note.ver \in Token /\ rev' \in Nat
        /\ <<note.path, note.ver>> \in FileId
        /\ MainTypeOK' /\ MainSlots' /\ FlagTypeOK'
    BY <1>3, WrittenType DEF WriteNewIgnored
  <2>2. DbTypeOK'
    BY <1>3, <2>1 DEF WriteNewIgnored, DbTypeOK
  <2> QED BY <1>3, <2>1, <2>2, Stable DEF WriteNewIgnored
<1> QED BY <1>1, <1>2, <1>3

\* A reply to the request being dispatched is a response.
LEMMA ReplyType ==
  ASSUME TypeInv, mpc = "drain", NEW body \in Bodies, NEW t \in Token
  PROVE  Reply(body, t) \in Response
BY DEF TypeInv, TypeOK, Slots, MainTypeOK, MainSlots, Request, Reply, Response

\* Whatever dispatch_request answers is a response.
LEMMA AnswerType ==
  ASSUME TypeInv, mpc = "drain"
  PROVE  Answer \in Response
<1>1. \A body \in Bodies, t \in Token : Reply(body, t) \in Response
  BY ReplyType
<1>2. 0 \in Token
  BY ConstAssumption DEF Token
<1>3. req.path \in Path
  BY DEF TypeInv, TypeOK, Slots, MainTypeOK, MainSlots, Request
<1>4. HasFile(req.path) => text[File(req.path)] \in Token
  BY <1>3, FileInType DEF TypeInv, TypeOK, DbTypeOK
<1>5. Result \in Response
  BY <1>1, <1>2, <1>4 DEF Result, PositionResult, PullResult, Bodies
<1> QED BY <1>1, <1>2, <1>5 DEF Answer, Bodies

\* Popping, dispatching and sending keep the types.
LEMMA RequestTypeStep ==
  TypeInv /\ (PopRequest \/ Dispatch \/ MainSends \/ MainSendFails) => TypeInv'
<1> SUFFICES ASSUME TypeInv, PopRequest \/ Dispatch \/ MainSends \/ MainSendFails
             PROVE  TypeInv'
  OBVIOUS
<1> USE DEF TypeInv, TypeOK, Slots, loopVars
<1>1. CASE PopRequest
  <2>1. Head(pending) \in Request /\ LoopTypeOK'
    BY <1>1 DEF PopRequest, PopFront, LoopTypeOK
  <2>2. Head(pending) # None
    BY <2>1, NoneAssumption DEF Message
  <2>3. MainTypeOK' /\ MainSlots'
    BY <1>1, <2>1, <2>2 DEF PopRequest, PopFront, MainTypeOK, MainSlots
  <2> QED BY <1>1, <2>1, <2>3, Stable DEF PopRequest
<1>2. CASE Dispatch
  <2>1. Answer \in Response /\ Answer # None
    BY <1>2, AnswerType, NoneAssumption DEF Dispatch
  <2>2. MainTypeOK' /\ MainSlots'
    BY <1>2, <2>1 DEF Dispatch, MainTypeOK, MainSlots
  <2>3. LoopTypeOK'
    BY <1>2 DEF Dispatch, LoopTypeOK
  <2> QED BY <1>2, <2>2, <2>3, Stable DEF Dispatch
<1>3. CASE MainSends
  <2>1. outmsg \in Response \cup Notice
    BY <1>3 DEF MainSends, MainTypeOK, MainSlots
  <2>2. outmsg.to = "clear" => outmsg.path \in Path
    BY <2>1 DEF Response, Notice
  <2>3. outmsg.to = "request" => outmsg \in Response
    BY <2>1 DEF Response, Notice
  <2>4. Clear \in Publish
    BY ConstAssumption DEF Clear, Publish, Token
  <2>5. OutTypeOK'
    BY <1>3, <2>2, <2>3, <2>4 DEF MainSends, OutTypeOK
  <2>6. MainTypeOK' /\ MainSlots'
    BY <1>3 DEF MainSends, MainTypeOK, MainSlots, Resume
  <2> QED BY <1>3, <2>5, <2>6, Stable DEF MainSends
<1>4. CASE MainSendFails
  <2>1. MainTypeOK' /\ MainSlots'
    BY <1>4 DEF MainSendFails, MainTypeOK, MainSlots
  <2> QED BY <1>4, <2>1, Stable DEF MainSendFails
<1> QED BY <1>1, <1>2, <1>3, <1>4

\* The ways out of message_loop keep the types.
LEMMA EndTypeStep ==
  TypeInv /\ (GetExit \/ NoExit \/ ClientWentAway \/ JoinWorker) => TypeInv'
<1> SUFFICES ASSUME TypeInv, GetExit \/ NoExit \/ ClientWentAway \/ JoinWorker
             PROVE  TypeInv'
  OBVIOUS
<1> USE DEF TypeInv, TypeOK, Slots, loopVars
<1>1. CASE GetExit
  <2>1. wire' \in Seq(Message)
    BY <1>1 DEF GetExit
  <2>2. FlagTypeOK'
    BY <1>1, Zenon DEF GetExit, FlagTypeOK
  <2>3. MainTypeOK' /\ MainSlots'
    BY <1>1 DEF GetExit, MainTypeOK, MainSlots
  <2> QED BY <1>1, <2>1, <2>2, <2>3, Stable DEF GetExit
<1>2. CASE NoExit \/ ClientWentAway \/ JoinWorker
  <2>1. MainTypeOK' /\ MainSlots'
    BY <1>2 DEF NoExit, ClientWentAway, JoinWorker, MainTypeOK, MainSlots
  <2> QED BY <1>2, <2>1, Stable DEF NoExit, ClientWentAway, JoinWorker
<1> QED BY <1>1, <1>2

\* diagnostics_worker keeps the types, a panic included.
LEMMA WorkerTypeStep == TypeInv /\ (WorkerNext \/ WorkerPanics) => TypeInv'
<1> SUFFICES ASSUME TypeInv, WorkerNext \/ WorkerPanics PROVE TypeInv'
  OBVIOUS
<1> USE DEF TypeInv, TypeOK, Slots, loopVars, otherThanWorker
<1>1. CASE WorkerReceives
  <2>1. workq[Len(workq)] \in SUBSET Item
    BY <1>1 DEF WorkerReceives
  <2>2. WorkerTypeOK' /\ WorkerSlots' /\ workq' \in Seq(SUBSET Item)
    BY <1>1, <2>1 DEF WorkerReceives, WorkerTypeOK, WorkerSlots
  <2> QED BY <1>1, <2>2, Stable DEF WorkerReceives, outVars
<1>2. CASE WorkerFinishes
  <2>1. WorkerTypeOK' /\ WorkerSlots'
    BY <1>2 DEF WorkerFinishes, WorkerTypeOK, WorkerSlots
  <2> QED BY <1>2, <2>1, Stable DEF WorkerFinishes, outVars
<1>3. ASSUME NEW it \in witems, WorkerBegins(it) PROVE TypeInv'
  <2>1. it \in Item /\ it.file[1] \in Path
    BY DEF WorkerTypeOK, Item, FileId
  <2>2. [path |-> it.file[1], item |-> it, pub |-> NoPublish] \in Job
    BY <2>1, ConstAssumption DEF Job, NoPublish, Publish, Token
  <2>3. WorkerTypeOK' /\ WorkerSlots'
    BY <1>3, <2>2, NoneAssumption DEF WorkerBegins, WorkerTypeOK, WorkerSlots
  <2> QED BY <1>3, <2>3, Stable DEF WorkerBegins, outVars
<1>4. CASE WorkerChecks
  <2>1. wpub \in Job
    BY <1>4 DEF WorkerChecks, WorkerTypeOK, WorkerSlots
  <2>2. wpub.item.ver \in Token /\ text[wpub.item.file] \in Token /\ rev \in Nat
    BY <2>1 DEF Job, Item, DbTypeOK
  <2>3. wpub' \in Job
    BY <1>4, <2>1, <2>2 DEF WorkerChecks, Job, Publish
  <2>4. WorkerTypeOK' /\ WorkerSlots'
    BY <1>4, <2>3, NoneAssumption DEF WorkerChecks, WorkerTypeOK, WorkerSlots
  <2> QED BY <1>4, <2>4, Stable DEF WorkerChecks, outVars
<1>5. CASE WorkerCancelled
  <2>1. WorkerTypeOK' /\ WorkerSlots'
    BY <1>5 DEF WorkerCancelled, WorkerTypeOK, WorkerSlots
  <2> QED BY <1>5, <2>1, Stable DEF WorkerCancelled, outVars
<1>6. CASE WorkerPublishes
  <2>1. wpub \in Job
    BY <1>6 DEF WorkerPublishes, WorkerTypeOK, WorkerSlots
  <2>2. OutTypeOK'
    BY <1>6, <2>1 DEF WorkerPublishes, OutTypeOK, Job
  <2>3. WorkerTypeOK' /\ WorkerSlots'
    BY <1>6 DEF WorkerPublishes, WorkerTypeOK, WorkerSlots
  <2> QED BY <1>6, <2>2, <2>3, Stable DEF WorkerPublishes
<1>7. CASE WorkerEnds
  <2>1. WorkerTypeOK' /\ WorkerSlots' /\ workq' \in Seq(SUBSET Item)
    BY <1>7 DEF WorkerEnds, WorkerTypeOK, WorkerSlots
  <2> QED BY <1>7, <2>1, Stable DEF WorkerEnds, outVars
<1> QED
  BY <1>1, <1>2, <1>3, <1>4, <1>5, <1>6, <1>7
     DEF WorkerNext, WorkerPanics, WorkerSendFails, WorkerDisconnected

\* Every step of the server keeps the types.
LEMMA TypeStep == TypeInv /\ [Next]_vars => TypeInv'
<1> SUFFICES ASSUME TypeInv, [Next]_vars PROVE TypeInv'
  OBVIOUS
<1>1. CASE UNCHANGED vars
  BY <1>1, Stable DEF vars, TypeInv, TypeOK, Slots, loopVars
<1>2. CASE MainNext
  BY <1>2, AbsorbTypeStep, WriteTypeStep, RequestTypeStep, EndTypeStep DEF MainNext
<1> QED
  BY <1>1, <1>2, EditorTypeStep, WorkerTypeStep DEF Next

\* Every reachable state of the server, the database, the worker and the editor
\* is well typed: in particular a write, a send and a check always find the
\* notification, the message and the job they work on.
THEOREM TypeCorrect == Spec => []TypeOK
<1>1. TypeInv => TypeOK
  BY DEF TypeInv
<1> QED
  BY <1>1, TypeInit, TypeStep, PTL DEF Spec
=============================================================================
