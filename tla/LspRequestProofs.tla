-------------------------- MODULE LspRequestProofs --------------------------
(***************************************************************************)
(* What a request is answered with, and what the workspace it is answered  *)
(* from consists of.  Requests and edits leave the wire in one order but   *)
(* travel on separately, so the invariants follow each of them through     *)
(* every place it can be in.                                               *)
(***************************************************************************)
EXTENDS LspFeedProofs

(* The places a request passes through, from the editor's pipe and back.   *)
IsRequest(m) == m.type = "request"
OnWire == {wire[i] : i \in {j \in DOMAIN wire : IsRequest(wire[j])}}
Queued == {pending[i] : i \in DOMAIN pending}
Popped == IF req = None THEN {} ELSE {req}
Replying == IF outmsg # None /\ outmsg.to = "request" THEN {outmsg} ELSE {}
Done == {resps[i] : i \in DOMAIN resps}

Below(S, T) == \A a \in S, b \in T : a.id < b.id

\* In each place, and from each place to the earlier ones, the ids increase.
QueueInOrder == \A i, j \in DOMAIN pending : i < j => pending[i].id < pending[j].id
WireInOrder ==
  \A i, j \in DOMAIN wire :
    i < j /\ IsRequest(wire[i]) /\ IsRequest(wire[j]) => wire[i].id < wire[j].id
PlacesInOrder ==
  /\ Below(Done, Replying \cup Popped \cup Queued \cup OnWire)
  /\ Below(Replying, Popped \cup Queued \cup OnWire)
  /\ Below(Popped, Queued \cup OnWire)
  /\ Below(Queued, OnWire)
AllAsked == \A m \in Done \cup Replying \cup Popped \cup Queued \cup OnWire : m.id <= asked
QueueInv == AnsweredInOrder /\ QueueInOrder /\ WireInOrder /\ PlacesInOrder /\ AllAsked

\* The documents whose edits reach a file: under the root, and either loaded or
\* not matched by --ignore.
Loaded == OnDisk \cup Schema
Lands(p) == p \in InRoot /\ (p \in Loaded \/ p \notin Ignored)
KnownFiles ==
  \A p \in Path : /\ p \in Loaded => HasFile(p)
                  /\ HasFile(p) => p \in Loaded \/ p \notin Ignored

\* Text v of document p, or a newer one, is in the database, waits to be written
\* or is among the first messages of the wire, those before the n-th.
Edits(m, p, v) == HasVer(m) /\ m.path = p /\ m.ver >= v
Reaches(p, v, n) ==
  \/ v = 0
  \/ HasFile(p) /\ text[File(p)] >= v
  \/ note # None /\ Edits(note, p, v)
  \/ \E j \in DOMAIN wire : j < n /\ Edits(wire[j], p, v)

\* Likewise for the file of p: it exists, or its didOpen comes before the n-th.
Opened(p, n) ==
  \/ HasFile(p)
  \/ note # None /\ note.path = p
  \/ \E j \in DOMAIN wire : j < n /\ wire[j].type = "didOpen" /\ wire[j].path = p

OpensArrive ==
  \A p \in Path : Lands(p) =>
    /\ p \in copen => Opened(p, Len(wire) + 1)
    /\ \A i \in DOMAIN wire : wire[i].type = "didChange" /\ wire[i].path = p => Opened(p, i)
EditsArrive ==
  /\ \A p \in Path : Lands(p) => Reaches(p, ctext[p], Len(wire) + 1)
  /\ \A i \in DOMAIN wire :
       IsRequest(wire[i]) /\ Lands(wire[i].path) => Reaches(wire[i].path, wire[i].asof, i)
  /\ \A r \in Queued \cup Popped : Lands(r.path) => Reaches(r.path, r.asof, 1)
Covered(r) == r.body = "answer" /\ r.path \in InRoot => r.text >= r.asof
CoverInv ==
  /\ KnownFiles /\ AnswerCoversEdits
  /\ \A r \in Replying : Covered(r)
  /\ ~Ended => OpensArrive /\ EditsArrive

\* A file that --ignore matches is among the ignored ones under its own SourceFile.
IgnoredKnown == \A p \in Path : HasFile(p) /\ p \in Ignored => File(p) \in ignored
ProjectReviewed == \A f \in project : f[1] \notin Ignored
PullsReviewed ==
  \A r \in Done \cup Replying :
    r.kind = "diagnostic" /\ r.body = "answer" => r.path \in Reviewed
EvidenceInv == IgnoredKnown /\ ProjectReviewed

----------------------------------------------------------------------------
(* Requests in order.                                                      *)

\* Before the first message there is no request anywhere.
LEMMA QueueInit == Init => QueueInv
BY DEF Init, QueueInv, AnsweredInOrder, QueueInOrder, WireInOrder, PlacesInOrder, AllAsked,
       Below, OnWire, Queued, Popped, Replying, Done

\* A step that adds no request to any place keeps the order between the places.
LEMMA QueueShrinks ==
  ASSUME QueueInv, asked' = asked,
         AnsweredInOrder', QueueInOrder', WireInOrder',
         Done' \subseteq Done, Replying' \subseteq Replying, Popped' \subseteq Popped,
         Queued' \subseteq Queued, OnWire' \subseteq OnWire
  PROVE  QueueInv'
<1>1. PlacesInOrder' /\ AllAsked'
  BY DEF QueueInv, PlacesInOrder, AllAsked, Below
<1> QED BY <1>1 DEF QueueInv

\* The oldest message comes off: the rest stays in order behind it.
LEMMA WireTail ==
  ASSUME TypeInv, WireInOrder, wire # <<>>, wire' = Tail(wire)
  PROVE  /\ WireInOrder' /\ OnWire' \subseteq OnWire
         /\ IsRequest(Head(wire)) => Head(wire) \in OnWire /\ Below({Head(wire)}, OnWire')
<1>1. WireInOrder'
  BY TailFacts DEF WireInOrder
<1>2. OnWire' \subseteq OnWire
  BY TailFacts DEF OnWire
<1>3. ASSUME IsRequest(Head(wire))
      PROVE  Head(wire) \in OnWire /\ Below({Head(wire)}, OnWire')
  BY <1>3, TailFacts DEF OnWire, Below, WireInOrder
<1> QED BY <1>1, <1>2, <1>3

\* What the editor writes goes to the end of the wire.
LEMMA WirePost ==
  ASSUME TypeInv, NEW type, NEW m, Post(type, m)
  PROVE  /\ wire \in Seq(Message) /\ wire' = Append(wire, m)
         /\ Len(wire) \in Nat /\ Len(wire') = Len(wire) + 1
         /\ \A i \in DOMAIN wire : i \in DOMAIN wire' /\ wire'[i] = wire[i] /\ i <= Len(wire)
         /\ \A i \in DOMAIN wire' : \/ i \in DOMAIN wire /\ wire'[i] = wire[i]
                                    \/ i = Len(wire) + 1 /\ wire'[i] = m
BY DEF Post, TypeInv, TypeOK

\* The ids of requests and responses are numbers.
LEMMA IdsAreNumbers ==
  ASSUME TypeInv
  PROVE  /\ asked \in Nat
         /\ \A m \in Done \cup Replying \cup Popped \cup Queued \cup OnWire : m.id \in Nat
<1>1. asked \in Nat /\ Id \subseteq Nat
  BY ConstAssumption DEF TypeInv, TypeOK, EditorTypeOK, Id
<1>2. \A m \in Done : m.id \in Id
  <2>1. \A m \in Done : m \in Response
    BY DEF Done, TypeInv, TypeOK, OutTypeOK
  <2> QED BY <2>1 DEF Response
<1>3. \A m \in Replying : m.id \in Id
  BY DEF Replying, TypeInv, TypeOK, MainTypeOK, Response, Notice
<1>4. \A m \in Popped : m.id \in Id
  BY DEF Popped, TypeInv, TypeOK, MainTypeOK, Request
<1>5. \A m \in Queued : m.id \in Id
  <2>1. \A m \in Queued : m \in Request
    BY DEF Queued, TypeInv, TypeOK, LoopTypeOK
  <2> QED BY <2>1 DEF Request
<1>6. \A m \in OnWire : m.id \in Id
  <2>1. \A i \in DOMAIN wire : wire[i] \in Message
    BY DEF TypeInv, TypeOK
  <2>2. \A m \in OnWire : m \in Message /\ m.type = "request"
    BY <2>1 DEF OnWire, IsRequest
  <2> QED BY <2>2, MessageFacts DEF Request
<1> QED BY <1>1, <1>2, <1>3, <1>4, <1>5, <1>6

\* Whatever the editor writes: a new request has the next id.
LEMMA QueueEditor == ASSUME TypeInv, QueueInv, EditorNext PROVE QueueInv'
<1>1. UNCHANGED <<pending, req, outmsg, resps>>
  BY DEF EditorNext, EditorOpens, EditorChanges, EditorCloses, EditorRequests,
     EditorCancels, EditorSends, EditorDies, Post, loopVars, mainVars, outVars
<1>2. /\ Done' = Done /\ Replying' = Replying /\ Popped' = Popped /\ Queued' = Queued
      /\ AnsweredInOrder' /\ QueueInOrder'
  BY <1>1 DEF QueueInv, Done, Replying, Popped, Queued, AnsweredInOrder, QueueInOrder
<1>3. ASSUME NEW type, NEW m, Post(type, m), ~IsRequest(m), asked' = asked PROVE QueueInv'
  <2>1. OnWire' \subseteq OnWire
    BY <1>3, WirePost DEF OnWire
  <2>2. WireInOrder'
    BY <1>3, WirePost DEF QueueInv, WireInOrder
  <2> QED BY <1>2, <1>3, <2>1, <2>2, QueueShrinks
<1>4. ASSUME NEW k \in Kinds, NEW p \in Path, EditorRequests(k, p) PROVE QueueInv'
  <2> DEFINE m == [type |-> "request", id |-> asked + 1, kind |-> k, path |-> p,
                   asof |-> ctext[p]]
  <2>1. Post("request", m) /\ asked' = asked + 1
    BY <1>4 DEF EditorRequests
  <2>2. m.id = asked + 1
    OBVIOUS
  <2> HIDE DEF m
  <2>3. \A x \in Done \cup Replying \cup Popped \cup Queued \cup OnWire :
          x.id < m.id /\ x.id <= asked'
    BY <2>1, <2>2, IdsAreNumbers DEF QueueInv, AllAsked
  <2>4. \A x \in OnWire' : x \in OnWire \/ x = m
    BY <2>1, WirePost DEF OnWire
  <2>5. WireInOrder'
    <3>1. \A i \in DOMAIN wire : IsRequest(wire[i]) => wire[i].id < m.id
      BY <2>3 DEF OnWire
    <3> QED BY <2>1, <3>1, WirePost DEF QueueInv, WireInOrder
  <2>6. PlacesInOrder'
    BY <1>2, <2>3, <2>4 DEF QueueInv, PlacesInOrder, Below
  <2>7. AllAsked'
    BY <1>2, <2>1, <2>2, <2>3, <2>4, IdsAreNumbers DEF AllAsked
  <2> QED BY <1>2, <2>5, <2>6, <2>7 DEF QueueInv
<1>5. CASE \E p \in Path : EditorOpens(p) \/ EditorChanges(p) \/ EditorCloses(p)
  BY <1>3, <1>5 DEF EditorOpens, EditorChanges, EditorCloses, IsRequest
<1>6. CASE \E i \in Id : EditorCancels(i)
  BY <1>3, <1>6 DEF EditorCancels, IsRequest
<1>7. CASE \E type \in {"other", "malformed", "exit"} : EditorSends(type)
  BY <1>3, <1>7 DEF EditorSends, IsRequest
<1>8. CASE EditorDies
  <2>1. OnWire' \subseteq OnWire /\ WireInOrder' /\ asked' = asked
    BY <1>8 DEF EditorDies, OnWire, QueueInv, WireInOrder
  <2> QED BY <1>2, <2>1, QueueShrinks
<1> QED BY <1>4, <1>5, <1>6, <1>7, <1>8 DEF EditorNext

\* A request leaves the wire for the end of the queue.
LEMMA QueueAbsorbRequest ==
  ASSUME TypeInv, QueueInv, wire # <<>>, AbsorbRequest(Head(wire))
  PROVE  QueueInv'
<1> DEFINE m == Head(wire)
<1>1. /\ IsRequest(m) /\ wire' = Tail(wire) /\ pending' = Append(pending, m)
      /\ UNCHANGED <<req, outmsg, resps, asked>>
  BY DEF AbsorbRequest, Receive, IsRequest, editorVars, mainVars, outVars
<1>2. WireInOrder' /\ OnWire' \subseteq OnWire /\ m \in OnWire /\ Below({m}, OnWire')
  BY <1>1, WireTail DEF QueueInv
<1> HIDE DEF m
<1>3. /\ Done' = Done /\ Replying' = Replying /\ Popped' = Popped /\ AnsweredInOrder'
  BY <1>1 DEF QueueInv, Done, Replying, Popped, AnsweredInOrder
<1>4. /\ \A i \in DOMAIN pending' : \/ i \in DOMAIN pending /\ pending'[i] = pending[i]
                                    \/ i = Len(pending) + 1 /\ pending'[i] = m
      /\ Len(pending) \in Nat
      /\ \A i \in DOMAIN pending : i <= Len(pending) /\ pending[i].id < m.id
  <2>1. pending \in Seq(Request)
    BY DEF TypeInv, TypeOK, LoopTypeOK
  <2>2. \A i \in DOMAIN pending : pending[i].id < m.id
    BY <1>2 DEF QueueInv, PlacesInOrder, Below, Queued
  <2> QED BY <1>1, <2>1, <2>2
<1>5. QueueInOrder'
  BY <1>4 DEF QueueInv, QueueInOrder
<1>6. \A x \in Queued' : x \in Queued \/ x = m
  BY <1>4 DEF Queued
<1>7. PlacesInOrder'
  BY <1>2, <1>3, <1>6 DEF QueueInv, PlacesInOrder, Below
<1>8. AllAsked'
  BY <1>1, <1>2, <1>3, <1>6 DEF QueueInv, AllAsked
<1> QED BY <1>2, <1>3, <1>5, <1>7, <1>8 DEF QueueInv

\* Any other message the loop absorbs, and the one the wait for `exit` takes, is no
\* request that goes on.
LEMMA QueueTakes ==
  ASSUME TypeInv, QueueInv, wire # <<>>,
         (Absorb(Head(wire)) /\ ~AbsorbRequest(Head(wire))) \/ GetExit
  PROVE  QueueInv'
<1>1. /\ wire' = Tail(wire) /\ UNCHANGED <<req, resps, asked, pending>>
      /\ outmsg' = outmsg \/ outmsg'.to # "request"
  BY DEF Absorb, Receive, AbsorbCancel, AbsorbNothing, AbsorbMalformed, AbsorbOutOfRoot,
     AbsorbClose, AbsorbFirstIgnored, AbsorbWrite, GetExit, editorVars, mainVars, outVars,
     loopVars
<1>2. /\ Done' = Done /\ Replying' \subseteq Replying /\ Popped' = Popped /\ Queued' = Queued
      /\ AnsweredInOrder' /\ QueueInOrder'
  BY <1>1 DEF QueueInv, Done, Replying, Popped, Queued, AnsweredInOrder, QueueInOrder
<1>3. WireInOrder' /\ OnWire' \subseteq OnWire
  BY <1>1, WireTail DEF QueueInv
<1> QED BY <1>1, <1>2, <1>3, QueueShrinks

\* The loop pops the oldest queued request, and answers it before it pops another.
LEMMA QueueServes ==
  ASSUME TypeInv, QueueInv, PopRequest \/ Dispatch \/ MainSends \/ MainSendFails
  PROVE  QueueInv'
<1>1. OnWire' = OnWire /\ WireInOrder' /\ asked' = asked
  BY DEF PopRequest, Dispatch, MainSends, MainSendFails, OnWire, QueueInv, WireInOrder,
     editorVars
<1>2. CASE PopRequest
  <2>1. /\ pending \in Seq(Request) /\ pending # <<>>
        /\ req' = Head(pending) /\ pending' = Tail(pending) /\ UNCHANGED <<outmsg, resps>>
    BY <1>2 DEF PopRequest, PopFront, TypeInv, TypeOK, LoopTypeOK, outVars
  <2>2. /\ 1 \in DOMAIN pending /\ Head(pending) = pending[1]
        /\ \A i \in DOMAIN pending' : i + 1 \in DOMAIN pending /\ pending'[i] = pending[i + 1]
        /\ \A i \in DOMAIN pending' : i \in Int /\ 1 < i + 1
    BY <2>1
  <2>3. QueueInOrder'
    BY <2>2 DEF QueueInv, QueueInOrder
  <2>4. Queued' \subseteq Queued /\ req' \in Queued /\ Below({req'}, Queued')
    BY <2>1, <2>2 DEF Queued, Below, QueueInv, QueueInOrder
  <2>5. Popped' \subseteq {req'} /\ Replying' = Replying /\ Done' = Done /\ Replying = {}
    BY <1>2, <2>1 DEF Popped, Replying, Done, PopRequest, TypeInv, Slots, MainSlots
  <2>6. PlacesInOrder'
    BY <1>1, <2>4, <2>5 DEF QueueInv, PlacesInOrder, Below
  <2>7. AllAsked'
    BY <1>1, <2>4, <2>5 DEF QueueInv, AllAsked
  <2>8. AnsweredInOrder'
    BY <2>1 DEF QueueInv, AnsweredInOrder
  <2> QED BY <1>1, <2>3, <2>6, <2>7, <2>8 DEF QueueInv
<1>3. CASE Dispatch
  <2>1. req # None /\ req' = None /\ UNCHANGED <<pending, resps>> /\ outmsg = None
    BY <1>3 DEF Dispatch, TypeInv, Slots, MainSlots, outVars
  <2>2. outmsg' # None => outmsg'.id = req.id
    BY <1>3, <2>1
       DEF Dispatch, Answer, Result, PullResult, PositionResult, Reply
  <2>3. \A x \in Replying' : x.id = req.id
    BY <2>2 DEF Replying
  <2>4. Popped' = {} /\ Queued' = Queued /\ Done' = Done /\ req \in Popped
    BY <2>1 DEF Popped, Queued, Done
  <2>5. PlacesInOrder'
    BY <1>1, <2>3, <2>4 DEF QueueInv, PlacesInOrder, Below
  <2>6. AllAsked'
    BY <1>1, <2>3, <2>4 DEF QueueInv, AllAsked
  <2>7. AnsweredInOrder' /\ QueueInOrder'
    BY <2>1 DEF QueueInv, AnsweredInOrder, QueueInOrder
  <2> QED BY <1>1, <2>5, <2>6, <2>7 DEF QueueInv
<1>4. CASE MainSends
  <2>1. outmsg # None /\ outmsg' = None /\ UNCHANGED <<pending, req>>
    BY <1>4 DEF MainSends, TypeInv, Slots, MainSlots, loopVars
  <2>2. /\ \A i \in DOMAIN resps' : \/ i \in DOMAIN resps /\ resps'[i] = resps[i]
                                    \/ /\ i = Len(resps) + 1 /\ resps'[i] = outmsg
                                       /\ outmsg \in Replying
        /\ Len(resps) \in Nat
        /\ \A i \in DOMAIN resps : i <= Len(resps)
    BY <1>4, <2>1 DEF MainSends, Replying, TypeInv, TypeOK, OutTypeOK
  <2>3. \A x \in Done' : x \in Done \cup Replying
    BY <2>2 DEF Done
  <2>4. Replying' = {} /\ Popped' = Popped /\ Queued' = Queued
    BY <2>1 DEF Replying, Popped, Queued
  <2>5. AnsweredInOrder'
    <3>1. \A i \in DOMAIN resps : outmsg \in Replying => resps[i].id < outmsg.id
      BY DEF QueueInv, PlacesInOrder, Below, Done
    <3> QED BY <2>2, <3>1 DEF QueueInv, AnsweredInOrder
  <2>6. PlacesInOrder' /\ AllAsked'
    BY <1>1, <2>3, <2>4 DEF QueueInv, PlacesInOrder, AllAsked, Below
  <2>7. QueueInOrder'
    BY <2>1 DEF QueueInv, QueueInOrder
  <2> QED BY <1>1, <2>5, <2>6, <2>7 DEF QueueInv
<1>5. CASE MainSendFails
  <2>1. outmsg' = None /\ UNCHANGED <<pending, req, resps>>
    BY <1>5 DEF MainSendFails, loopVars, outVars
  <2>2. /\ Replying' = {} /\ Popped' = Popped /\ Queued' = Queued /\ Done' = Done
        /\ AnsweredInOrder' /\ QueueInOrder'
    BY <2>1 DEF Replying, Popped, Queued, Done, QueueInv, AnsweredInOrder, QueueInOrder
  <2> QED BY <1>1, <2>2, QueueShrinks
<1> QED BY <1>2, <1>3, <1>4, <1>5

\* Writes, the end of the loop and the worker move no request.
LEMMA QueueStays ==
  ASSUME QueueInv, UNCHANGED <<wire, pending, req, resps, asked, outmsg>>
  PROVE  QueueInv'
BY DEF QueueInv, AnsweredInOrder, QueueInOrder, WireInOrder, PlacesInOrder, AllAsked,
       Below, OnWire, Queued, Popped, Replying, Done

\* Every step keeps the requests in order.
LEMMA QueueStep == TypeInv /\ QueueInv /\ [Next]_vars => QueueInv'
<1> SUFFICES ASSUME TypeInv, QueueInv, [Next]_vars PROVE QueueInv'
  OBVIOUS
<1>1. CASE MainNext
  <2>1. CASE WriteText \/ WriteNewFile \/ WriteNewIgnored \/ NoExit \/ ClientWentAway
             \/ JoinWorker
    BY <2>1, QueueStays DEF WriteText, WriteNewFile, WriteNewIgnored, NoExit, ClientWentAway,
       JoinWorker, editorVars, outVars, loopVars
  <2>2. GetExit => wire # <<>>
    BY DEF GetExit
  <2>3. Absorb(Head(wire)) <=> (Absorb(Head(wire)) /\ ~AbsorbRequest(Head(wire)))
                               \/ AbsorbRequest(Head(wire))
    BY DEF Absorb
  <2> QED
    BY <1>1, <2>1, <2>2, <2>3, QueueAbsorbRequest, QueueTakes, QueueServes DEF MainNext
<1>2. CASE WorkerNext \/ WorkerPanics \/ UNCHANGED vars
  BY <1>2, QueueStays DEF WorkerNext, WorkerReceives, WorkerFinishes, WorkerBegins, WorkerChecks,
     WorkerCancelled, WorkerPublishes, WorkerSendFails, WorkerDisconnected, WorkerPanics,
     WorkerEnds, otherThanWorker, vars, editorVars, mainVars, loopVars, outVars
<1> QED BY <1>1, <1>2, QueueEditor DEF Next

\* Responses go out in the order of the requests, none twice, for any number of
\* requests, edits and cancellations in between (absorb_message, dispatch_request).
THEOREM RequestsAnsweredInOrder == Spec => []AnsweredInOrder
<1>1. QueueInv => AnsweredInOrder
  BY DEF QueueInv
<1> QED BY <1>1, TypeInit, TypeStep, QueueInit, QueueStep, PTL DEF Spec

----------------------------------------------------------------------------
(* Answers and edits.                                                      *)

\* Only a new file under the root that --ignore does not match joins the files.
LEMMA KnownStep == IInv /\ KnownFiles /\ [Next]_vars => KnownFiles'
<1> SUFFICES ASSUME IInv, KnownFiles, [Next]_vars PROVE KnownFiles'
  OBVIOUS
<1>1. CASE files' = files
  BY <1>1 DEF KnownFiles, HasFile
<1>2. CASE WriteNewFile
  <2>1. note # None /\ note.path \in Path /\ note.ver \in Nat
    BY <1>2, ConstAssumption DEF WriteNewFile, Written, IInv, TypeInv, TypeOK, MainTypeOK,
       Slots, MainSlots, Doc, Token
  <2>2. files' = [files EXCEPT ![note.path] = note.ver] /\ note.path \notin Ignored
    BY <1>2 DEF WriteNewFile
  <2>3. files \in [Path -> Born \cup {NoFile}]
    BY DEF IInv, TypeInv, TypeOK, DocTypeOK
  <2> QED BY <2>1, <2>2, <2>3 DEF KnownFiles, HasFile, NoFile
<1>3. CASE wire # <<>> /\ Absorb(Head(wire))
  BY <1>1, <1>3 DEF Absorb, AbsorbRequest, AbsorbCancel, AbsorbNothing, AbsorbMalformed,
     AbsorbOutOfRoot, AbsorbClose, AbsorbFirstIgnored, AbsorbWrite, docVars
<1>4. CASE WriteText \/ WriteNewIgnored
  BY <1>1, <1>4 DEF WriteText, WriteNewIgnored, docVars
<1> QED BY <1>1, <1>2, <1>3, <1>4, QuietSteps

\* What has reached a place nearer to the database has reached every earlier one.
LEMMA ReachGrows ==
  ASSUME TypeInv, NEW p, NEW v, NEW n \in Nat, Reaches(p, v, n)
  PROVE  Reaches(p, v, n + 1)
BY DEF Reaches, TypeInv, TypeOK

\* Everything on its way to a document's file gets there, each step of the way:
\* an edit is applied or waits for its write when the loop takes it off the wire.
LEMMA AbsorbKeeps ==
  ASSUME IInv, KnownFiles, OpensArrive, wire # <<>>, Absorb(Head(wire)),
         NEW p \in Path, Lands(p)
  PROVE  /\ \A v \in Nat, n \in Nat : Reaches(p, v, n + 1) => Reaches(p, v, n)'
         /\ \A n \in Nat : Opened(p, n + 1) => Opened(p, n)'
<1> DEFINE m == Head(wire)
<1>1. TypeInv /\ wire' = Tail(wire) /\ files' = files
  BY DEF IInv, Absorb, Receive, AbsorbRequest, AbsorbCancel, AbsorbNothing, AbsorbMalformed,
         AbsorbOutOfRoot, AbsorbClose, AbsorbFirstIgnored, AbsorbWrite, docVars
<1>2. note = None
  BY DEF Absorb, Receive, AbsorbRequest, AbsorbCancel, AbsorbNothing, AbsorbMalformed,
         AbsorbOutOfRoot, AbsorbClose, AbsorbFirstIgnored, AbsorbWrite, IInv, TypeInv, Slots,
         MainSlots
<1>3. m \in Message /\ m = wire[1] /\ 1 \in DOMAIN wire
  BY <1>1, TailFacts DEF TypeInv, TypeOK
<1> HIDE DEF m
<1>4. HasVer(m) => m \in Doc
  BY <1>3, MessageFacts DEF HasVer
<1>5. m.type = "didChange" /\ m.path = p => HasFile(p)
  <2>1. m.type = "didChange" /\ m.path = p => Opened(p, 1)
    BY <1>3 DEF OpensArrive
  <2>2. \A j \in DOMAIN wire : ~(j < 1)
    BY <1>1 DEF TypeInv, TypeOK
  <2> QED BY <1>2, <2>1, <2>2 DEF Opened
<1>6. ~HasFile(p) => p \notin Ignored
  BY DEF KnownFiles, Lands
<1>7. HasVer(m) /\ m.path = p => note' = m /\ note' # None
  <2> SUFFICES ASSUME HasVer(m), m.path = p PROVE note' = m /\ note' # None
    OBVIOUS
  <2>1. AbsorbWrite(m)
    BY <1>5, <1>6 DEF Absorb, AbsorbRequest, AbsorbCancel, AbsorbNothing, AbsorbMalformed,
         AbsorbOutOfRoot, AbsorbClose, AbsorbFirstIgnored, NoEffect, HasVer, Lands, m
  <2> QED BY <1>3, <2>1, NoneAssumption DEF AbsorbWrite
<1>8. HasFile(p) => text'[File(p)] = text[File(p)]
  <2>1. CASE AbsorbFirstIgnored(m)
    <3>1. m.path \in Path /\ ~HasFile(m.path)
      BY <1>4, <2>1 DEF AbsorbFirstIgnored, HasVer, Doc
    <3>2. \A q \in Path, c \in Born : q # m.path => text'[<<q, c>>] = text[<<q, c>>]
      BY <1>1, <2>1, <3>1, OtherFile DEF AbsorbFirstIgnored
    <3> QED BY <1>1, <3>1, <3>2 DEF HasFile, File, TypeInv, TypeOK, DocTypeOK
  <2>2. CASE ~AbsorbFirstIgnored(m)
    BY <2>2 DEF Absorb, AbsorbRequest, AbsorbCancel, AbsorbNothing, AbsorbMalformed,
       AbsorbOutOfRoot, AbsorbClose, AbsorbWrite, dbVars, m
  <2> QED BY <2>1, <2>2
<1>9. \A j \in DOMAIN wire : j = 1 \/ (j - 1 \in DOMAIN wire' /\ wire'[j - 1] = wire[j])
  BY <1>1 DEF TypeInv, TypeOK
<1>10. DOMAIN wire \subseteq Int
  BY <1>1 DEF TypeInv, TypeOK
<1>11. ASSUME NEW v \in Nat, NEW n \in Nat, Reaches(p, v, n + 1) PROVE Reaches(p, v, n)'
  <2>1. CASE HasFile(p) /\ text[File(p)] >= v
    BY <1>1, <1>8, <2>1 DEF Reaches, HasFile, File
  <2>2. ASSUME NEW j \in DOMAIN wire, j < n + 1, Edits(wire[j], p, v) PROVE Reaches(p, v, n)'
    <3>1. CASE j = 1
      BY <1>3, <1>7, <2>2, <3>1 DEF Reaches, Edits
    <3>2. CASE j # 1
      <4>1. j - 1 \in DOMAIN wire' /\ j - 1 < n /\ Edits(wire'[j - 1], p, v)
        BY <1>9, <1>10, <2>2, <3>2
      <4> QED BY <4>1 DEF Reaches, Edits, HasVer
    <3> QED BY <3>1, <3>2
  <2> QED BY <1>2, <1>11, <2>1, <2>2 DEF Reaches
<1>12. ASSUME NEW n \in Nat, Opened(p, n + 1) PROVE Opened(p, n)'
  <2>1. CASE HasFile(p)
    BY <1>1, <2>1 DEF Opened, HasFile
  <2>2. ASSUME NEW j \in DOMAIN wire, j < n + 1, wire[j].type = "didOpen", wire[j].path = p
        PROVE  Opened(p, n)'
    <3>1. CASE j = 1
      BY <1>3, <1>7, <2>2, <3>1 DEF Opened, HasVer
    <3>2. CASE j # 1
      <4>1. j - 1 \in DOMAIN wire' /\ j - 1 < n /\ wire'[j - 1] = wire[j]
        BY <1>9, <1>10, <2>2, <3>2
      <4> QED BY <2>2, <4>1 DEF Opened
    <3> QED BY <3>1, <3>2
  <2> QED BY <1>2, <1>12, <2>1, <2>2 DEF Opened
<1> QED BY <1>11, <1>12

\* A salsa write takes the waiting edit to the file of its document.
LEMMA WriteKeeps ==
  ASSUME IInv, KnownFiles, WriteText \/ WriteNewFile \/ WriteNewIgnored,
         NEW p \in Path, Lands(p)
  PROVE  /\ \A v \in Nat, n \in Nat : Reaches(p, v, n) => Reaches(p, v, n)'
         /\ \A n \in Nat : Opened(p, n) => Opened(p, n)'
<1>1. Written /\ wire' = wire /\ TypeInv
  BY DEF WriteText, WriteNewFile, WriteNewIgnored, IInv
<1>2. note # None
  BY <1>1 DEF Written, TypeInv, Slots, MainSlots
<1>3. note.path \in Path /\ note.ver \in Token /\ <<note.path, note.ver>> \in FileId
  BY <1>1, <1>2 DEF TypeInv, TypeOK, MainTypeOK, Doc, FileId, Born, Token
<1>4. files \in [Path -> Born \cup {NoFile}] /\ text \in [FileId -> Token]
  BY <1>1 DEF TypeInv, TypeOK, DocTypeOK, DbTypeOK
<1>5. \A f \in FileId : note.ver > text[f]
  BY <1>2 DEF IInv, Ordered
<1>6. CASE note.path = p
  <2>1. HasFile(p)' /\ text'[File(p)'] = note.ver
    <3>1. CASE WriteText
      <4>1. files' = files /\ HasFile(p) /\ text' = [text EXCEPT ![File(p)] = note.ver]
        BY <1>6, <3>1 DEF WriteText
      <4>2. File(p) \in FileId
        BY <1>4, <4>1, FileInType DEF IInv, TypeInv, TypeOK
      <4> QED BY <1>4, <4>1, <4>2 DEF HasFile, File
    <3>2. CASE WriteNewFile
      <4>1. note.ver # NoFile
        BY <1>3, ConstAssumption DEF NoFile, Token
      <4>2. files'[p] = note.ver /\ text'[<<p, note.ver>>] = note.ver
        BY <1>3, <1>4, <1>6, <3>2 DEF WriteNewFile
      <4> QED BY <4>1, <4>2 DEF HasFile, File
    <3>3. CASE WriteNewIgnored
      BY <1>6, <3>3 DEF WriteNewIgnored, Lands, KnownFiles
    <3> QED BY <3>1, <3>2, <3>3
  <2>2. Opened(p, 0)' /\ \A n : Opened(p, n)'
    BY <2>1 DEF Opened
  <2>3. \A v \in Nat : HasFile(p) /\ text[File(p)] >= v => note.ver >= v
    <3>1. HasFile(p) => File(p) \in FileId
      BY <1>4, FileInType DEF IInv, TypeInv, TypeOK
    <3>2. HasFile(p) => text[File(p)] \in Nat /\ note.ver \in Nat /\ note.ver > text[File(p)]
      BY <1>3, <1>4, <1>5, <3>1, ConstAssumption DEF Token
    <3> QED BY <3>2
  <2>4. \A v \in Nat : v = 0 => note.ver >= v
    BY <1>3, ConstAssumption DEF Token
  <2>5. \A v \in Nat, n \in Nat, j \in DOMAIN wire :
          j < n /\ Edits(wire[j], p, v) => Reaches(p, v, n)'
    BY <1>1 DEF Reaches
  <2>6. \A v \in Nat, n \in Nat : note.ver >= v => Reaches(p, v, n)'
    BY <2>1 DEF Reaches
  <2> QED BY <2>2, <2>3, <2>4, <2>5, <2>6 DEF Reaches, Edits
<1>7. CASE note.path # p
  <2>1. files'[p] = files[p]
    BY <1>4, <1>7 DEF WriteText, WriteNewFile, WriteNewIgnored, docVars
  <2>2. HasFile(p) => text'[<<p, files[p]>>] = text[<<p, files[p]>>]
    <3>1. CASE WriteText
      BY <1>3, <1>4, <1>7, <3>1, FileInType DEF WriteText, HasFile, File
    <3>2. CASE WriteNewFile \/ WriteNewIgnored
      BY <1>1, <1>3, <1>4, <1>7, <3>2, OtherFile DEF WriteNewFile, WriteNewIgnored, HasFile
    <3> QED BY <3>1, <3>2
  <2> QED BY <1>1, <1>7, <2>1, <2>2 DEF Reaches, Opened, Edits, HasFile, File
<1> QED BY <1>6, <1>7

\* What changes no file, text, waiting write or message is on no edit's way.
LEMMA QuietKeeps ==
  ASSUME UNCHANGED <<files, text, note, wire>>
  PROVE  \A p \in Path : /\ \A v \in Nat, n \in Nat : Reaches(p, v, n) => Reaches(p, v, n)'
                         /\ \A n \in Nat : Opened(p, n) => Opened(p, n)'
BY DEF Reaches, Opened, Edits, HasFile, File

\* The indices and versions the edits are compared by are numbers.
LEMMA CoverNumbers ==
  ASSUME TypeInv
  PROVE  /\ Len(wire) + 1 \in Nat /\ DOMAIN wire \subseteq Nat
         /\ \A p \in Path : ctext[p] \in Nat
         /\ \A i \in DOMAIN wire : IsRequest(wire[i]) => wire[i].path \in Path /\ wire[i].asof \in Nat
         /\ \A r \in Queued \cup Popped : r.path \in Path /\ r.asof \in Nat
         /\ \A f \in FileId : text[f] \in Nat
<1>1. Len(wire) + 1 \in Nat /\ DOMAIN wire \subseteq Nat
  BY DEF TypeInv, TypeOK
<1>2. Token \subseteq Nat
  BY ConstAssumption DEF Token
<1>3. \A p \in Path : ctext[p] \in Nat
  BY <1>2 DEF TypeInv, TypeOK, EditorTypeOK
<1>4. \A r \in Request : r.path \in Path /\ r.asof \in Nat
  BY <1>2 DEF Request
<1>5. \A i \in DOMAIN wire : IsRequest(wire[i]) => wire[i] \in Request
  <2>1. \A i \in DOMAIN wire : wire[i] \in Message
    BY DEF TypeInv, TypeOK
  <2> QED BY <2>1, MessageFacts DEF IsRequest
<1>6. \A r \in Queued \cup Popped : r \in Request
  BY DEF Queued, Popped, TypeInv, TypeOK, LoopTypeOK, MainTypeOK
<1>7. \A f \in FileId : text[f] \in Nat
  BY <1>2 DEF TypeInv, TypeOK, DbTypeOK
<1> QED BY <1>1, <1>3, <1>4, <1>5, <1>6, <1>7

Arrive == OpensArrive /\ EditsArrive

\* With the wire and the editor's texts as they were, nothing gets lost if each
\* edit keeps what it has reached and no new request joins the waiting ones.
LEMMA ArriveStays ==
  ASSUME TypeInv, Arrive, UNCHANGED <<wire, ctext, copen>>,
         (Queued \cup Popped)' \subseteq Queued \cup Popped,
         \A p \in Path : Lands(p) =>
           /\ \A v \in Nat, n \in Nat : Reaches(p, v, n) => Reaches(p, v, n)'
           /\ \A n \in Nat : Opened(p, n) => Opened(p, n)'
  PROVE  Arrive'
<1>1. OpensArrive'
  <2>1. \A p \in Path : Lands(p) /\ p \in copen => Opened(p, Len(wire) + 1)'
    BY CoverNumbers DEF Arrive, OpensArrive
  <2>2. \A p \in Path, i \in DOMAIN wire :
          Lands(p) /\ wire[i].type = "didChange" /\ wire[i].path = p => Opened(p, i)'
    BY CoverNumbers DEF Arrive, OpensArrive
  <2> QED BY <2>1, <2>2 DEF OpensArrive, Lands
<1>2. EditsArrive'
  <2>1. \A p \in Path : Lands(p) => Reaches(p, ctext[p], Len(wire) + 1)'
    <3>1. \A p \in Path : Lands(p) => Reaches(p, ctext[p], Len(wire) + 1)
      BY DEF Arrive, EditsArrive
    <3> QED BY <3>1, CoverNumbers
  <2>2. \A i \in DOMAIN wire : IsRequest(wire[i]) /\ Lands(wire[i].path)
                                 => Reaches(wire[i].path, wire[i].asof, i)'
    <3>1. \A i \in DOMAIN wire : IsRequest(wire[i]) /\ Lands(wire[i].path)
                                   => Reaches(wire[i].path, wire[i].asof, i)
      BY DEF Arrive, EditsArrive
    <3> QED BY <3>1, CoverNumbers
  <2>3. \A r \in Queued \cup Popped : Lands(r.path) => Reaches(r.path, r.asof, 1)'
    <3>1. \A r \in Queued \cup Popped : Lands(r.path) => Reaches(r.path, r.asof, 1)
      BY DEF Arrive, EditsArrive
    <3> QED BY <3>1, CoverNumbers
  <2> QED BY <2>1, <2>2, <2>3 DEF EditsArrive, Lands, IsRequest
<1> QED BY <1>1, <1>2 DEF Arrive

\* Taking a message off the wire: an absorbed request has nothing left before it.
LEMMA ArriveAbsorb ==
  ASSUME IInv, KnownFiles, Arrive, wire # <<>>, Absorb(Head(wire))
  PROVE  Arrive'
<1> DEFINE m == Head(wire)
<1>1. TypeInv /\ wire' = Tail(wire) /\ UNCHANGED <<ctext, copen, req>>
  BY DEF IInv, Absorb, Receive, AbsorbRequest, AbsorbCancel, AbsorbNothing, AbsorbMalformed,
         AbsorbOutOfRoot, AbsorbClose, AbsorbFirstIgnored, AbsorbWrite, editorVars, mainVars
<1>2. \A p \in Path : Lands(p) =>
        /\ \A v \in Nat, n \in Nat : Reaches(p, v, n + 1) => Reaches(p, v, n)'
        /\ \A n \in Nat : Opened(p, n + 1) => Opened(p, n)'
  BY AbsorbKeeps DEF Arrive
<1>3. /\ Len(wire') + 1 \in Nat /\ Len(wire') + 1 + 1 = Len(wire) + 1
      /\ DOMAIN wire' \subseteq Nat
      /\ \A i \in DOMAIN wire' : i + 1 \in DOMAIN wire /\ wire'[i] = wire[i + 1]
  BY <1>1 DEF TypeInv, TypeOK
<1>4. m = wire[1] /\ 1 \in DOMAIN wire
  BY <1>1, TailFacts
<1>5. \A r \in Queued' : r \in Queued \/ (IsRequest(m) /\ r = m)
  <2>1. CASE AbsorbRequest(m)
    <3>1. pending' = Append(pending, m) /\ IsRequest(m) /\ pending \in Seq(Request)
      BY <1>1, <2>1 DEF AbsorbRequest, IsRequest, TypeInv, TypeOK, LoopTypeOK
    <3>2. \A i \in DOMAIN pending' : (i \in DOMAIN pending /\ pending'[i] = pending[i])
                                     \/ pending'[i] = m
      BY <3>1
    <3> QED BY <3>1, <3>2 DEF Queued
  <2>2. CASE ~AbsorbRequest(m)
    BY <2>2 DEF Absorb, AbsorbCancel, AbsorbNothing, AbsorbMalformed, AbsorbOutOfRoot,
       AbsorbClose, AbsorbFirstIgnored, AbsorbWrite, loopVars, Queued
  <2> QED BY <2>1, <2>2
<1> HIDE DEF m
<1>6. OpensArrive'
  <2>1. \A p \in Path : Lands(p) /\ p \in copen => Opened(p, Len(wire) + 1)'
    <3>1. \A p \in Path : Lands(p) /\ p \in copen => Opened(p, Len(wire) + 1)
      BY DEF Arrive, OpensArrive
    <3> QED BY <1>2, <1>3, <3>1
  <2>2. ASSUME NEW p \in Path, NEW i \in DOMAIN wire', Lands(p), wire'[i].type = "didChange",
               wire'[i].path = p
        PROVE  Opened(p, i)'
    <3>1. Opened(p, i + 1)
      BY <1>3, <2>2 DEF Arrive, OpensArrive
    <3> QED BY <1>2, <1>3, <2>2, <3>1
  <2> QED BY <1>1, <2>1, <2>2 DEF OpensArrive, Lands
<1>7. EditsArrive'
  <2>1. \A p \in Path : Lands(p) => Reaches(p, ctext[p], Len(wire) + 1)'
    <3>1. \A p \in Path : Lands(p) => Reaches(p, ctext[p], Len(wire) + 1)
      BY DEF Arrive, EditsArrive
    <3> QED BY <1>1, <1>2, <1>3, <3>1, CoverNumbers
  <2>2. ASSUME NEW i \in DOMAIN wire', NEW x, x = wire'[i], IsRequest(x), Lands(x.path)
        PROVE  Reaches(x.path, x.asof, i)'
    <3>1. x.path \in Path /\ x.asof \in Nat /\ i \in Nat /\ Reaches(x.path, x.asof, i + 1)
      BY <1>1, <1>3, <2>2, CoverNumbers DEF Arrive, EditsArrive
    <3> QED BY <1>2, <2>2, <3>1
  <2>3. ASSUME NEW r \in (Queued \cup Popped)', Lands(r.path)
        PROVE  Reaches(r.path, r.asof, 1)'
    <3>1. r \in Queued \cup Popped \/ (IsRequest(m) /\ r = m)
      BY <1>1, <1>5, <2>3 DEF Popped
    <3>2. r.path \in Path /\ r.asof \in Nat /\ Reaches(r.path, r.asof, 1)
      BY <1>1, <1>4, <2>3, <3>1, CoverNumbers DEF Arrive, EditsArrive
    <3>3. Reaches(r.path, r.asof, 1 + 1)
      BY <1>1, <3>2, ReachGrows
    <3> QED BY <1>2, <2>3, <3>2, <3>3
  <2> QED BY <1>1, <2>1, <2>2, <2>3 DEF EditsArrive, Lands, IsRequest
<1> QED BY <1>6, <1>7 DEF Arrive

\* What the editor writes joins the end of the wire, behind every earlier edit.
LEMMA PostKeeps ==
  ASSUME TypeInv, NEW type, NEW m, Post(type, m)
  PROVE  \A p \in Path : /\ \A v \in Nat, n \in Nat : Reaches(p, v, n) => Reaches(p, v, n)'
                         /\ \A n \in Nat : Opened(p, n) => Opened(p, n)'
<1>1. UNCHANGED <<files, text, note>>
  BY DEF Post, docVars, dbVars, mainVars
<1>2. \A i \in DOMAIN wire : i \in DOMAIN wire' /\ wire'[i] = wire[i]
  BY WirePost
<1>3. ASSUME NEW p \in Path, NEW v \in Nat, NEW n \in Nat, Reaches(p, v, n)
      PROVE  Reaches(p, v, n)'
  BY <1>1, <1>2, <1>3 DEF Reaches, Edits, HasVer, HasFile, File
<1>4. ASSUME NEW p \in Path, NEW n \in Nat, Opened(p, n) PROVE Opened(p, n)'
  BY <1>1, <1>2, <1>4 DEF Opened, HasFile
<1> QED BY <1>3, <1>4

\* The editor only sends edits of documents it opened, and a request carries the
\* text it had sent by then, so each has what it needs before it on the wire.
LEMMA ArriveEditor == ASSUME TypeInv, Arrive, EditorNext PROVE Arrive'
<1>1. Queued' = Queued /\ Popped' = Popped
  BY DEF EditorNext, EditorOpens, EditorChanges, EditorCloses, EditorRequests, EditorCancels,
     EditorSends, EditorDies, Post, loopVars, mainVars, Queued, Popped
<1>2. CASE EditorDies
  <2>1. UNCHANGED <<files, text, note, wire, ctext, copen>>
    BY <1>2 DEF EditorDies, docVars, dbVars, mainVars
  <2> QED BY <1>1, <2>1, QuietKeeps, ArriveStays
<1>3. ASSUME NEW type, NEW m, Post(type, m),
             \A p \in Path : Lands(p) /\ p \in copen' =>
               p \in copen \/ (m.type = "didOpen" /\ m.path = p),
             \A p \in Path : m.type = "didChange" /\ m.path = p => p \in copen,
             \A p \in Path : ctext'[p] = ctext[p] \/ Edits(m, p, ctext'[p]),
             IsRequest(m) => m.path \in Path /\ m.asof = ctext[m.path]
      PROVE  Arrive'
  <2> DEFINE k == Len(wire) + 1
  <2>1. /\ k \in DOMAIN wire' /\ k \in Nat /\ Len(wire') + 1 = k + 1 /\ wire'[k] = m
        /\ \A i \in DOMAIN wire : i \in DOMAIN wire' /\ wire'[i] = wire[i] /\ i \in Nat /\ i <= Len(wire)
        /\ \A i \in DOMAIN wire' : (i \in DOMAIN wire /\ wire'[i] = wire[i]) \/ i = k
    BY <1>3, WirePost DEF TypeInv, TypeOK
  <2>2. \A p \in Path : /\ \A v \in Nat, n \in Nat : Reaches(p, v, n) => Reaches(p, v, n)'
                        /\ \A n \in Nat : Opened(p, n) => Opened(p, n)'
    BY <1>3, PostKeeps
  <2>3. ASSUME NEW p \in Path, NEW n \in Nat, n = k, Opened(p, n) PROVE Opened(p, n + 1)
    BY <2>3 DEF Opened, TypeInv, TypeOK
  <2> HIDE DEF k
  <2>4. ASSUME NEW p \in Path, Lands(p), p \in copen PROVE Opened(p, k)
    BY <2>4 DEF Arrive, OpensArrive, k
  <2>5. ASSUME NEW p \in Path, Lands(p), p \in copen', NEW n, n = k + 1 PROVE Opened(p, n)'
    <3>1. CASE p \in copen
      <4>1. Opened(p, k + 1)
        BY <2>1, <2>3, <2>4, <2>5, <3>1
      <4> QED BY <2>1, <2>2, <2>5, <4>1
    <3>2. CASE m.type = "didOpen" /\ m.path = p
      <4>1. k \in DOMAIN wire' /\ k < n /\ wire'[k].type = "didOpen" /\ wire'[k].path = p
        BY <2>1, <2>5, <3>2
      <4> QED BY <4>1 DEF Opened
    <3> QED BY <1>3, <2>5, <3>1, <3>2
  <2>6. ASSUME NEW p \in Path, Lands(p), NEW i \in DOMAIN wire', NEW x, x = wire'[i],
               x.type = "didChange", x.path = p
        PROVE  Opened(p, i)'
    <3>1. CASE i = k
      BY <1>3, <2>1, <2>2, <2>4, <2>6, <3>1
    <3>2. CASE i # k
      <4>1. i \in Nat /\ Opened(p, i)
        BY <2>1, <2>6, <3>2 DEF Arrive, OpensArrive
      <4> QED BY <2>2, <4>1
    <3> QED BY <3>1, <3>2
  <2>7. OpensArrive'
    BY <2>1, <2>5, <2>6 DEF OpensArrive, Lands
  <2>8. ASSUME NEW p \in Path, Lands(p), NEW v, v = ctext'[p], NEW n, n = k + 1
        PROVE  Reaches(p, v, n)'
    <3>1. CASE v = ctext[p]
      <4>1. v \in Nat /\ Reaches(p, v, k)
        BY <2>8, <3>1, CoverNumbers DEF Arrive, EditsArrive, k
      <4>2. Reaches(p, v, k + 1)
        BY <2>1, <4>1, ReachGrows
      <4> QED BY <2>1, <2>2, <2>8, <4>1, <4>2
    <3>2. CASE Edits(m, p, v)
      <4>1. k \in DOMAIN wire' /\ k < n /\ Edits(wire'[k], p, v)
        BY <2>1, <2>8, <3>2
      <4> QED BY <4>1 DEF Reaches, Edits, HasVer
    <3> QED BY <1>3, <2>8, <3>1, <3>2
  <2>9. ASSUME NEW i \in DOMAIN wire', NEW x, x = wire'[i], IsRequest(x), Lands(x.path)
         PROVE  Reaches(x.path, x.asof, i)'
    <3>1. CASE i = k
      <4>1. x.path \in Path /\ x.asof = ctext[x.path] /\ x.asof \in Nat
        BY <1>3, <2>1, <2>9, <3>1, CoverNumbers
      <4>2. Reaches(x.path, x.asof, k)
        BY <2>9, <4>1 DEF Arrive, EditsArrive, k
      <4> QED BY <2>1, <2>2, <3>1, <4>1, <4>2
    <3>2. CASE i # k
      <4>1. i \in DOMAIN wire /\ x = wire[i] /\ i \in Nat
        BY <2>1, <2>9, <3>2
      <4>2. x.path \in Path /\ x.asof \in Nat /\ Reaches(x.path, x.asof, i)
        BY <2>9, <4>1, CoverNumbers DEF Arrive, EditsArrive
      <4> QED BY <2>2, <4>1, <4>2
    <3> QED BY <3>1, <3>2
  <2>10. ASSUME NEW r \in Queued \cup Popped, Lands(r.path) PROVE Reaches(r.path, r.asof, 1)'
    <3>1. r.path \in Path /\ r.asof \in Nat /\ Reaches(r.path, r.asof, 1)
      BY <2>10, CoverNumbers DEF Arrive, EditsArrive
    <3> QED BY <2>2, <3>1
  <2>11. EditsArrive'
    BY <1>1, <2>1, <2>8, <2>9, <2>10 DEF EditsArrive, Lands, IsRequest
  <2> QED BY <2>7, <2>11 DEF Arrive
<1>4. sent \in Nat /\ ctext \in [Path -> Token] /\ sent + 1 >= sent + 1
  BY ConstAssumption DEF TypeInv, TypeOK, EditorTypeOK, Token
<1>5. ASSUME NEW p \in Path, EditorOpens(p) PROVE Arrive'
  <2> DEFINE m == [type |-> "didOpen", path |-> p, ver |-> sent + 1]
  <2>1. Post("didOpen", m) /\ copen' = copen \cup {p} /\ ctext' = [ctext EXCEPT ![p] = sent + 1]
    BY <1>5 DEF EditorOpens
  <2>2. \A q \in Path : ctext'[q] = ctext[q] \/ Edits(m, q, ctext'[q])
    BY <1>4, <2>1 DEF Edits, HasVer
  <2> QED BY <1>3, <2>1, <2>2 DEF IsRequest
<1>6. ASSUME NEW p \in Path, EditorChanges(p) PROVE Arrive'
  <2> DEFINE m == [type |-> "didChange", path |-> p, ver |-> sent + 1]
  <2>1. /\ Post("didChange", m) /\ p \in copen /\ copen' = copen
        /\ ctext' = [ctext EXCEPT ![p] = sent + 1]
    BY <1>6 DEF EditorChanges
  <2>2. \A q \in Path : ctext'[q] = ctext[q] \/ Edits(m, q, ctext'[q])
    BY <1>4, <2>1 DEF Edits, HasVer
  <2> QED BY <1>3, <2>1, <2>2 DEF IsRequest
<1>7. ASSUME NEW p \in Path, EditorCloses(p) PROVE Arrive'
  BY <1>3, <1>7 DEF EditorCloses, IsRequest
<1>8. ASSUME NEW kd \in Kinds, NEW p \in Path, EditorRequests(kd, p) PROVE Arrive'
  <2> DEFINE m == [type |-> "request", id |-> asked + 1, kind |-> kd, path |-> p,
                   asof |-> ctext[p]]
  <2>1. Post("request", m) /\ UNCHANGED <<copen, ctext>>
    BY <1>8 DEF EditorRequests
  <2> QED BY <1>3, <2>1
<1>9. CASE \E i \in Id : EditorCancels(i)
  BY <1>3, <1>9 DEF EditorCancels, IsRequest
<1>10. CASE \E type \in {"other", "malformed", "exit"} : EditorSends(type)
  BY <1>3, <1>10 DEF EditorSends, IsRequest
<1> QED BY <1>2, <1>5, <1>6, <1>7, <1>8, <1>9, <1>10 DEF EditorNext

\* A step that sends or prepares no response keeps the ones that are out covered.
LEMMA CoveredStays ==
  ASSUME AnswerCoversEdits, \A r \in Replying : Covered(r),
         resps' = resps, Replying' \subseteq Replying
  PROVE  AnswerCoversEdits' /\ (\A r \in Replying : Covered(r))'
BY DEF AnswerCoversEdits, Covered

\* Once the loop has ended it stays so.
LEMMA EndedStays == ASSUME Ended, [Next]_vars PROVE Ended'
<1>1. CASE EditorNext
  BY <1>1 DEF EditorNext, EditorOpens, EditorChanges, EditorCloses, EditorRequests,
     EditorCancels, EditorSends, EditorDies, Post, mainVars, Ended
<1>2. CASE MainNext
  BY <1>2 DEF MainNext, Absorb, Receive, AbsorbRequest, AbsorbCancel, AbsorbNothing,
     AbsorbMalformed, AbsorbOutOfRoot, AbsorbClose, AbsorbFirstIgnored, AbsorbWrite,
     WriteText, WriteNewFile, WriteNewIgnored, Written, PopRequest, Dispatch, MainSends,
     MainSendFails, GetExit, NoExit, ClientWentAway, JoinWorker, Ended
<1>3. CASE WorkerNext \/ WorkerPanics \/ UNCHANGED vars
  BY <1>3 DEF WorkerNext, WorkerReceives, WorkerFinishes, WorkerBegins, WorkerChecks,
     WorkerCancelled, WorkerPublishes, WorkerSendFails, WorkerDisconnected, WorkerPanics,
     WorkerEnds, otherThanWorker, vars, mainVars, Ended
<1> QED BY <1>1, <1>2, <1>3 DEF Next

\* The answer computed for the popped request is from its document's present text,
\* and by then nothing that the request has to cover is still on its way.
LEMMA CoverDispatch ==
  ASSUME IInv, CoverInv, Dispatch
  PROVE  (\A r \in Replying : Covered(r))'
<1>1. TypeInv /\ ~Ended /\ req # None /\ note = None /\ outmsg = None
  BY DEF IInv, Dispatch, Ended, TypeInv, Slots, MainSlots
<1>2. req \in Popped /\ req.path \in Path /\ req.asof \in Nat
  BY <1>1, CoverNumbers DEF Popped
<1>3. ASSUME HasFile(req.path), req.path \in InRoot PROVE text[File(req.path)] >= req.asof
  <2>1. Lands(req.path)
    BY <1>2, <1>3 DEF CoverInv, KnownFiles, Lands
  <2>2. Reaches(req.path, req.asof, 1)
    BY <1>1, <1>2, <2>1 DEF CoverInv, EditsArrive
  <2>3. \A j \in DOMAIN wire : ~(j < 1)
    BY <1>1 DEF TypeInv, TypeOK
  <2>4. File(req.path) \in FileId
    BY <1>1, <1>2, <1>3, FileInType DEF TypeInv, TypeOK
  <2> QED BY <1>1, <1>2, <2>2, <2>3, <2>4, CoverNumbers DEF Reaches
<1>4. \A t : Reply("answer", t).path = req.path /\ Reply("answer", t).text = t
             /\ Reply("answer", t).asof = req.asof
  BY DEF Reply
<1>5. \A b, t : Reply(b, t).body = b
  BY DEF Reply
<1>6. Answer.body = "answer" =>
        HasFile(req.path) /\ Answer = Reply("answer", text[File(req.path)])
  BY <1>5 DEF Answer, Result, PullResult, PositionResult
<1>7. Covered(Answer)
  BY <1>3, <1>4, <1>6 DEF Covered
<1>8. outmsg' = outmsg \/ outmsg' = Answer
  BY DEF Dispatch
<1>9. \A r \in Replying' : r = Answer
  BY <1>1, <1>8 DEF Replying
<1> QED BY <1>7, <1>9 DEF Covered

\* load_workspace knows the walked files and the schemas, a walked one as such.
LEMMA LoadedKnown ==
  ASSUME Init, NEW p \in Path
  PROVE  /\ HasFile(p) <=> p \in OnDisk \cup Schema
         /\ p \in OnDisk => File(p) = <<p, WalkBorn>>
         /\ p \in Schema \ OnDisk => File(p) = <<p, SchemaBorn>>
<1>1. WalkBorn # NoFile /\ SchemaBorn # NoFile
  BY DEF WalkBorn, SchemaBorn, NoFile
<1>2. files[p] = IF p \in OnDisk THEN WalkBorn
                 ELSE IF p \in Schema THEN SchemaBorn ELSE NoFile
  BY DEF Init, LoadedFiles
<1> QED BY <1>1, <1>2 DEF HasFile, File

\* At load nothing is asked, and the files are the ones of the workspace.
LEMMA CoverInit == Init => CoverInv
<1> SUFFICES ASSUME Init PROVE CoverInv
  OBVIOUS
<1>1. KnownFiles
  BY LoadedKnown DEF KnownFiles, Loaded
<1>2. AnswerCoversEdits /\ Replying = {} /\ Queued = {} /\ Popped = {}
  BY DEF Init, AnswerCoversEdits, Replying, Queued, Popped
<1>3. OpensArrive /\ EditsArrive
  BY <1>2 DEF Init, OpensArrive, EditsArrive, Reaches
<1> QED BY <1>1, <1>2, <1>3 DEF CoverInv

\* Every step keeps the edits on their way and the answers covered.
LEMMA CoverStep == IInv /\ CoverInv /\ [Next]_vars => CoverInv'
<1> SUFFICES ASSUME IInv, CoverInv, [Next]_vars PROVE CoverInv'
  OBVIOUS
<1>1. TypeInv /\ KnownFiles /\ KnownFiles'
  BY KnownStep DEF IInv, CoverInv
<1>2. ASSUME AnswerCoversEdits', (\A r \in Replying : Covered(r))', ~Ended /\ ~Ended' => Arrive'
      PROVE  CoverInv'
  BY <1>1, <1>2, EndedStays DEF CoverInv, Arrive
<1>3. ASSUME resps' = resps, Replying' \subseteq Replying, ~Ended /\ ~Ended' => Arrive'
      PROVE  CoverInv'
  BY <1>2, <1>3, CoveredStays DEF CoverInv
<1>4. ~Ended => Arrive
  BY DEF CoverInv, Arrive
<1>5. ASSUME UNCHANGED <<files, text, note, wire, ctext, copen>>,
             (Queued \cup Popped)' \subseteq Queued \cup Popped
      PROVE  ~Ended /\ ~Ended' => Arrive'
  BY <1>1, <1>4, <1>5, QuietKeeps, ArriveStays
<1>6. CASE EditorNext
  <2>1. resps' = resps /\ outmsg' = outmsg
    BY <1>6 DEF EditorNext, EditorOpens, EditorChanges, EditorCloses, EditorRequests,
       EditorCancels, EditorSends, EditorDies, Post, outVars, mainVars
  <2> QED BY <1>1, <1>3, <1>4, <1>6, <2>1, ArriveEditor DEF Replying
<1>7. CASE wire # <<>> /\ Absorb(Head(wire))
  <2>1. /\ resps' = resps
        /\ outmsg' = outmsg \/ outmsg'.to # "request"
    BY <1>7 DEF Absorb, AbsorbRequest, AbsorbCancel, AbsorbNothing, AbsorbMalformed,
       AbsorbOutOfRoot, AbsorbClose, AbsorbFirstIgnored, AbsorbWrite, mainVars, outVars
  <2>2. Replying' \subseteq Replying
    BY <2>1 DEF Replying
  <2> QED BY <1>1, <1>3, <1>4, <1>7, <2>1, <2>2, ArriveAbsorb
<1>8. CASE WriteText \/ WriteNewFile \/ WriteNewIgnored
  <2>1. UNCHANGED <<wire, ctext, copen, resps, outmsg, req, pending>>
    BY <1>8 DEF WriteText, WriteNewFile, WriteNewIgnored, editorVars, outVars, loopVars
  <2>2. Replying' \subseteq Replying /\ (Queued \cup Popped)' \subseteq Queued \cup Popped
    BY <2>1 DEF Replying, Queued, Popped
  <2> QED BY <1>1, <1>3, <1>4, <1>8, <2>1, <2>2, WriteKeeps, ArriveStays
<1>9. CASE PopRequest
  <2>1. UNCHANGED <<files, text, note, wire, ctext, copen, resps, outmsg>>
    BY <1>9 DEF PopRequest, editorVars, outVars, docVars, dbVars
  <2>2. /\ pending \in Seq(Request) /\ pending # <<>>
        /\ req' = Head(pending) /\ pending' = Tail(pending)
    BY <1>1, <1>9 DEF PopRequest, PopFront, TypeInv, TypeOK, LoopTypeOK
  <2>3. /\ 1 \in DOMAIN pending /\ Head(pending) = pending[1]
        /\ \A i \in DOMAIN pending' : i + 1 \in DOMAIN pending /\ pending'[i] = pending[i + 1]
    BY <2>2
  <2>4. Replying' \subseteq Replying /\ (Queued \cup Popped)' \subseteq Queued \cup Popped
    BY <2>1, <2>2, <2>3 DEF Replying, Queued, Popped
  <2> QED BY <1>3, <1>5, <2>1, <2>4
<1>10. CASE Dispatch
  <2>1. UNCHANGED <<files, text, note, wire, ctext, copen, resps, pending>> /\ req' = None
    BY <1>10 DEF Dispatch, editorVars, outVars, docVars, dbVars
  <2>2. (Queued \cup Popped)' \subseteq Queued \cup Popped
    BY <2>1 DEF Queued, Popped
  <2>3. AnswerCoversEdits'
    BY <2>1 DEF CoverInv, AnswerCoversEdits
  <2> QED BY <1>2, <1>5, <1>10, <2>1, <2>2, <2>3, CoverDispatch
<1>11. CASE MainSends
  <2>1. /\ UNCHANGED <<files, text, note, wire, ctext, copen, req, pending>>
        /\ outmsg' = None /\ outmsg # None
    BY <1>1, <1>11 DEF MainSends, editorVars, docVars, dbVars, loopVars, TypeInv, Slots, MainSlots
  <2>2. (Queued \cup Popped)' \subseteq Queued \cup Popped /\ Replying' = {}
    BY <2>1 DEF Queued, Popped, Replying
  <2>3. \A i \in DOMAIN resps' : \/ i \in DOMAIN resps /\ resps'[i] = resps[i]
                                 \/ resps'[i] = outmsg /\ outmsg \in Replying
    BY <1>1, <1>11, <2>1 DEF MainSends, Replying, TypeInv, TypeOK, OutTypeOK
  <2>4. AnswerCoversEdits'
    BY <2>3 DEF CoverInv, AnswerCoversEdits, Covered
  <2> QED BY <1>2, <1>5, <2>1, <2>2, <2>4
<1>12. CASE MainSendFails \/ NoExit \/ ClientWentAway \/ JoinWorker
  <2>1. /\ UNCHANGED <<files, text, note, wire, ctext, copen, req, pending, resps>>
        /\ outmsg' = None \/ outmsg' = outmsg
    BY <1>12 DEF MainSendFails, NoExit, ClientWentAway, JoinWorker, editorVars, docVars,
       dbVars, loopVars, outVars
  <2>2. (Queued \cup Popped)' \subseteq Queued \cup Popped /\ Replying' \subseteq Replying
    BY <2>1 DEF Queued, Popped, Replying
  <2> QED BY <1>3, <1>5, <2>1, <2>2
<1>13. CASE GetExit
  <2>1. Ended' /\ resps' = resps /\ Replying' \subseteq Replying
    BY <1>13 DEF GetExit, Ended, outVars, Replying
  <2> QED BY <1>3, <2>1
<1>14. CASE WorkerNext \/ WorkerPanics \/ UNCHANGED vars
  <2>1. UNCHANGED <<files, text, note, wire, ctext, copen, req, pending, resps, outmsg>>
    BY <1>14 DEF WorkerNext, WorkerReceives, WorkerFinishes, WorkerBegins, WorkerChecks,
       WorkerCancelled, WorkerPublishes, WorkerSendFails, WorkerDisconnected, WorkerPanics,
       WorkerEnds, otherThanWorker, vars, editorVars, mainVars, loopVars, outVars, docVars, dbVars
  <2>2. (Queued \cup Popped)' \subseteq Queued \cup Popped /\ Replying' \subseteq Replying
    BY <2>1 DEF Queued, Popped, Replying
  <2> QED BY <1>3, <1>5, <2>1, <2>2
<1> QED
  BY <1>6, <1>7, <1>8, <1>9, <1>10, <1>11, <1>12, <1>13, <1>14 DEF Next, MainNext

\* An answer about a document under the root is computed from a text at least as
\* new as every edit the editor sent before the request, for any editor and any
\* workspace: no edit is overtaken by a request sent after it, and none is
\* dropped (absorb_message, handle_notification, dispatch_request).
THEOREM AnswersCoverEdits == Spec => []AnswerCoversEdits
<1>1. CoverInv => AnswerCoversEdits
  BY DEF CoverInv
<1> QED BY <1>1, IInvInit, IInvStep, CoverInit, CoverStep, PTL DEF Spec

----------------------------------------------------------------------------
(* The files of the workspace.                                             *)

\* Where files, project and ignored can change at all.
LEMMA ProjectQuiet ==
  ASSUME [Next]_vars, ~WriteNewFile, ~WriteNewIgnored,
         ~(wire # <<>> /\ AbsorbFirstIgnored(Head(wire)))
  PROVE  UNCHANGED <<files, project, ignored>>
<1>1. CASE EditorNext
  BY <1>1 DEF EditorNext, EditorOpens, EditorChanges, EditorCloses, EditorRequests,
     EditorCancels, EditorSends, EditorDies, Post, docVars, dbVars
<1>2. CASE MainNext
  BY <1>2 DEF MainNext, Absorb, AbsorbRequest, AbsorbCancel, AbsorbNothing, AbsorbMalformed,
     AbsorbOutOfRoot, AbsorbClose, AbsorbWrite, WriteText, PopRequest, Dispatch, MainSends,
     MainSendFails, GetExit, NoExit, ClientWentAway, JoinWorker, docVars, dbVars
<1>3. CASE WorkerNext \/ WorkerPanics \/ UNCHANGED vars
  BY <1>3 DEF WorkerNext, WorkerReceives, WorkerFinishes, WorkerBegins, WorkerChecks,
     WorkerCancelled, WorkerPublishes, WorkerSendFails, WorkerDisconnected, WorkerPanics,
     WorkerEnds, otherThanWorker, vars, docVars, dbVars
<1> QED BY <1>1, <1>2, <1>3 DEF Next

\* A new ignored SourceFile belongs to a path that has no file, and joins the
\* ignored ones.
LEMMA IgnoredGrows ==
  ASSUME WriteNewIgnored \/ (wire # <<>> /\ AbsorbFirstIgnored(Head(wire)))
  PROVE  /\ UNCHANGED <<files, project>>
         /\ \E p, b : ~HasFile(p) /\ ignored' = ignored \cup {<<p, b>>}
<1>1. CASE WriteNewIgnored
  BY <1>1 DEF WriteNewIgnored, docVars
<1>2. CASE wire # <<>> /\ AbsorbFirstIgnored(Head(wire))
  <2>1. /\ UNCHANGED <<files, project>> /\ ~HasFile(Head(wire).path)
        /\ ignored' = ignored \cup {<<Head(wire).path, Head(wire).ver>>}
    BY <1>2 DEF AbsorbFirstIgnored, docVars
  <2> QED BY <2>1
<1> QED BY <1>1, <1>2

\* The two writers of ProjectFiles, load_workspace and the didOpen of a new file,
\* agree on what belongs to it, in every workspace where no schema below the root
\* is ignored.
THEOREM ProjectIsTheFiles ==
  (Schema \cap OnDisk \cap Ignored = {}) /\ Spec => []ProjectIsFiles
<1> SUFFICES ASSUME Schema \cap OnDisk \cap Ignored = {} PROVE Spec => []ProjectIsFiles
  OBVIOUS
<1>1. Init => ProjectIsFiles
  <2> SUFFICES ASSUME Init PROVE ProjectIsFiles
    OBVIOUS
  <2>1. \A p \in Path : /\ HasFile(p) <=> p \in OnDisk \cup Schema
                        /\ p \in OnDisk => File(p) = <<p, WalkBorn>>
                        /\ p \in Schema \ OnDisk => File(p) = <<p, SchemaBorn>>
    BY LoadedKnown
  <2>2. \A p, q : <<p, SchemaBorn>> # <<q, WalkBorn>>
    BY DEF WalkBorn, SchemaBorn
  <2>3. project = LoadedProject /\ ignored = LoadedIgnored
    BY DEF Init
  <2>4. project \subseteq {File(p) : p \in {q \in Path : HasFile(q)}} \ ignored
    BY <2>1, <2>2, <2>3, ConstAssumption DEF LoadedProject, LoadedIgnored
  <2>5. {File(p) : p \in {q \in Path : HasFile(q)}} \ ignored \subseteq project
    BY <2>1, <2>3, ConstAssumption DEF LoadedProject, LoadedIgnored
  <2> QED BY <2>4, <2>5 DEF ProjectIsFiles
<1>2. ProjectIsFiles /\ [Next]_vars => ProjectIsFiles'
  <2> SUFFICES ASSUME ProjectIsFiles, [Next]_vars PROVE ProjectIsFiles'
    OBVIOUS
  <2>1. CASE WriteNewFile
    BY <2>1 DEF WriteNewFile, ProjectOf, ProjectIsFiles, HasFile, File
  <2>2. CASE WriteNewIgnored \/ (wire # <<>> /\ AbsorbFirstIgnored(Head(wire)))
    <3>1. PICK p, b : ~HasFile(p) /\ ignored' = ignored \cup {<<p, b>>}
      BY <2>2, IgnoredGrows
    <3>2. \A q \in Path : HasFile(q) => File(q) # <<p, b>>
      BY <3>1 DEF File
    <3>3. UNCHANGED <<files, project>>
      BY <2>2, IgnoredGrows
    <3> QED BY <3>1, <3>2, <3>3 DEF ProjectIsFiles, HasFile, File
  <2>3. CASE UNCHANGED <<files, project, ignored>>
    BY <2>3 DEF ProjectIsFiles, HasFile, File
  <2> QED BY <2>1, <2>2, <2>3, ProjectQuiet
<1> QED BY <1>1, <1>2, PTL DEF Spec

\* A pull has a report only for a file under review, and its answer goes out as is.
LEMMA PullsStep == IInv /\ PullsReviewed /\ [Next]_vars => PullsReviewed'
<1> SUFFICES ASSUME IInv, PullsReviewed, [Next]_vars PROVE PullsReviewed'
  OBVIOUS
<1>1. ASSUME Done' \subseteq Done \cup Replying, Replying' \subseteq Replying
      PROVE  PullsReviewed'
  BY <1>1 DEF PullsReviewed, Reviewed
<1>2. CASE Dispatch
  <2>1. req # None /\ outmsg = None /\ resps' = resps /\ (outmsg' = outmsg \/ outmsg' = Answer)
    BY <1>2 DEF Dispatch, IInv, TypeInv, Slots, MainSlots, outVars
  <2>2. req.path \in Path
    BY <2>1 DEF IInv, TypeInv, TypeOK, MainTypeOK, Request
  <2>3. \A b, t : Reply(b, t).body = b /\ Reply(b, t).kind = req.kind /\ Reply(b, t).path = req.path
    BY DEF Reply
  <2>4. Answer.kind = "diagnostic" /\ Answer.body = "answer" =>
          HasFile(req.path) /\ req.path \notin DeclOnly /\ Answer.path = req.path
    BY <2>3 DEF Answer, Result, PullResult, PositionResult
  <2>5. Answer.kind = "diagnostic" /\ Answer.body = "answer" => Answer.path \in Reviewed
    BY <2>2, <2>4 DEF IInv, Admitted
  <2>6. Done' = Done /\ \A r \in Replying' : r = Answer
    BY <2>1 DEF Done, Replying
  <2> QED BY <2>5, <2>6 DEF PullsReviewed, Reviewed
<1>3. CASE MainSends
  <2>1. outmsg # None /\ outmsg' = None
    BY <1>3 DEF MainSends, IInv, TypeInv, Slots, MainSlots
  <2>2. \A i \in DOMAIN resps' : \/ i \in DOMAIN resps /\ resps'[i] = resps[i]
                                 \/ resps'[i] = outmsg /\ outmsg \in Replying
    BY <1>3, <2>1 DEF MainSends, Replying, IInv, TypeInv, TypeOK, OutTypeOK
  <2>3. Done' \subseteq Done \cup Replying /\ Replying' = {}
    BY <2>1, <2>2 DEF Done, Replying
  <2> QED BY <1>1, <2>3
<1>4. CASE resps' = resps /\ (outmsg' = outmsg \/ outmsg' = None \/ outmsg'.to # "request")
  BY <1>1, <1>4 DEF Done, Replying
<1>5. CASE EditorNext
  BY <1>4, <1>5 DEF EditorNext, EditorOpens, EditorChanges, EditorCloses, EditorRequests,
     EditorCancels, EditorSends, EditorDies, Post, outVars, mainVars
<1>6. CASE MainNext /\ ~Dispatch /\ ~MainSends
  BY <1>4, <1>6 DEF MainNext, Absorb, AbsorbRequest, AbsorbCancel, AbsorbNothing,
     AbsorbMalformed, AbsorbOutOfRoot, AbsorbClose, AbsorbFirstIgnored, AbsorbWrite,
     WriteText, WriteNewFile, WriteNewIgnored, PopRequest, MainSendFails, GetExit, NoExit,
     ClientWentAway, JoinWorker, outVars, mainVars
<1>7. CASE WorkerNext \/ WorkerPanics \/ UNCHANGED vars
  BY <1>4, <1>7 DEF WorkerNext, WorkerReceives, WorkerFinishes, WorkerBegins, WorkerChecks,
     WorkerCancelled, WorkerPublishes, WorkerSendFails, WorkerDisconnected, WorkerPanics,
     WorkerEnds, otherThanWorker, vars, mainVars, outVars
<1> QED BY <1>2, <1>3, <1>5, <1>6, <1>7 DEF Next

\* In a workspace whose schemas --ignore does not match, an ignored file never
\* joins ProjectFiles, though it keeps its place among the files, and a pull never
\* reports on one.
THEOREM IgnoredStaysEvidence ==
  (Schema \cap Ignored = {}) /\ Spec => []IgnoredIsEvidence
<1> SUFFICES ASSUME Schema \cap Ignored = {} PROVE Spec => []IgnoredIsEvidence
  OBVIOUS
<1>1. Init => EvidenceInv /\ PullsReviewed
  <2> SUFFICES ASSUME Init PROVE EvidenceInv /\ PullsReviewed
    OBVIOUS
  <2>1. IgnoredKnown
    BY LoadedKnown DEF Init, IgnoredKnown, LoadedIgnored
  <2>2. ProjectReviewed
    BY DEF Init, ProjectReviewed, LoadedProject
  <2>3. PullsReviewed
    BY DEF Init, PullsReviewed, Done, Replying
  <2> QED BY <2>1, <2>2, <2>3 DEF EvidenceInv
<1>2. IInv /\ EvidenceInv /\ [Next]_vars => EvidenceInv'
  <2> SUFFICES ASSUME IInv, EvidenceInv, [Next]_vars PROVE EvidenceInv'
    OBVIOUS
  <2>1. CASE UNCHANGED <<files, project>> /\ ignored \subseteq ignored'
    BY <2>1 DEF EvidenceInv, IgnoredKnown, ProjectReviewed, HasFile, File
  <2>2. CASE WriteNewFile
    <3>1. /\ files' = [files EXCEPT ![note.path] = note.ver] /\ note.path \notin Ignored
          /\ project' = ProjectOf(files') /\ ignored' = ignored
      BY <2>2 DEF WriteNewFile
    <3>2. files \in [Path -> Born \cup {NoFile}]
      BY DEF IInv, TypeInv, TypeOK, DocTypeOK
    <3>3. \A p \in Path : p \in Ignored => files'[p] = files[p]
      BY <3>1, <3>2
    <3>4. IgnoredKnown'
      BY <3>1, <3>3 DEF EvidenceInv, IgnoredKnown, HasFile, File
    <3>5. ProjectReviewed'
      BY <3>1, <3>3 DEF EvidenceInv, IgnoredKnown, ProjectReviewed, ProjectOf, HasFile, File
    <3> QED BY <3>4, <3>5 DEF EvidenceInv
  <2>3. CASE WriteNewIgnored \/ (wire # <<>> /\ AbsorbFirstIgnored(Head(wire)))
    BY <2>1, <2>3, IgnoredGrows
  <2> QED BY <2>1, <2>2, <2>3, ProjectQuiet
<1>3. EvidenceInv /\ PullsReviewed => IgnoredIsEvidence
  BY DEF EvidenceInv, ProjectReviewed, PullsReviewed, Done, IgnoredIsEvidence
<1> QED BY <1>1, <1>2, <1>3, IInvInit, IInvStep, PullsStep, PTL DEF Spec
=============================================================================
