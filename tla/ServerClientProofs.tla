------------------------- MODULE ServerClientProofs -------------------------
(***************************************************************************)
(* Proofs about ServerClient, for any number of threads, documents, calls  *)
(* and faults.                                                             *)
(***************************************************************************)
EXTENDS ServerClient, TLAPS

\* The type invariant, split by who owns the variables.
CallType ==
  /\ pc \in [Thread -> Pc] /\ uri \in [Thread -> Uri] /\ want \in [Thread -> Text]
  /\ op \in [Thread -> {"diagnostics", "shutdown"}] /\ attempt \in [Thread -> 1..2]
  /\ got \in [Thread -> Text \cup {None}]
  /\ calls \in 0..MaxCalls /\ faults \in 0..MaxFaults
ClientType ==
  /\ mutex \in Thread \cup {None} /\ nextId \in Nat /\ openDocuments \subseteq Uri
ChildType ==
  /\ handle \in 0..spawned /\ spawned \in Nat /\ running \subseteq 1..spawned
  /\ docs \in [Uri -> Text \cup {None}]
PipeType == inbox \in Seq(InMsg) /\ outbox \in Seq(OutMsg)
FlagType == disabled \in BOOLEAN /\ respawnAttempted \in BOOLEAN /\ hung \in BOOLEAN

\* A thread holds the mutex from Lock to Return, and no other one does.
Inside(t) == pc[t] \notin {"idle", "lock"}
Exclusive == \A t \in Thread : Inside(t) <=> mutex = t

\* From handshake to the end of wait_or_escalate there is a child to talk to,
\* and when its handles are cleaned up it is dead.
Stopping == {"stop", "graceful", "term", "kill", "cleanup"}
HandleHeld ==
  \A t \in Thread :
    /\ pc[t] \in {"handshake", "sync", "pull", "await", "graceful", "term", "kill"} => handle # 0
    /\ pc[t] = "cleanup" => running = {}
ChildInv == Exclusive /\ HandleHeld /\ OneChild

\* A respawn is only on record while the call that made it still runs, or for a
\* client that is disabled.
RespawnOwned ==
  respawnAttempted /\ ~disabled =>
    \E t \in Thread : mutex = t /\ attempt[t] = 2 /\ op[t] = "diagnostics"

\* What is in the pipes.  The child knows a document, or will have read its
\* didOpen, before it reads a didChange of it; so for every document the client
\* takes for open, unless the client is about to forget the child.
Edits(m, u) == m.kind \in {"didOpen", "didChange"} /\ m.uri = u
Opens(m, u) == m.kind = "didOpen" /\ m.uri = u
ChangesKnown ==
  \A j \in DOMAIN inbox : inbox[j].kind = "didChange" =>
    \/ docs[inbox[j].uri] # None
    \/ \E k \in DOMAIN inbox : k < j /\ Opens(inbox[k], inbox[j].uri)
OpenKnown ==
  (\A t \in Thread : pc[t] \notin Stopping) =>
    \A u \in openDocuments : docs[u] # None \/ \E k \in DOMAIN inbox : Opens(inbox[k], u)
NoChildNoDocuments == handle = 0 => openDocuments = {}

\* Once a thread has sent its text, the last edit of its document the child reads
\* is that text.
LastEditIsMine ==
  \A t \in Thread : pc[t] \in {"pull", "await"} =>
    \/ docs[uri[t]] = want[t] /\ \A k \in DOMAIN inbox : ~Edits(inbox[k], uri[t])
    \/ \E j \in DOMAIN inbox :
         /\ Edits(inbox[j], uri[t]) /\ inbox[j].text = want[t]
         /\ \A k \in DOMAIN inbox : k > j => ~Edits(inbox[k], uri[t])
EditInv == ChangesKnown /\ OpenKnown /\ NoChildNoDocuments /\ LastEditIsMine

\* No id is used twice: those in the pipes were all handed out.
IdsUsed ==
  /\ \A i \in DOMAIN inbox : inbox[i].id <= nextId
  /\ \A i \in DOMAIN outbox : outbox[i].id <= nextId

\* For the thread that waits, the request of its id is the last message the child
\* reads, and an answer of that id is about its text.
MyAnswer ==
  \A t \in Thread : pc[t] = "await" =>
    /\ \A i \in DOMAIN inbox : inbox[i].kind = "pull" /\ inbox[i].id = nextId =>
                                inbox[i].uri = uri[t] /\ i = Len(inbox)
    /\ \A i \in DOMAIN outbox : outbox[i].kind = "items" /\ outbox[i].id = nextId =>
                                 outbox[i].text = want[t]
AnswerInv == IdsUsed /\ MyAnswer /\ AnswerIsForMyText

IInv == TypeOK /\ ChildInv /\ EditInv /\ AnswerInv

----------------------------------------------------------------------------
\* The type invariant, by owner of the variables.
LEMMA TypeParts ==
  /\ TypeOK <=> CallType /\ ClientType /\ ChildType /\ PipeType /\ FlagType
  /\ TypeOK' <=> CallType' /\ ClientType' /\ ChildType' /\ PipeType' /\ FlagType'
BY DEF TypeOK, CallType, ClientType, ChildType, PipeType, FlagType

\* The types hold of a client that was never called.
LEMMA TypeInit == Init => TypeOK
<1> SUFFICES ASSUME Init PROVE TypeOK
  OBVIOUS
<1> USE ClientAssumption
<1>1. CallType
  BY DEF Init, CallType, Text, Pc
<1>2. ClientType /\ PipeType
  BY DEF Init, ClientType, PipeType
<1>3. ChildType
  BY DEF Init, ChildType, Unread, Text
<1>4. FlagType
  BY Zenon DEF Init, FlagType
<1> QED BY <1>1, <1>2, <1>3, <1>4, TypeParts

\* What an action leaves alone keeps its type.
LEMMA Stable ==
  /\ CallType /\ UNCHANGED <<pc, attempt, got, callVars, faults>> => CallType'
  /\ ClientType /\ UNCHANGED <<mutex, nextId, openDocuments>> => ClientType'
  /\ ChildType /\ UNCHANGED <<handle, spawned, running, docs>> => ChildType'
  /\ PipeType /\ UNCHANGED <<inbox, outbox>> => PipeType'
  /\ FlagType /\ UNCHANGED <<disabled, respawnAttempted, hung>> => FlagType'
BY DEF CallType, ClientType, ChildType, PipeType, FlagType, callVars

\* Every step of a thread, of the editor behind it and of the child keeps the types.
LEMMA TypeStep == TypeOK /\ [Next]_vars => TypeOK'
<1> SUFFICES ASSUME TypeOK, [Next]_vars
             PROVE  TypeOK'
  OBVIOUS
<1>0. CallType /\ ClientType /\ ChildType /\ PipeType /\ FlagType
  BY TypeParts
<1> USE DEF clientVars, childVars, callVars
<1>1. ASSUME NEW t \in Thread, NEW label \in Pc, Goto(t, label),
             UNCHANGED <<attempt, got, uri, want, op, calls>>, faults' \in 0..MaxFaults
      PROVE  CallType'
  BY <1>0, <1>1 DEF CallType, Goto
<1>2. Fault => faults' \in 0..MaxFaults
  BY <1>0, ClientAssumption DEF Fault, CallType
<1>3. faults \in 0..MaxFaults
  BY <1>0 DEF CallType
<1>4. ASSUME NEW t \in Thread, NEW u \in Uri, Call(t, u) PROVE TypeOK'
  <2>1. CallType'
    BY <1>0, <1>4, ClientAssumption DEF Call, CallType, Text, Goto, Pc
  <2> QED BY <1>0, <1>4, <2>1, Stable, TypeParts DEF Call
<1>5. ASSUME NEW t \in Thread, CallShutdown(t) PROVE TypeOK'
  <2>1. CallType'
    BY <1>0, <1>5, ClientAssumption DEF CallShutdown, CallType, Goto, Pc
  <2> QED BY <1>0, <1>5, <2>1, Stable, TypeParts DEF CallShutdown
<1>6. ASSUME NEW t \in Thread, Lock(t) PROVE TypeOK'
  <2>1. CallType' /\ ClientType'
    BY <1>0, <1>6 DEF Lock, CallType, ClientType, Goto, Pc
  <2> QED BY <1>0, <1>6, <2>1, Stable, TypeParts DEF Lock
<1>7. ASSUME NEW t \in Thread,
             AlreadyStarted(t) \/ SpawnFails(t) \/ Handshake(t) \/ NothingToStop(t)
               \/ Joined(t) \/ Escalate(t)
      PROVE  TypeOK'
  <2>1. CallType'
    BY <1>1, <1>2, <1>3, <1>7
       DEF AlreadyStarted, SpawnFails, Handshake, NothingToStop, Joined, Escalate, Pc
  <2> QED BY <1>0, <1>7, <2>1, Stable, TypeParts
      DEF AlreadyStarted, SpawnFails, Handshake, NothingToStop, Joined, Escalate
<1>8. ASSUME NEW t \in Thread, Spawn(t) PROVE TypeOK'
  <2>1. CallType'
    BY <1>1, <1>3, <1>8 DEF Spawn, Pc
  <2>2. ClientType' /\ ChildType' /\ PipeType'
    BY <1>0, <1>8, ClientAssumption DEF Spawn, ClientType, ChildType, PipeType, Unread, Text
  <2>3. FlagType'
    BY <1>0, <1>8, Zenon DEF Spawn, FlagType
  <2> QED BY <2>1, <2>2, <2>3, TypeParts
<1>9. ASSUME NEW t \in Thread, Sync(t) \/ Pull(t) PROVE TypeOK'
  <2>1. CallType'
    BY <1>1, <1>3, <1>9 DEF Sync, Pull, Pc
  <2>2. uri[t] \in Uri /\ want[t] \in Text /\ 0 \in Text /\ nextId + 1 \in Nat
    BY <1>0, ClientAssumption DEF CallType, ClientType, Text
  <2>3. \A kind \in {"didOpen", "didChange", "pull"}, x \in Text, n \in Nat :
          [kind |-> kind, uri |-> uri[t], text |-> x, id |-> n] \in InMsg
    BY <2>2 DEF InMsg
  <2>4. PipeType'
    <3>1. CASE Sync(t)
      BY <1>0, <3>1, <2>2, <2>3 DEF Sync, PipeType
    <3>2. CASE Pull(t)
      BY <1>0, <3>2, <2>2, <2>3 DEF Pull, PipeType
    <3> QED BY <1>9, <3>1, <3>2
  <2>5. ClientType'
    BY <1>0, <1>9, <2>2 DEF Sync, Pull, ClientType
  <2> QED BY <1>0, <1>9, <2>1, <2>4, <2>5, Stable, TypeParts DEF Sync, Pull
<1>10. outbox # <<>> => Head(outbox) \in OutMsg /\ Tail(outbox) \in Seq(OutMsg)
  BY <1>0 DEF PipeType
<1>11. ASSUME NEW t \in Thread, AwaitSkips(t) \/ AwaitError(t) PROVE TypeOK'
  <2>1. CallType'
    BY <1>0, <1>1, <1>3, <1>11, Stable DEF AwaitSkips, AwaitError, Pc
  <2>2. PipeType'
    BY <1>0, <1>10, <1>11 DEF AwaitSkips, AwaitError, PipeType
  <2> QED BY <1>0, <1>11, <2>1, <2>2, Stable, TypeParts DEF AwaitSkips, AwaitError
<1>12. ASSUME NEW t \in Thread, AwaitItems(t) PROVE TypeOK'
  <2>1. CallType' /\ ClientType'
    BY <1>0, <1>10, <1>12 DEF AwaitItems, Return, Goto, CallType, ClientType, OutMsg, Pc
  <2>2. PipeType'
    BY <1>0, <1>10, <1>12 DEF AwaitItems, PipeType
  <2>3. FlagType'
    BY <1>0, <1>12, Zenon DEF AwaitItems, FlagType
  <2> QED BY <1>0, <1>12, <2>1, <2>2, <2>3, Stable, TypeParts DEF AwaitItems
<1>13. ASSUME NEW t \in Thread, Trouble(t) \/ SlowChild(t) PROVE TypeOK'
  <2>1. CallType'
    BY <1>1, <1>2, <1>3, <1>13 DEF Trouble, SlowChild, RoundTripFails, Pc
  <2>2. ClientType'
    BY <1>0, <1>13 DEF Trouble, SlowChild, RoundTripFails, CallType, ClientType
  <2> QED BY <1>0, <1>13, <2>1, <2>2, Stable, TypeParts DEF Trouble, SlowChild, RoundTripFails
<1>14. ASSUME NEW t \in Thread, StopBegins(t) PROVE TypeOK'
  <2>1. CallType'
    BY <1>1, <1>3, <1>14 DEF StopBegins, Pc
  <2>2. ClientType'
    BY <1>0, <1>14 DEF StopBegins, ClientType
  <2> QED BY <1>0, <1>14, <2>1, <2>2, Stable, TypeParts DEF StopBegins
<1>15. ASSUME NEW t \in Thread, Cleanup(t) PROVE TypeOK'
  <2>1. CallType' /\ ClientType'
    BY <1>0, <1>15
       DEF Cleanup, Failure, Return, Goto, Cleared, CallType, ClientType, Pc
  <2>2. ChildType' /\ PipeType'
    BY <1>0, <1>15 DEF Cleanup, ChildType, PipeType
  <2>3. FlagType'
    BY <1>0, <1>15, Zenon DEF Cleanup, Failure, FlagType
  <2> QED BY <2>1, <2>2, <2>3, TypeParts
<1>16. CASE ChildReads
  <2>1. Head(inbox) \in InMsg /\ Tail(inbox) \in Seq(InMsg)
    BY <1>0, <1>16 DEF ChildReads, PipeType
  <2>2. ChildType'
    BY <1>0, <1>16, <2>1 DEF ChildReads, ChildType, InMsg
  <2>3. /\ [kind |-> "note", text |-> 0, id |-> 0] \in OutMsg
        /\ \A n \in Nat, x \in Text : [kind |-> "items", id |-> n, text |-> x] \in OutMsg
    BY ClientAssumption DEF OutMsg, Text
  <2>4. (IF docs[Head(inbox).uri] # None THEN docs[Head(inbox).uri] ELSE 0) \in Text
    BY <1>0, <2>1, ClientAssumption DEF ChildType, InMsg, Text
  <2>5. PipeType'
    BY <1>0, <1>16, <2>1, <2>3, <2>4 DEF ChildReads, PipeType, InMsg
  <2> QED BY <1>0, <1>16, <2>2, <2>5, Stable, TypeParts DEF ChildReads
<1>17. CASE ChildErrs
  <2>1. Head(inbox) \in InMsg /\ Tail(inbox) \in Seq(InMsg)
    BY <1>0, <1>17 DEF ChildErrs, PipeType
  <2>2. [kind |-> "error", id |-> Head(inbox).id, text |-> 0] \in OutMsg
    BY <2>1, ClientAssumption DEF InMsg, OutMsg, Text
  <2>3. PipeType'
    BY <1>0, <1>17, <2>1, <2>2 DEF ChildErrs, PipeType
  <2>4. CallType'
    BY <1>0, <1>2, <1>17 DEF ChildErrs, CallType
  <2> QED BY <1>0, <1>17, <2>3, <2>4, Stable, TypeParts DEF ChildErrs
<1>18. CASE ChildHangs \/ ChildCrashes \/ ChildExits
  <2>1. CallType'
    BY <1>0, <1>2, <1>18 DEF ChildHangs, ChildCrashes, ChildExits, CallType
  <2>2. ChildType'
    BY <1>0, <1>18 DEF ChildHangs, ChildCrashes, ChildExits, ChildType
  <2>3. FlagType'
    BY <1>0, <1>18, Zenon DEF ChildHangs, ChildCrashes, ChildExits, FlagType
  <2> QED BY <1>0, <1>18, <2>1, <2>2, <2>3, Stable, TypeParts
      DEF ChildHangs, ChildCrashes, ChildExits
<1>19. CASE UNCHANGED vars
  BY <1>0, <1>19, Stable, TypeParts DEF vars
<1> QED
  BY <1>4, <1>5, <1>6, <1>7, <1>8, <1>9, <1>11, <1>12, <1>13, <1>14, <1>15, <1>16, <1>17,
     <1>18, <1>19 DEF Next, ThreadNext, ChildNext

\* Every reachable state of the threads, the client and its child is well typed:
\* ids, texts and documents stay what the pipes and the tables hold.
THEOREM ClientTypeCorrect == Spec => []TypeOK
BY TypeInit, TypeStep, PTL DEF Spec

----------------------------------------------------------------------------
(* The mutex and the child.                                                *)

\* A step of the client is of one thread; the others stay where they are.
Moves(t) ==
  \/ ThreadNext(t) \/ SpawnFails(t) \/ SlowChild(t) \/ CallShutdown(t)
  \/ \E u \in Uri : Call(t, u)

\* The steps of the client split into those with the mutex, the calls, and Lock.
LEMMA StepCases ==
  ASSUME [Next]_vars
  PROVE  (\E t \in Thread : Moves(t)) \/ ChildNext \/ UNCHANGED vars
BY DEF Next, Moves

\* A call is outside the mutex, and takes it only when it is free.
LEMMA ExclusiveStep == TypeOK /\ Exclusive /\ [Next]_vars => Exclusive'
<1> SUFFICES ASSUME TypeOK, Exclusive, [Next]_vars PROVE Exclusive'
  OBVIOUS
<1>0. pc \in [Thread -> Pc] /\ mutex \in Thread \cup {None} /\ None \notin Thread
  BY ClientAssumption DEF TypeOK
<1>1. CASE UNCHANGED <<pc, mutex>>
  BY <1>1 DEF Exclusive, Inside
<1>2. ASSUME NEW t \in Thread, Lock(t) PROVE Exclusive'
  BY <1>0, <1>2 DEF Lock, Goto, Exclusive, Inside
<1>3. ASSUME NEW t \in Thread, NEW label \in {"idle", "lock"}, ~Inside(t),
             Goto(t, label), UNCHANGED mutex
      PROVE  Exclusive'
  BY <1>0, <1>3 DEF Goto, Exclusive, Inside
<1>4. ASSUME NEW t \in Thread, NEW label \in Pc \ {"idle", "lock"}, Inside(t),
             Goto(t, label), UNCHANGED mutex
      PROVE  Exclusive'
  BY <1>0, <1>4 DEF Goto, Exclusive, Inside
<1>5. ASSUME NEW t \in Thread, Inside(t), Return(t) PROVE Exclusive'
  BY <1>0, <1>5 DEF Return, Goto, Exclusive, Inside
<1>6. ASSUME NEW t \in Thread, CallShutdown(t) \/ \E u \in Uri : Call(t, u) PROVE Exclusive'
  BY <1>1, <1>3, <1>6 DEF CallShutdown, Call, Inside
<1>7. ASSUME NEW t \in Thread,
             \/ AlreadyStarted(t) \/ Spawn(t) \/ SpawnFails(t) \/ Handshake(t) \/ Sync(t)
             \/ Pull(t) \/ AwaitSkips(t) \/ AwaitError(t) \/ Trouble(t) \/ SlowChild(t)
             \/ StopBegins(t) \/ NothingToStop(t) \/ Joined(t) \/ Escalate(t)
      PROVE  Exclusive'
  BY <1>1, <1>4, <1>7
     DEF AlreadyStarted, Spawn, SpawnFails, Handshake, Sync, Pull, AwaitSkips, AwaitError,
         Trouble, SlowChild, RoundTripFails, InRoundTrip, StopBegins, NothingToStop, Joined,
         Escalate, Inside, Pc
<1>8. ASSUME NEW t \in Thread, AwaitItems(t) \/ Cleanup(t) PROVE Exclusive'
  BY <1>4, <1>5, <1>8 DEF AwaitItems, Cleanup, Failure, Inside, Pc
<1>9. CASE ChildNext \/ UNCHANGED vars
  BY <1>1, <1>9 DEF ChildNext, ChildReads, ChildErrs, ChildHangs, ChildCrashes, ChildExits, vars
<1> QED
  BY <1>2, <1>6, <1>7, <1>8, <1>9, StepCases DEF Moves, ThreadNext

\* A thread's step changes no other thread's place, call or result.
LEMMA OthersStay ==
  ASSUME TypeOK, NEW t \in Thread, Moves(t), NEW s \in Thread, s # t
  PROVE  /\ pc'[s] = pc[s] /\ uri'[s] = uri[s] /\ want'[s] = want[s] /\ op'[s] = op[s]
         /\ attempt'[s] = attempt[s] /\ got'[s] = got[s]
<1>1. /\ pc \in [Thread -> Pc] /\ uri \in [Thread -> Uri] /\ want \in [Thread -> Text]
      /\ op \in [Thread -> {"diagnostics", "shutdown"}] /\ attempt \in [Thread -> 1..2]
      /\ got \in [Thread -> Text \cup {None}]
  BY DEF TypeOK
<1>2. CASE CallShutdown(t) \/ \E u \in Uri : Call(t, u)
  BY <1>1, <1>2 DEF CallShutdown, Call, Goto
<1>3. CASE Lock(t) \/ AwaitItems(t) \/ Cleanup(t)
  BY <1>1, <1>3 DEF Lock, AwaitItems, Cleanup, Failure, Return, Goto, callVars
<1>4. CASE \/ AlreadyStarted(t) \/ Spawn(t) \/ SpawnFails(t) \/ Handshake(t) \/ Sync(t)
           \/ Pull(t) \/ AwaitSkips(t) \/ AwaitError(t) \/ Trouble(t) \/ SlowChild(t)
           \/ StopBegins(t) \/ NothingToStop(t) \/ Joined(t) \/ Escalate(t)
  BY <1>1, <1>4
     DEF AlreadyStarted, Spawn, SpawnFails, Handshake, Sync, Pull, AwaitSkips, AwaitError,
         Trouble, SlowChild, RoundTripFails, StopBegins, NothingToStop, Joined, Escalate,
         Goto, callVars
<1> QED BY <1>2, <1>3, <1>4 DEF Moves, ThreadNext

\* With one thread inside, the others are at rest or wait for the mutex.
LEMMA OthersOutside ==
  ASSUME Exclusive, NEW t \in Thread, Inside(t), NEW s \in Thread, s # t
  PROVE  pc[s] \in {"idle", "lock"}
BY DEF Exclusive, Inside

\* A child is started only when none is held, and forgotten only when dead.
LEMMA ChildStep == TypeOK /\ ChildInv /\ [Next]_vars => ChildInv'
<1> SUFFICES ASSUME TypeOK, ChildInv, [Next]_vars PROVE HandleHeld' /\ OneChild'
  BY ExclusiveStep DEF ChildInv
<1> USE DEF ChildInv, clientVars, childVars
<1>0. /\ pc \in [Thread -> Pc] /\ handle \in 0..spawned /\ spawned \in Nat
      /\ running \subseteq 1..spawned /\ handle \in Nat
  BY DEF TypeOK
<1>1. handle = 0 => running = {}
  BY <1>0 DEF OneChild
<1>2. ~Alive => running = {}
  BY DEF OneChild, Alive
<1>3. ASSUME NEW t \in Thread, Moves(t) PROVE HandleHeld' /\ OneChild'
  <2>1. \A s \in Thread : s # t => pc'[s] = pc[s]
    BY <1>3, OthersStay
  <2>2. CASE Inside(t)
    <3>1. \A s \in Thread : s # t => pc'[s] \in {"idle", "lock"}
      BY <2>1, <2>2, OthersOutside
    <3>2. CASE AlreadyStarted(t) \/ SpawnFails(t) \/ Handshake(t) \/ NothingToStop(t)
                 \/ Joined(t) \/ Escalate(t) \/ StopBegins(t)
      BY <1>0, <1>1, <1>2, <3>1, <3>2
         DEF AlreadyStarted, SpawnFails, Handshake, NothingToStop, Joined, Escalate,
             StopBegins, Goto, HandleHeld, OneChild
    <3>3. CASE Spawn(t)
      BY <1>0, <1>1, <3>1, <3>3 DEF Spawn, Goto, HandleHeld, OneChild
    <3>4. CASE Sync(t) \/ Pull(t) \/ AwaitSkips(t) \/ AwaitError(t)
      BY <1>0, <3>1, <3>4
         DEF Sync, Pull, AwaitSkips, AwaitError, Goto, HandleHeld, OneChild
    <3>5. CASE Trouble(t) \/ SlowChild(t)
      BY <1>0, <3>1, <3>5
         DEF Trouble, SlowChild, RoundTripFails, Goto, HandleHeld, OneChild
    <3>6. CASE AwaitItems(t)
      BY <1>0, <3>1, <3>6 DEF AwaitItems, Return, Goto, HandleHeld, OneChild
    <3>7. CASE Cleanup(t)
      <4>1. running' = {} /\ pc'[t] \in {"start", "idle"}
        BY <1>0, <3>7 DEF Cleanup, Failure, Return, Goto, HandleHeld
      <4> QED BY <3>1, <4>1 DEF HandleHeld, OneChild
    <3> QED
      BY <1>3, <2>2, <3>2, <3>3, <3>4, <3>5, <3>6, <3>7
         DEF Moves, ThreadNext, Call, CallShutdown, Lock, Inside
  <2>3. CASE ~Inside(t)
    <3>1. CASE Lock(t) \/ CallShutdown(t) \/ \E u \in Uri : Call(t, u)
      BY <1>0, <2>1, <3>1 DEF Lock, CallShutdown, Call, Goto, HandleHeld, OneChild
    <3> QED
      BY <1>3, <2>3, <3>1
         DEF Moves, ThreadNext, Inside, AlreadyStarted, Spawn, SpawnFails, Handshake, Sync,
             Pull, AwaitSkips, AwaitItems, AwaitError, Trouble, SlowChild, InRoundTrip,
             StopBegins, NothingToStop, Joined, Escalate, Cleanup
  <2> QED BY <2>2, <2>3
<1>4. CASE ChildNext
  <2>1. UNCHANGED <<pc, handle>> /\ running' \subseteq running
    BY <1>4 DEF ChildNext, ChildReads, ChildErrs, ChildHangs, ChildCrashes, ChildExits
  <2> QED BY <2>1 DEF HandleHeld, OneChild
<1>5. CASE UNCHANGED vars
  BY <1>5 DEF vars, HandleHeld, OneChild
<1> QED BY <1>3, <1>4, <1>5, StepCases

\* A respawn never leaves an `ita server` behind: at every moment at most one
\* child is alive and it is the one whose handles the client holds
\* (ensure_started!, stop_process, wait_or_escalate, cleanup_handles).
THEOREM OneChildAlive == Spec => []OneChild
<1>1. Init => TypeOK /\ ChildInv
  <2>1. Init => ChildInv
    BY ClientAssumption DEF Init, ChildInv, Exclusive, Inside, HandleHeld, OneChild
  <2> QED BY <2>1, TypeInit
<1>2. TypeOK /\ ChildInv /\ [Next]_vars => (TypeOK /\ ChildInv)'
  BY TypeStep, ChildStep
<1>3. ChildInv => OneChild
  BY DEF ChildInv
<1> QED BY <1>1, <1>2, <1>3, PTL DEF Spec

----------------------------------------------------------------------------
(* Failures and recovery.                                                  *)

\* Only Lock and Failure start an attempt, only Failure records a respawn or
\* disables the client, and nothing enables it again.
LEMMA QuietRecovery ==
  ASSUME TypeOK, [Next]_vars, ~\E t \in Thread : Lock(t) \/ AwaitItems(t) \/ Cleanup(t)
  PROVE  UNCHANGED <<mutex, attempt, disabled, respawnAttempted>>
<1> USE DEF clientVars
<1>1. ASSUME NEW t \in Thread, Moves(t)
      PROVE  UNCHANGED <<mutex, attempt, disabled, respawnAttempted>>
  BY <1>1 DEF Moves, ThreadNext, Call, CallShutdown, AlreadyStarted, Spawn, SpawnFails,
     Handshake, Sync, Pull, AwaitSkips, AwaitError, Trouble, SlowChild, RoundTripFails,
     StopBegins, NothingToStop, Joined, Escalate
<1>2. CASE ChildNext \/ UNCHANGED vars
  BY <1>2 DEF ChildNext, ChildReads, ChildErrs, ChildHangs, ChildCrashes, ChildExits, vars
<1> QED BY <1>1, <1>2, StepCases

\* The first failure of a call leads to its second attempt or disables the
\* client, the second disables it; a success wipes the record.
LEMMA RespawnStep == TypeOK /\ Exclusive /\ RespawnOwned /\ [Next]_vars => RespawnOwned'
<1> SUFFICES ASSUME TypeOK, Exclusive, RespawnOwned, [Next]_vars PROVE RespawnOwned'
  OBVIOUS
<1>0. /\ pc \in [Thread -> Pc] /\ attempt \in [Thread -> 1..2]
      /\ op \in [Thread -> {"diagnostics", "shutdown"}] /\ None \notin Thread
  BY ClientAssumption DEF TypeOK
<1>1. ASSUME NEW t \in Thread, Lock(t) PROVE RespawnOwned'
  BY <1>0, <1>1 DEF Lock, RespawnOwned, clientVars
<1>2. ASSUME NEW t \in Thread, AwaitItems(t) PROVE RespawnOwned'
  BY <1>2 DEF AwaitItems, RespawnOwned
<1>3. ASSUME NEW t \in Thread, Cleanup(t) PROVE RespawnOwned'
  <2>1. mutex = t
    BY <1>3 DEF Cleanup, Exclusive, Inside
  <2>2. CASE op[t] = "shutdown"
    BY <1>3, <2>1, <2>2 DEF Cleanup, RespawnOwned
  <2>3. CASE op[t] = "diagnostics"
    BY <1>0, <1>3, <2>1, <2>3 DEF Cleanup, Failure, RespawnOwned, callVars
  <2> QED BY <1>0, <2>2, <2>3
<1>4. CASE ~\E t \in Thread : Lock(t) \/ AwaitItems(t) \/ Cleanup(t)
  <2>1. UNCHANGED <<mutex, attempt, disabled, respawnAttempted>>
    BY <1>4, QuietRecovery
  <2>2. ASSUME NEW t \in Thread, mutex = t PROVE op'[t] = op[t]
    <3>1. pc[t] # "idle"
      BY <2>2 DEF Exclusive, Inside
    <3>2. CASE ChildNext \/ UNCHANGED vars
      BY <3>2 DEF ChildNext, ChildReads, ChildErrs, ChildHangs, ChildCrashes, ChildExits,
         vars, callVars
    <3>3. CASE Moves(t)
      BY <3>1, <3>3 DEF Moves, ThreadNext, Call, CallShutdown, Lock, AlreadyStarted, Spawn,
         SpawnFails, Handshake, Sync, Pull, AwaitSkips, AwaitItems, AwaitError, Trouble,
         SlowChild, RoundTripFails, StopBegins, NothingToStop, Joined, Escalate, Cleanup,
         callVars
    <3> QED BY <3>2, <3>3, OthersStay, StepCases
  <2> QED BY <2>1, <2>2 DEF RespawnOwned
<1> QED BY <1>1, <1>2, <1>3, <1>4

\* With the mutex free, @respawn_attempted is only left set by a client that is
\* disabled, whatever the interleaving of calls and shutdowns
\* (recover_from_failure, perform_diagnostics).
THEOREM RespawnFlagIsSettled == Spec => []RespawnFlagSettled
<1> DEFINE Inv == TypeOK /\ Exclusive /\ RespawnOwned
<1>1. Init => Inv
  BY TypeInit, ClientAssumption DEF Init, Exclusive, Inside, RespawnOwned
<1>2. Inv /\ [Next]_vars => Inv'
  BY TypeStep, ExclusiveStep, RespawnStep
<1>3. Inv => RespawnFlagSettled
  BY ClientAssumption DEF RespawnOwned, RespawnFlagSettled
<1> QED BY <1>1, <1>2, <1>3, PTL DEF Spec

\* A thread comes to rest without items only when the client is disabled.
LEMMA GivesUpStep == TypeOK /\ GivesUpForGood /\ [Next]_vars => GivesUpForGood'
<1> SUFFICES ASSUME TypeOK, GivesUpForGood, [Next]_vars,
                    NEW s \in Thread, pc'[s] = "idle", op'[s] = "diagnostics",
                    want'[s] # 0, got'[s] = None
             PROVE  disabled'
  BY DEF GivesUpForGood
<1>0. /\ pc \in [Thread -> Pc] /\ got \in [Thread -> Text \cup {None}]
      /\ op \in [Thread -> {"diagnostics", "shutdown"}] /\ None \notin Text
      /\ outbox \in Seq(OutMsg)
  BY ClientAssumption DEF TypeOK, Text
<1>1. disabled => disabled'
  <2>1. ASSUME NEW t \in Thread, Lock(t) \/ AwaitItems(t) \/ Cleanup(t)
        PROVE  disabled => disabled'
    BY <2>1 DEF Lock, AwaitItems, Cleanup, Failure, clientVars
  <2> QED BY <2>1, QuietRecovery
<1>2. CASE UNCHANGED <<pc[s], op[s], want[s], got[s]>>
  BY <1>1, <1>2 DEF GivesUpForGood
<1>3. CASE Moves(s)
  <2>1. CASE \E u \in Uri : Call(s, u)
    BY <1>0, <2>1 DEF Call, Goto, clientVars
  <2>2. CASE CallShutdown(s)
    BY <1>0, <2>2 DEF CallShutdown
  <2>3. CASE AwaitItems(s)
    <3>1. Head(outbox).text \in Text
      <4>1. Head(outbox) \in OutMsg
        BY <1>0, <2>3 DEF AwaitItems
      <4> QED BY <4>1 DEF OutMsg
    <3> QED BY <1>0, <2>3, <3>1 DEF AwaitItems
  <2>4. CASE Cleanup(s)
    BY <1>0, <2>4 DEF Cleanup, Failure, Goto, callVars
  <2>5. CASE \/ Lock(s) \/ AlreadyStarted(s) \/ Spawn(s) \/ SpawnFails(s) \/ Handshake(s)
             \/ Sync(s) \/ Pull(s) \/ AwaitSkips(s) \/ AwaitError(s) \/ Trouble(s)
             \/ SlowChild(s) \/ StopBegins(s) \/ NothingToStop(s) \/ Joined(s) \/ Escalate(s)
    BY <1>0, <2>5 DEF Lock, AlreadyStarted, Spawn, SpawnFails, Handshake, Sync, Pull,
       AwaitSkips, AwaitError, Trouble, SlowChild, RoundTripFails, StopBegins,
       NothingToStop, Joined, Escalate, Goto
  <2> QED BY <1>3, <2>1, <2>2, <2>3, <2>4, <2>5 DEF Moves, ThreadNext
<1>4. CASE ChildNext \/ UNCHANGED vars
  <2>1. UNCHANGED <<pc, op, want, got>>
    BY <1>4 DEF ChildNext, ChildReads, ChildErrs, ChildHangs, ChildCrashes, ChildExits,
       vars, callVars
  <2> QED BY <1>2, <2>1
<1> QED BY <1>2, <1>3, <1>4, OthersStay, StepCases

\* A call that returns without items leaves the client disabled, whichever of its
\* steps failed and whatever other threads did in between (recover_from_failure).
THEOREM GivingUpIsForGood == Spec => []GivesUpForGood
<1>1. Init => GivesUpForGood
  BY DEF Init, GivesUpForGood
<1> QED BY <1>1, TypeInit, TypeStep, GivesUpStep, PTL DEF Spec

----------------------------------------------------------------------------
(* The pipes.                                                              *)

\* Writing to a pipe and reading from it.
LEMMA AppendFacts ==
  ASSUME NEW S, NEW s \in Seq(S), NEW e \in S
  PROVE  /\ \A i \in DOMAIN s : i \in DOMAIN Append(s, e) /\ Append(s, e)[i] = s[i]
         /\ \A i \in DOMAIN Append(s, e) : i \in DOMAIN s \/ i = Len(s) + 1
         /\ Len(s) + 1 \in DOMAIN Append(s, e) /\ Append(s, e)[Len(s) + 1] = e
         /\ \A i \in DOMAIN s : i \in Nat /\ i < Len(s) + 1
         /\ Len(Append(s, e)) = Len(s) + 1
OBVIOUS

\* What taking the head off a pipe does to it.
LEMMA TailFacts ==
  ASSUME NEW S, NEW s \in Seq(S), s # <<>>
  PROVE  /\ 1 \in DOMAIN s /\ s[1] = Head(s)
         /\ \A i \in DOMAIN Tail(s) : /\ i \in Nat /\ i + 1 \in DOMAIN s /\ i + 1 # 1
                                      /\ Tail(s)[i] = s[i + 1]
         /\ \A i \in DOMAIN s : i \in Nat /\ (i = 1 \/ (i > 1 /\ i - 1 \in DOMAIN Tail(s)))
         /\ Len(Tail(s)) = Len(s) - 1 /\ Len(s) \in Nat
OBVIOUS

\* What the two ends of a pipe can rely on.
LEMMA MessageFacts ==
  ASSUME TypeOK
  PROVE  /\ \A i \in DOMAIN inbox :
              /\ inbox[i] \in InMsg /\ inbox[i].uri \in Uri /\ inbox[i].text # None
              /\ inbox[i].text \in Text /\ inbox[i].id \in Nat
         /\ \A i \in DOMAIN outbox : outbox[i] \in OutMsg /\ outbox[i].id \in Nat
<1>1. \A m \in InMsg : m.uri \in Uri /\ m.text # None /\ m.text \in Text /\ m.id \in Nat
  BY ClientAssumption DEF InMsg, Text
<1>2. \A m \in OutMsg : m.id \in Nat
  BY DEF OutMsg
<1>3. /\ \A i \in DOMAIN inbox : inbox[i] \in InMsg
      /\ \A i \in DOMAIN outbox : outbox[i] \in OutMsg
  BY DEF TypeOK
<1> QED BY <1>1, <1>2, <1>3

\* A step that touches neither the pipe nor the child's documents, brings no
\* thread between its edit and its answer, and adds no document unless the client
\* is stopping.
LEMMA EditQuiet ==
  ASSUME EditInv, UNCHANGED <<inbox, docs>>,
         \A t \in Thread : pc'[t] \in {"pull", "await"} =>
           pc[t] \in {"pull", "await"} /\ uri'[t] = uri[t] /\ want'[t] = want[t],
         \/ \E t \in Thread : pc'[t] \in Stopping
         \/ /\ \A t \in Thread : pc[t] \in Stopping => pc'[t] \in Stopping
            /\ openDocuments' = openDocuments,
         NoChildNoDocuments'
  PROVE  EditInv'
BY DEF EditInv, ChangesKnown, OpenKnown, LastEditIsMine, Edits, Opens

\* A new or forgotten child has empty pipes and no documents.
LEMMA EditFresh ==
  ASSUME inbox' = <<>>, openDocuments' = {},
         \A t \in Thread : pc'[t] \notin {"pull", "await"}
  PROVE  EditInv'
BY DEF EditInv, ChangesKnown, OpenKnown, NoChildNoDocuments, LastEditIsMine

\* sync_document adds the edit the round trip is about.
LEMMA EditSync ==
  ASSUME TypeOK, ChildInv, EditInv, NEW t \in Thread, Sync(t)
  PROVE  EditInv'
<1> DEFINE kind == IF uri[t] \in openDocuments THEN "didChange" ELSE "didOpen"
           m == [kind |-> kind, uri |-> uri[t], text |-> want[t], id |-> 0]
<1>1. /\ m \in InMsg /\ m.uri = uri[t] /\ m.text = want[t] /\ m.kind = kind
      /\ Edits(m, uri[t]) /\ inbox' = Append(inbox, m) /\ inbox \in Seq(InMsg)
  BY DEF Sync, TypeOK, InMsg, Edits
<1>2. UNCHANGED <<docs, uri, want, handle>> /\ openDocuments' = openDocuments \cup {uri[t]}
  BY DEF Sync, callVars
<1>3. \A s \in Thread : s # t => pc'[s] \in {"idle", "lock"}
  BY OthersStay, OthersOutside DEF Sync, ChildInv, Inside, Moves, ThreadNext
<1>4. pc'[t] = "pull" /\ \A s \in Thread : pc[s] \notin Stopping
  BY OthersOutside DEF Sync, ChildInv, Inside, TypeOK, Goto, Stopping
<1> HIDE DEF m
<1>5. /\ \A i \in DOMAIN inbox : i \in DOMAIN inbox' /\ inbox'[i] = inbox[i]
      /\ \A i \in DOMAIN inbox' : i \in DOMAIN inbox \/ i = Len(inbox) + 1
      /\ Len(inbox) + 1 \in DOMAIN inbox' /\ inbox'[Len(inbox) + 1] = m
      /\ \A i \in DOMAIN inbox : i \in Nat /\ i < Len(inbox) + 1
      /\ Len(inbox) \in Nat
  BY <1>1, AppendFacts
<1>6. \A u \in openDocuments : docs[u] # None \/ \E k \in DOMAIN inbox : Opens(inbox[k], u)
  BY <1>4 DEF EditInv, OpenKnown
<1>7. ChangesKnown'
  BY <1>1, <1>2, <1>5, <1>6 DEF EditInv, ChangesKnown, Opens
<1>8. OpenKnown'
  BY <1>1, <1>2, <1>5, <1>6 DEF OpenKnown, Opens
<1>9. NoChildNoDocuments'
  BY <1>2 DEF ChildInv, HandleHeld, Sync, NoChildNoDocuments
<1>10. LastEditIsMine'
  <2> SUFFICES \E j \in DOMAIN inbox' :
                  /\ Edits(inbox'[j], uri[t]) /\ inbox'[j].text = want[t]
                  /\ \A k \in DOMAIN inbox' : k > j => ~Edits(inbox'[k], uri[t])
    BY <1>2, <1>3 DEF LastEditIsMine, Edits
  <2> QED BY <1>1, <1>5
<1> QED BY <1>7, <1>8, <1>9, <1>10 DEF EditInv

\* A request behind the edits changes nothing about them.
LEMMA EditPull ==
  ASSUME TypeOK, ChildInv, EditInv, NEW t \in Thread, Pull(t)
  PROVE  EditInv'
<1> DEFINE m == [kind |-> "pull", uri |-> uri[t], text |-> 0, id |-> nextId + 1]
<1>1. /\ m \in InMsg /\ m.kind = "pull" /\ inbox' = Append(inbox, m) /\ inbox \in Seq(InMsg)
  BY ClientAssumption DEF Pull, TypeOK, InMsg, Text
<1>2. UNCHANGED <<docs, uri, want, handle, openDocuments>>
  BY DEF Pull, callVars
<1>3. \A s \in Thread : /\ s # t => pc'[s] = pc[s]
                        /\ pc'[s] \in {"pull", "await"} => pc[s] \in {"pull", "await"}
                        /\ pc[s] \notin Stopping
  BY OthersStay, OthersOutside
     DEF Pull, ChildInv, Inside, Moves, ThreadNext, Stopping, TypeOK, Goto
<1> HIDE DEF m
<1>4. /\ \A i \in DOMAIN inbox : i \in DOMAIN inbox' /\ inbox'[i] = inbox[i]
      /\ \A i \in DOMAIN inbox' : i \in DOMAIN inbox \/ inbox'[i] = m
  BY <1>1, AppendFacts
<1>5. \A u \in Uri : ~Edits(m, u)
  BY <1>1 DEF Edits
<1>6. ChangesKnown' /\ OpenKnown'
  BY <1>1, <1>2, <1>3, <1>4 DEF EditInv, ChangesKnown, OpenKnown, Opens
<1>7. LastEditIsMine'
  <2> SUFFICES ASSUME NEW s \in Thread, pc'[s] \in {"pull", "await"}
               PROVE  \/ docs[uri[s]] = want[s] /\ \A k \in DOMAIN inbox' : ~Edits(inbox'[k], uri[s])
                      \/ \E j \in DOMAIN inbox' :
                           /\ Edits(inbox'[j], uri[s]) /\ inbox'[j].text = want[s]
                           /\ \A k \in DOMAIN inbox' : k > j => ~Edits(inbox'[k], uri[s])
    BY <1>2 DEF LastEditIsMine, Edits
  <2>1. pc[s] \in {"pull", "await"} /\ ~Edits(m, uri[s])
    BY <1>3, <1>5 DEF TypeOK
  <2>2. \A k \in DOMAIN inbox' : Edits(inbox'[k], uri[s]) =>
                                  k \in DOMAIN inbox /\ Edits(inbox[k], uri[s])
    BY <1>4, <2>1
  <2> QED BY <1>4, <2>1, <2>2 DEF EditInv, LastEditIsMine
<1> QED BY <1>2, <1>6, <1>7 DEF EditInv, NoChildNoDocuments

\* The child takes the oldest message: an edit becomes the document's text.
LEMMA EditRead ==
  ASSUME TypeOK, EditInv, ChildReads \/ ChildErrs
  PROVE  EditInv'
<1> DEFINE m == inbox[1]
<1>1. inbox \in Seq(InMsg) /\ inbox # <<>> /\ inbox' = Tail(inbox)
  BY DEF ChildReads, ChildErrs, TypeOK
<1>2. /\ 1 \in DOMAIN inbox /\ m = Head(inbox)
      /\ \A i \in DOMAIN inbox' : /\ i \in Nat /\ i + 1 \in DOMAIN inbox /\ i + 1 # 1
                                  /\ inbox'[i] = inbox[i + 1]
      /\ \A i \in DOMAIN inbox : i \in Nat /\ (i = 1 \/ (i > 1 /\ i - 1 \in DOMAIN inbox'))
  BY <1>1, TailFacts
<1>3. UNCHANGED <<pc, uri, want, handle, openDocuments>>
  BY DEF ChildReads, ChildErrs, callVars, clientVars
<1>4. m \in InMsg /\ m.text # None /\ m.uri \in Uri
  BY <1>1, <1>2, MessageFacts
<1>5. m.kind = "didChange" => docs[m.uri] # None
  BY <1>2 DEF EditInv, ChangesKnown
<1>6. \A u \in Uri : docs'[u] = IF Edits(m, u) THEN m.text ELSE docs[u]
  <2>1. CASE ChildReads
    <3>1. docs' = IF m.kind = "didOpen" \/ (m.kind = "didChange" /\ docs[m.uri] # None)
                  THEN [docs EXCEPT ![m.uri] = m.text] ELSE docs
      BY <1>2, <2>1 DEF ChildReads
    <3>2. docs' = IF m.kind \in {"didOpen", "didChange"}
                  THEN [docs EXCEPT ![m.uri] = m.text] ELSE docs
      BY <1>5, <3>1
    <3> QED BY <1>4, <3>2 DEF Edits, TypeOK
  <2>2. CASE ChildErrs
    BY <1>2, <2>2 DEF ChildErrs, Edits
  <2> QED BY <2>1, <2>2
<1> HIDE DEF m
<1>7. \A u \in Uri : (docs[u] # None \/ Opens(m, u)) => docs'[u] # None
  BY <1>4, <1>6 DEF Edits, Opens
<1>8. \A i \in DOMAIN inbox : inbox[i].uri \in Uri
  BY MessageFacts
<1>9. ChangesKnown'
  <2> SUFFICES ASSUME NEW j \in DOMAIN inbox', inbox'[j].kind = "didChange"
               PROVE  \/ docs'[inbox'[j].uri] # None
                      \/ \E k \in DOMAIN inbox' : k < j /\ Opens(inbox'[k], inbox'[j].uri)
    BY DEF ChangesKnown, Opens
  <2> DEFINE u == inbox'[j].uri
  <2>1. j \in Nat /\ j + 1 \in DOMAIN inbox /\ inbox'[j] = inbox[j + 1] /\ u \in Uri
    BY <1>2, <1>8
  <2>2. docs[u] # None \/ \E k \in DOMAIN inbox : k < j + 1 /\ Opens(inbox[k], u)
    BY <2>1 DEF EditInv, ChangesKnown
  <2>3. ASSUME NEW k \in DOMAIN inbox, k < j + 1, Opens(inbox[k], u), k # 1
        PROVE  k - 1 \in DOMAIN inbox' /\ k - 1 < j /\ Opens(inbox'[k - 1], u)
    <3>1. k \in Nat /\ k - 1 \in DOMAIN inbox' /\ inbox'[k - 1] = inbox[(k - 1) + 1]
      BY <1>2, <2>3
    <3> QED BY <2>1, <2>3, <3>1
  <2> QED BY <1>7, <2>1, <2>2, <2>3 DEF m
<1>10. ASSUME NEW u \in Uri, docs[u] # None \/ \E k \in DOMAIN inbox : Opens(inbox[k], u)
       PROVE  docs'[u] # None \/ \E k \in DOMAIN inbox' : Opens(inbox'[k], u)
  <2>1. ASSUME NEW k \in DOMAIN inbox, Opens(inbox[k], u), k # 1
        PROVE  k - 1 \in DOMAIN inbox' /\ Opens(inbox'[k - 1], u)
    <3>1. k \in Nat /\ k - 1 \in DOMAIN inbox' /\ inbox'[k - 1] = inbox[(k - 1) + 1]
      BY <1>2, <2>1
    <3> QED BY <2>1, <3>1
  <2> QED BY <1>7, <1>10, <2>1 DEF m
<1>11. OpenKnown'
  BY <1>3, <1>10 DEF EditInv, OpenKnown, TypeOK, Opens
<1>12. LastEditIsMine'
  <2> SUFFICES ASSUME NEW s \in Thread, pc[s] \in {"pull", "await"}
               PROVE  \/ docs'[uri[s]] = want[s] /\ \A k \in DOMAIN inbox' : ~Edits(inbox'[k], uri[s])
                      \/ \E j \in DOMAIN inbox' :
                           /\ Edits(inbox'[j], uri[s]) /\ inbox'[j].text = want[s]
                           /\ \A k \in DOMAIN inbox' : k > j => ~Edits(inbox'[k], uri[s])
    BY <1>3 DEF LastEditIsMine, Edits
  <2>1. uri[s] \in Uri
    BY DEF TypeOK
  <2>2. CASE docs[uri[s]] = want[s] /\ \A k \in DOMAIN inbox : ~Edits(inbox[k], uri[s])
    BY <1>2, <1>6, <2>1, <2>2
  <2>3. ASSUME NEW j \in DOMAIN inbox, Edits(inbox[j], uri[s]), inbox[j].text = want[s],
               \A k \in DOMAIN inbox : k > j => ~Edits(inbox[k], uri[s])
        PROVE  \/ docs'[uri[s]] = want[s] /\ \A k \in DOMAIN inbox' : ~Edits(inbox'[k], uri[s])
               \/ \E i \in DOMAIN inbox' :
                    /\ Edits(inbox'[i], uri[s]) /\ inbox'[i].text = want[s]
                    /\ \A k \in DOMAIN inbox' : k > i => ~Edits(inbox'[k], uri[s])
    <3>1. CASE j = 1
      <4>1. docs'[uri[s]] = want[s]
        BY <1>6, <2>1, <2>3, <3>1 DEF m
      <4>2. \A k \in DOMAIN inbox' : k + 1 > 1 /\ k + 1 \in DOMAIN inbox /\ inbox'[k] = inbox[k + 1]
        BY <1>2
      <4> QED BY <2>3, <3>1, <4>1, <4>2
    <3>2. CASE j # 1
      <4>1. j \in Nat /\ j - 1 \in DOMAIN inbox' /\ inbox'[j - 1] = inbox[j]
        <5>1. j \in Nat /\ j - 1 \in DOMAIN inbox' /\ (j - 1) + 1 = j
          BY <1>2, <3>2
        <5> QED BY <1>2, <5>1
      <4>2. \A k \in DOMAIN inbox' : k > j - 1 => ~Edits(inbox'[k], uri[s])
        BY <1>2, <2>3, <4>1
      <4> QED BY <2>3, <4>1, <4>2
    <3> QED BY <3>1, <3>2
  <2> QED BY <2>2, <2>3 DEF EditInv, LastEditIsMine
<1> QED BY <1>3, <1>9, <1>11, <1>12 DEF EditInv, NoChildNoDocuments

\* Every step keeps the child's view of the documents in line with the calls.
LEMMA EditStep == TypeOK /\ ChildInv /\ EditInv /\ [Next]_vars => EditInv'
<1> SUFFICES ASSUME TypeOK, ChildInv, EditInv, [Next]_vars PROVE EditInv'
  OBVIOUS
<1>0. pc \in [Thread -> Pc]
  BY DEF TypeOK
<1> USE DEF clientVars, childVars, callVars
<1>1. ASSUME NEW t \in Thread, Lock(t) \/ CallShutdown(t) \/ \E u \in Uri : Call(t, u)
      PROVE  EditInv'
  <2>1. /\ pc[t] \notin Stopping /\ pc'[t] \notin {"pull", "await"}
        /\ UNCHANGED <<inbox, docs, handle, openDocuments>>
    BY <1>0, <1>1 DEF Lock, CallShutdown, Call, Goto, Stopping
  <2>2. NoChildNoDocuments'
    BY <2>1 DEF EditInv, NoChildNoDocuments
  <2>3. \A s \in Thread : s # t => pc'[s] = pc[s] /\ uri'[s] = uri[s] /\ want'[s] = want[s]
    BY <1>1, OthersStay DEF Moves, ThreadNext
  <2> QED BY <2>1, <2>2, <2>3, EditQuiet
<1>2. ASSUME NEW t \in Thread,
             \/ AlreadyStarted(t) \/ SpawnFails(t) \/ Handshake(t) \/ AwaitSkips(t)
             \/ AwaitItems(t) \/ AwaitError(t) \/ StopBegins(t) \/ NothingToStop(t)
             \/ Joined(t) \/ Escalate(t)
      PROVE  EditInv'
  <2>1. /\ pc'[t] \in {"pull", "await"} => pc[t] \in {"pull", "await"}
        /\ pc[t] \in Stopping => pc'[t] \in Stopping
        /\ UNCHANGED <<uri, want, inbox, docs, handle, openDocuments>>
    BY <1>0, <1>2 DEF AlreadyStarted, SpawnFails, Handshake, AwaitSkips, AwaitItems,
       AwaitError, StopBegins, NothingToStop, Joined, Escalate, Goto, Return, Stopping
  <2>2. NoChildNoDocuments'
    BY <2>1 DEF EditInv, NoChildNoDocuments
  <2>3. \A s \in Thread : s # t => pc'[s] = pc[s]
    BY <1>2, OthersStay DEF Moves, ThreadNext
  <2> QED BY <2>1, <2>2, <2>3, EditQuiet
<1>3. ASSUME NEW t \in Thread, Trouble(t) \/ SlowChild(t) PROVE EditInv'
  <2>1. handle # 0 /\ pc'[t] = "stop" /\ UNCHANGED <<uri, want, inbox, docs, handle>>
    BY <1>0, <1>3 DEF Trouble, SlowChild, RoundTripFails, InRoundTrip, Goto, ChildInv, HandleHeld
  <2>2. \A s \in Thread : s # t => pc'[s] = pc[s]
    BY <1>3, OthersStay DEF Moves, ThreadNext
  <2>3. pc'[t] \in Stopping /\ NoChildNoDocuments'
    BY <2>1 DEF Stopping, NoChildNoDocuments
  <2> QED BY <2>1, <2>2, <2>3, EditQuiet
<1>4. ASSUME NEW t \in Thread, Spawn(t) \/ Cleanup(t) PROVE EditInv'
  <2>1. inbox' = <<>> /\ openDocuments' = {} /\ pc'[t] \notin {"pull", "await"}
    BY <1>0, <1>4
       DEF Spawn, Cleanup, Cleared, Failure, Return, Goto, EditInv, NoChildNoDocuments
  <2>2. \A s \in Thread : s # t => pc'[s] \in {"idle", "lock"}
    BY <1>4, OthersStay, OthersOutside DEF Spawn, Cleanup, Moves, ThreadNext, ChildInv, Inside
  <2> QED BY <2>1, <2>2, EditFresh
<1>5. CASE ChildHangs \/ ChildCrashes \/ ChildExits \/ UNCHANGED vars
  <2>1. UNCHANGED <<pc, uri, want, inbox, docs, handle, openDocuments>>
    BY <1>5 DEF ChildHangs, ChildCrashes, ChildExits, vars
  <2> QED BY <2>1, EditQuiet DEF EditInv, NoChildNoDocuments
<1> QED
  BY <1>1, <1>2, <1>3, <1>4, <1>5, EditSync, EditPull, EditRead, StepCases
     DEF Moves, ThreadNext, ChildNext

\* Ids are handed out in increasing order, so those in the pipes stay used.
LEMMA IdsKept ==
  ASSUME TypeOK, IdsUsed, nextId' \in Nat, nextId <= nextId',
         \A i \in DOMAIN inbox' : inbox'[i].id <= nextId'
                                  \/ \E j \in DOMAIN inbox : inbox'[i] = inbox[j],
         \A i \in DOMAIN outbox' : outbox'[i].id <= nextId'
                                   \/ \E j \in DOMAIN outbox : outbox'[i] = outbox[j]
  PROVE  IdsUsed'
<1>1. /\ \A j \in DOMAIN inbox : inbox[j].id \in Nat /\ inbox[j].id <= nextId
      /\ \A j \in DOMAIN outbox : outbox[j].id \in Nat /\ outbox[j].id <= nextId
      /\ nextId \in Nat
  BY MessageFacts DEF IdsUsed, TypeOK
<1>2. \A j \in DOMAIN inbox : inbox[j].id <= nextId'
  BY <1>1
<1>3. \A j \in DOMAIN outbox : outbox[j].id <= nextId'
  BY <1>1
<1> QED BY <1>2, <1>3 DEF IdsUsed

\* A thread that is done waiting, or has not begun, expects no answer.
LEMMA NobodyAwaits ==
  ASSUME TypeOK, Exclusive, NEW t \in Thread, Inside(t), Moves(t), pc'[t] # "await"
  PROVE  MyAnswer'
BY OthersStay, OthersOutside DEF MyAnswer

\* The request of a fresh id is the only one with that id, and nothing in the
\* pipes answers it yet.
LEMMA AnswerPull ==
  ASSUME TypeOK, ChildInv, AnswerInv, NEW t \in Thread, Pull(t)
  PROVE  AnswerInv'
<1> DEFINE m == [kind |-> "pull", uri |-> uri[t], text |-> 0, id |-> nextId + 1]
<1>1. /\ m \in InMsg /\ m.uri = uri[t] /\ m.id = nextId + 1
      /\ inbox' = Append(inbox, m) /\ inbox \in Seq(InMsg)
  BY ClientAssumption DEF Pull, TypeOK, InMsg, Text
<1>2. /\ UNCHANGED <<uri, want, got, outbox>> /\ nextId' = nextId + 1 /\ nextId \in Nat
      /\ nextId' \in Nat /\ nextId <= nextId'
  BY DEF Pull, callVars, TypeOK
<1> HIDE DEF m
<1>3. /\ \A i \in DOMAIN inbox : i \in DOMAIN inbox' /\ inbox'[i] = inbox[i]
      /\ \A i \in DOMAIN inbox' : i \in DOMAIN inbox \/ i = Len(inbox) + 1
      /\ inbox'[Len(inbox) + 1] = m /\ Len(inbox') = Len(inbox) + 1
  BY <1>1, AppendFacts
<1>4. IdsUsed'
  <2>1. \A i \in DOMAIN inbox' : inbox'[i].id <= nextId'
                                 \/ \E j \in DOMAIN inbox : inbox'[i] = inbox[j]
    BY <1>1, <1>2, <1>3
  <2>2. \A i \in DOMAIN outbox' : \E j \in DOMAIN outbox : outbox'[i] = outbox[j]
    BY <1>2
  <2> QED BY <1>2, <2>1, <2>2, IdsKept DEF AnswerInv
<1>5. /\ \A i \in DOMAIN inbox : inbox[i].id # nextId + 1
      /\ \A i \in DOMAIN outbox : outbox[i].id # nextId + 1
  BY <1>2, MessageFacts DEF AnswerInv, IdsUsed
<1>6. \A s \in Thread : s # t => pc'[s] # "await"
  BY OthersStay, OthersOutside DEF Pull, ChildInv, Inside, Moves, ThreadNext
<1>7. MyAnswer'
  BY <1>1, <1>2, <1>3, <1>5, <1>6 DEF MyAnswer
<1> QED BY <1>2, <1>4, <1>7 DEF AnswerInv, AnswerIsForMyText

\* The child answers in the order it reads, with the text it has by then.
LEMMA AnswerRead ==
  ASSUME TypeOK, EditInv, AnswerInv, ChildReads \/ ChildErrs
  PROVE  AnswerInv'
<1> DEFINE m == inbox[1]
<1>1. /\ inbox \in Seq(InMsg) /\ inbox # <<>> /\ inbox' = Tail(inbox) /\ m = Head(inbox)
      /\ 1 \in DOMAIN inbox
  BY TailFacts DEF ChildReads, ChildErrs, TypeOK
<1>2. /\ \A i \in DOMAIN inbox' : /\ i \in Nat /\ i + 1 \in DOMAIN inbox
                                  /\ inbox'[i] = inbox[i + 1]
      /\ Len(inbox') = Len(inbox) - 1 /\ Len(inbox) \in Nat
  BY <1>1, TailFacts
<1>3. UNCHANGED <<pc, uri, want, got, nextId>>
  BY DEF ChildReads, ChildErrs, callVars, clientVars
<1>4. PICK out \in OutMsg :
        /\ outbox' = Append(outbox, out)
        /\ out.id \in {0, m.id}
        /\ out.kind = "items" => /\ m.kind = "pull" /\ out.id = m.id
                                 /\ docs[m.uri] # None => out.text = docs[m.uri]
  <2>1. m \in InMsg /\ m.uri \in Uri /\ m.id \in Nat /\ 0 \in Text
    BY <1>1, MessageFacts, ClientAssumption DEF Text
  <2>2. (IF docs[m.uri] # None THEN docs[m.uri] ELSE 0) \in Text
    BY <2>1 DEF TypeOK
  <2>3. \A kind \in {"note", "items", "error"}, n \in Nat, x \in Text :
          [kind |-> kind, text |-> x, id |-> n] \in OutMsg
    BY DEF OutMsg
  <2>4. CASE ChildReads /\ m.kind # "pull"
    <3> DEFINE out == [kind |-> "note", text |-> 0, id |-> 0]
    <3>1. outbox' = Append(outbox, out) /\ out \in OutMsg
      BY <1>1, <2>1, <2>3, <2>4 DEF ChildReads
    <3> QED BY <3>1
  <2>5. CASE ChildReads /\ m.kind = "pull"
    <3> DEFINE out == [kind |-> "items", id |-> m.id,
                       text |-> IF docs[m.uri] # None THEN docs[m.uri] ELSE 0]
    <3>1. outbox' = Append(outbox, out)
      BY <1>1, <2>5 DEF ChildReads
    <3>2. out \in OutMsg
      BY <2>1, <2>2, <2>3
    <3> QED BY <2>5, <3>1, <3>2
  <2>6. CASE ChildErrs
    <3> DEFINE out == [kind |-> "error", id |-> m.id, text |-> 0]
    <3>1. outbox' = Append(outbox, out) /\ out \in OutMsg
      BY <1>1, <2>1, <2>3, <2>6 DEF ChildErrs
    <3> QED BY <3>1
  <2> QED BY <2>4, <2>5, <2>6
<1>5. /\ \A i \in DOMAIN outbox : i \in DOMAIN outbox' /\ outbox'[i] = outbox[i]
      /\ \A i \in DOMAIN outbox' : i \in DOMAIN outbox \/ i = Len(outbox) + 1
      /\ outbox'[Len(outbox) + 1] = out
  BY <1>4, AppendFacts DEF TypeOK
<1>6. out.id <= nextId
  BY <1>1, <1>4 DEF AnswerInv, IdsUsed, TypeOK
<1>7. IdsUsed'
  <2>1. nextId' \in Nat /\ nextId <= nextId'
    BY <1>3 DEF TypeOK
  <2>2. \A i \in DOMAIN inbox' : \E j \in DOMAIN inbox : inbox'[i] = inbox[j]
    BY <1>2
  <2>3. \A i \in DOMAIN outbox' : outbox'[i].id <= nextId'
                                  \/ \E j \in DOMAIN outbox : outbox'[i] = outbox[j]
    BY <1>3, <1>5, <1>6
  <2> QED BY <2>1, <2>2, <2>3, IdsKept DEF AnswerInv
<1>8. ASSUME NEW t \in Thread, pc[t] = "await", out.kind = "items", out.id = nextId
      PROVE  out.text = want[t]
  <2>1. m.kind = "pull" /\ m.id = nextId /\ 1 = Len(inbox) /\ m.uri = uri[t]
    BY <1>1, <1>4, <1>8 DEF AnswerInv, MyAnswer
  <2>2. \A k \in DOMAIN inbox : inbox[k] = m
    BY <1>1, <2>1
  <2>3. \A k \in DOMAIN inbox : ~Edits(inbox[k], uri[t])
    BY <2>1, <2>2 DEF Edits
  <2>4. docs[uri[t]] = want[t]
    BY <1>8, <2>3 DEF EditInv, LastEditIsMine
  <2>5. want[t] # None
    BY ClientAssumption DEF TypeOK, Text
  <2> QED BY <1>4, <1>8, <2>1, <2>4, <2>5
<1>9. MyAnswer'
  <2> SUFFICES ASSUME NEW t \in Thread, pc[t] = "await"
               PROVE  /\ \A i \in DOMAIN inbox' : inbox'[i].kind = "pull" /\ inbox'[i].id = nextId =>
                           inbox'[i].uri = uri[t] /\ i = Len(inbox')
                      /\ \A i \in DOMAIN outbox' : outbox'[i].kind = "items" /\ outbox'[i].id = nextId =>
                           outbox'[i].text = want[t]
    BY <1>3 DEF MyAnswer
  <2>1. \A i \in DOMAIN inbox' : inbox'[i].kind = "pull" /\ inbox'[i].id = nextId =>
          inbox'[i].uri = uri[t] /\ i = Len(inbox')
    BY <1>2 DEF AnswerInv, MyAnswer
  <2>2. \A i \in DOMAIN outbox' : outbox'[i].kind = "items" /\ outbox'[i].id = nextId =>
          outbox'[i].text = want[t]
    BY <1>5, <1>8 DEF AnswerInv, MyAnswer
  <2> QED BY <2>1, <2>2
<1> QED BY <1>3, <1>7, <1>9 DEF AnswerInv, AnswerIsForMyText

\* A step that adds nothing to the pipes keeps the ids in them used.
LEMMA IdsDrain ==
  ASSUME TypeOK, IdsUsed, nextId' \in Nat, nextId <= nextId',
         inbox' \in {inbox, <<>>},
         outbox' \in {outbox, <<>>} \/ (outbox # <<>> /\ outbox' = Tail(outbox))
  PROVE  IdsUsed'
<1>1. \A i \in DOMAIN inbox' : \E j \in DOMAIN inbox : inbox'[i] = inbox[j]
  OBVIOUS
<1>2. \A i \in DOMAIN outbox' : \E j \in DOMAIN outbox : outbox'[i] = outbox[j]
  <2>1. CASE outbox # <<>> /\ outbox' = Tail(outbox)
    BY <2>1, TailFacts DEF TypeOK
  <2> QED BY <2>1
<1> QED BY <1>1, <1>2, IdsKept

\* Every step keeps the answers on their way to the thread that waits for them.
LEMMA AnswerStep ==
  TypeOK /\ ChildInv /\ EditInv /\ AnswerInv /\ [Next]_vars => AnswerInv'
<1> SUFFICES ASSUME TypeOK, ChildInv, EditInv, AnswerInv, [Next]_vars PROVE AnswerInv'
  OBVIOUS
<1>0. /\ pc \in [Thread -> Pc] /\ got \in [Thread -> Text \cup {None}]
      /\ want \in [Thread -> Text] /\ nextId \in Nat /\ outbox \in Seq(OutMsg)
  BY DEF TypeOK
<1> USE DEF clientVars, childVars, callVars
<1>1. ASSUME NEW t \in Thread, Lock(t) \/ CallShutdown(t) \/ \E u \in Uri : Call(t, u)
      PROVE  AnswerInv'
  <2>1. pc'[t] # "await" /\ UNCHANGED <<inbox, outbox, nextId>>
    BY <1>0, <1>1 DEF Lock, CallShutdown, Call, Goto
  <2>2. got'[t] = None \/ (got'[t] = got[t] /\ want'[t] = want[t])
    BY <1>0, <1>1 DEF Lock, CallShutdown, Call
  <2>3. \A s \in Thread : s # t =>
          pc'[s] = pc[s] /\ uri'[s] = uri[s] /\ want'[s] = want[s] /\ got'[s] = got[s]
    BY <1>1, OthersStay DEF Moves, ThreadNext
  <2>4. IdsUsed'
    BY <2>1 DEF AnswerInv, IdsUsed
  <2>5. MyAnswer'
    BY <2>1, <2>3 DEF AnswerInv, MyAnswer
  <2>6. AnswerIsForMyText'
    BY <2>2, <2>3 DEF AnswerInv, AnswerIsForMyText
  <2> QED BY <2>4, <2>5, <2>6 DEF AnswerInv
<1>2. ASSUME NEW t \in Thread,
             \/ AlreadyStarted(t) \/ Spawn(t) \/ SpawnFails(t) \/ Handshake(t)
             \/ AwaitError(t) \/ Trouble(t) \/ SlowChild(t)
             \/ StopBegins(t) \/ NothingToStop(t) \/ Joined(t) \/ Escalate(t) \/ Cleanup(t)
      PROVE  AnswerInv'
  <2>1. /\ Inside(t) /\ pc'[t] # "await" /\ UNCHANGED <<got, want>>
        /\ nextId' \in Nat /\ nextId <= nextId'
    BY <1>0, <1>2 DEF AlreadyStarted, Spawn, SpawnFails, Handshake, AwaitError, Trouble,
       SlowChild, RoundTripFails, InRoundTrip, StopBegins, NothingToStop, Joined, Escalate,
       Cleanup, Failure, Goto, Return, Inside
  <2>2. /\ inbox' \in {inbox, <<>>}
        /\ outbox' \in {outbox, <<>>} \/ (outbox # <<>> /\ outbox' = Tail(outbox))
    BY <1>2 DEF AlreadyStarted, Spawn, SpawnFails, Handshake, AwaitError, Trouble,
       SlowChild, RoundTripFails, StopBegins, NothingToStop, Joined, Escalate, Cleanup
  <2>3. IdsUsed'
    BY <2>1, <2>2, IdsDrain DEF AnswerInv
  <2>4. MyAnswer'
    BY <1>2, <2>1, NobodyAwaits DEF Moves, ThreadNext, ChildInv
  <2> QED BY <2>1, <2>3, <2>4 DEF AnswerInv, AnswerIsForMyText
<1>3. ASSUME NEW t \in Thread, Sync(t) PROVE AnswerInv'
  <2>1. Inside(t) /\ pc'[t] # "await" /\ UNCHANGED <<got, want, nextId, outbox>>
    BY <1>0, <1>3 DEF Sync, Goto, Inside
  <2>2. PICK m \in InMsg : inbox' = Append(inbox, m) /\ m.id = 0
    BY <1>3 DEF Sync, TypeOK, InMsg
  <2>3. \A i \in DOMAIN inbox' : inbox'[i].id <= nextId'
                                 \/ \E j \in DOMAIN inbox : inbox'[i] = inbox[j]
    BY <1>0, <2>1, <2>2, AppendFacts DEF TypeOK
  <2>4. IdsUsed'
    BY <1>0, <2>1, <2>3, IdsKept DEF AnswerInv
  <2>5. MyAnswer'
    BY <1>3, <2>1, NobodyAwaits DEF Moves, ThreadNext, ChildInv
  <2> QED BY <2>1, <2>4, <2>5 DEF AnswerInv, AnswerIsForMyText
<1>4. ASSUME NEW t \in Thread, AwaitSkips(t) PROVE AnswerInv'
  <2>1. outbox # <<>> /\ outbox' = Tail(outbox)
        /\ UNCHANGED <<pc, uri, want, got, nextId, inbox>>
    BY <1>4 DEF AwaitSkips
  <2>2. IdsUsed'
    BY <1>0, <2>1, IdsDrain DEF AnswerInv
  <2>3. \A i \in DOMAIN outbox' : \E j \in DOMAIN outbox : outbox'[i] = outbox[j]
    BY <1>0, <2>1, TailFacts
  <2>4. MyAnswer'
    BY <2>1, <2>3 DEF AnswerInv, MyAnswer
  <2> QED BY <2>1, <2>2, <2>4 DEF AnswerInv, AnswerIsForMyText
<1>5. ASSUME NEW t \in Thread, AwaitItems(t) PROVE AnswerInv'
  <2>1. /\ Inside(t) /\ pc'[t] # "await" /\ UNCHANGED <<want, nextId, inbox>>
        /\ outbox # <<>> /\ outbox' = Tail(outbox)
    BY <1>0, <1>5 DEF AwaitItems, Return, Goto, Inside
  <2>2. IdsUsed'
    BY <1>0, <2>1, IdsDrain DEF AnswerInv
  <2>3. MyAnswer'
    BY <1>5, <2>1, NobodyAwaits DEF Moves, ThreadNext, ChildInv
  <2>4. 1 \in DOMAIN outbox /\ outbox[1] = Head(outbox)
    BY <1>0, <2>1, TailFacts
  <2>5. got'[t] = want[t]
    BY <1>0, <1>5, <2>4 DEF AwaitItems, AnswerInv, MyAnswer
  <2>6. \A s \in Thread : s # t => got'[s] = got[s]
    BY <1>5, OthersStay DEF Moves, ThreadNext
  <2>7. AnswerIsForMyText'
    BY <2>1, <2>5, <2>6 DEF AnswerInv, AnswerIsForMyText
  <2> QED BY <2>2, <2>3, <2>7 DEF AnswerInv
<1>6. CASE ChildHangs \/ ChildCrashes \/ ChildExits \/ UNCHANGED vars
  <2>1. UNCHANGED <<pc, uri, want, got, nextId, inbox, outbox>>
    BY <1>6 DEF ChildHangs, ChildCrashes, ChildExits, vars
  <2> QED BY <2>1 DEF AnswerInv, IdsUsed, MyAnswer, AnswerIsForMyText
<1> QED
  BY <1>1, <1>2, <1>3, <1>4, <1>5, <1>6, AnswerPull, AnswerRead, StepCases
     DEF Moves, ThreadNext, ChildNext

\* The items a call returns are about the very text it passed, for any number of
\* threads, documents, calls and faults: neither another thread's edit, nor a late
\* answer, nor a respawned child that was not told of the document slips in
\* (diagnostics, sync_document, await_response, cleanup_handles).
THEOREM AnswersAreForMyText == Spec => []AnswerIsForMyText
<1>1. Init => IInv
  <2>1. Init => ChildInv
    BY ClientAssumption DEF Init, ChildInv, Exclusive, Inside, HandleHeld, OneChild
  <2>2. Init => EditInv
    BY DEF Init, EditInv, ChangesKnown, OpenKnown, NoChildNoDocuments, LastEditIsMine
  <2>3. Init => AnswerInv
    BY DEF Init, AnswerInv, IdsUsed, MyAnswer, AnswerIsForMyText
  <2> QED BY <2>1, <2>2, <2>3, TypeInit DEF IInv
<1>2. IInv /\ [Next]_vars => IInv'
  BY TypeStep, ChildStep, EditStep, AnswerStep DEF IInv
<1>3. IInv => AnswerIsForMyText
  BY DEF IInv, AnswerInv
<1> QED BY <1>1, <1>2, <1>3, PTL DEF Spec
=============================================================================
