---------------------------- MODULE ServerClient ----------------------------
(***************************************************************************)
(* The ruby-lsp add-on's ServerClient                                      *)
(* (scripts/ruby-lsp-itaruby/lib/ruby_lsp/itaruby/server_client.rb): the   *)
(* threads of ruby-lsp that call `diagnostics` and `shutdown`, the mutex   *)
(* they share, and the one `ita server` child it spawns, syncs, pulls      *)
(* from, stops, and respawns once.                                         *)
(*                                                                         *)
(* The n-th call passes text n.  The child may crash, hang, answer with an *)
(* error, ignore the exit handshake or ignore TERM at any point.           *)
(***************************************************************************)
EXTENDS Integers, Sequences, FiniteSets

CONSTANTS
  Thread,     \* the ruby-lsp threads
  Uri,        \* the documents
  OnDisk,     \* those `ita server` finds when it walks the workspace
  MaxCalls,   \* bound: calls made in all
  MaxFaults,  \* bound: crashes, hangs, error answers and failed spawns
  None        \* nobody, nothing

ASSUME ClientAssumption ==
  /\ OnDisk \subseteq Uri
  /\ MaxCalls \in Nat /\ MaxFaults \in Nat
  /\ None \notin Thread \cup (0..MaxCalls)

Text == 0..MaxCalls
Pc == {"idle", "lock", "start", "handshake", "sync", "pull", "await",
       "stop", "graceful", "term", "kill", "cleanup"}
InMsg == [kind : {"didOpen", "didChange", "pull"}, uri : Uri, text : Text, id : Nat]
OutMsg == [kind : {"note", "items", "error"}, text : Text, id : Nat]

VARIABLES
  pc, uri, want,  \* per thread: where it is, the document and text of its call
  op,             \* per thread: "diagnostics" or "shutdown"
  attempt,        \* 1 in perform_diagnostics, 2 in recover_from_failure
  got,            \* per thread: the text its last call's items are about, or None
  calls, faults,
  (* the client's instance variables *)
  mutex, disabled, respawnAttempted, nextId,
  handle,         \* @wait_thread/@stdin: the child by number, 0 for nil
  openDocuments,
  (* the children *)
  spawned,        \* how many were started
  running,        \* those not yet dead
  hung,           \* the current one no longer reads
  docs,           \* what the current one knows of each document
  inbox, outbox   \* its stdin and stdout pipes

callVars == <<uri, want, op, calls>>
childVars == <<running, hung, docs, inbox, outbox>>
clientVars == <<disabled, respawnAttempted, nextId, handle, openDocuments>>
vars == <<pc, attempt, got, callVars, faults, mutex, clientVars, spawned, childVars>>

TypeOK ==
  /\ pc \in [Thread -> Pc] /\ uri \in [Thread -> Uri] /\ want \in [Thread -> Text]
  /\ op \in [Thread -> {"diagnostics", "shutdown"}] /\ attempt \in [Thread -> 1..2]
  /\ got \in [Thread -> Text \cup {None}]
  /\ calls \in 0..MaxCalls /\ faults \in 0..MaxFaults
  /\ mutex \in Thread \cup {None}
  /\ disabled \in BOOLEAN /\ respawnAttempted \in BOOLEAN
  /\ nextId \in Nat /\ handle \in 0..spawned /\ openDocuments \subseteq Uri
  /\ spawned \in Nat /\ running \subseteq 1..spawned /\ hung \in BOOLEAN
  /\ docs \in [Uri -> Text \cup {None}]
  /\ inbox \in Seq(InMsg) /\ outbox \in Seq(OutMsg)

Unread == [u \in Uri |-> IF u \in OnDisk THEN 0 ELSE None]

Init ==
  /\ pc = [t \in Thread |-> "idle"] /\ uri \in [Thread -> Uri]
  /\ want = [t \in Thread |-> 0] /\ op = [t \in Thread |-> "diagnostics"]
  /\ attempt = [t \in Thread |-> 1] /\ got = [t \in Thread |-> None]
  /\ calls = 0 /\ faults = 0
  /\ mutex = None /\ disabled = FALSE /\ respawnAttempted = FALSE /\ nextId = 0
  /\ handle = 0 /\ openDocuments = {}
  /\ spawned = 0 /\ running = {} /\ hung = FALSE /\ docs = Unread
  /\ inbox = <<>> /\ outbox = <<>>

Alive == handle \in running
Fault == faults < MaxFaults /\ faults' = faults + 1
Goto(t, label) == pc' = [pc EXCEPT ![t] = label]

----------------------------------------------------------------------------
(* diagnostics(uri, text)                                                  *)

\* @disabled is read before the mutex is taken, and not again after.
Call(t, u) ==
  /\ pc[t] = "idle" /\ calls < MaxCalls
  /\ calls' = calls + 1
  /\ uri' = [uri EXCEPT ![t] = u] /\ want' = [want EXCEPT ![t] = calls + 1]
  /\ op' = [op EXCEPT ![t] = "diagnostics"]
  /\ got' = [got EXCEPT ![t] = None]
  /\ IF disabled THEN UNCHANGED pc ELSE Goto(t, "lock")
  /\ UNCHANGED <<attempt, faults, mutex, clientVars, spawned, childVars>>

CallShutdown(t) ==
  /\ pc[t] = "idle" /\ calls < MaxCalls
  /\ calls' = calls + 1
  /\ op' = [op EXCEPT ![t] = "shutdown"] /\ got' = [got EXCEPT ![t] = None]
  /\ Goto(t, "lock")
  /\ UNCHANGED <<uri, want, attempt, faults, mutex, clientVars, spawned, childVars>>

Lock(t) ==
  /\ pc[t] = "lock" /\ mutex = None
  /\ mutex' = t
  /\ attempt' = [attempt EXCEPT ![t] = 1]
  /\ Goto(t, IF op[t] = "shutdown" THEN "stop" ELSE "start")
  /\ UNCHANGED <<got, callVars, faults, clientVars, spawned, childVars>>

\* ensure_started!
AlreadyStarted(t) ==
  /\ pc[t] = "start" /\ handle # 0
  /\ Goto(t, "sync")
  /\ UNCHANGED <<attempt, got, callVars, faults, mutex, clientVars, spawned, childVars>>

Spawn(t) ==
  /\ pc[t] = "start" /\ handle = 0
  /\ spawned' = spawned + 1 /\ handle' = spawned + 1
  /\ running' = running \cup {spawned + 1}
  /\ hung' = FALSE /\ docs' = Unread /\ inbox' = <<>> /\ outbox' = <<>>
  /\ nextId' = nextId + 1
  /\ Goto(t, "handshake")
  /\ UNCHANGED <<attempt, got, callVars, faults, mutex, disabled, respawnAttempted,
                 openDocuments>>

\* popen2 raises: no binary.
SpawnFails(t) ==
  /\ pc[t] = "start" /\ handle = 0 /\ Fault
  /\ Goto(t, "stop")
  /\ UNCHANGED <<attempt, got, callVars, mutex, clientVars, spawned, childVars>>

Handshake(t) ==
  /\ pc[t] = "handshake" /\ Alive /\ ~hung
  /\ Goto(t, "sync")
  /\ UNCHANGED <<attempt, got, callVars, faults, mutex, clientVars, spawned, childVars>>

\* sync_document: the document is noted as open before the write.
Sync(t) ==
  LET u == uri[t]
      kind == IF u \in openDocuments THEN "didChange" ELSE "didOpen"
  IN /\ pc[t] = "sync" /\ Alive
     /\ openDocuments' = openDocuments \cup {u}
     /\ inbox' = Append(inbox, [kind |-> kind, uri |-> u, text |-> want[t], id |-> 0])
     /\ Goto(t, "pull")
     /\ UNCHANGED <<attempt, got, callVars, faults, mutex, disabled, respawnAttempted,
                    nextId, handle, spawned, running, hung, docs, outbox>>

\* The id's request is written, the answer is awaited with that id.
Pull(t) ==
  /\ pc[t] = "pull" /\ Alive
  /\ nextId' = nextId + 1
  /\ inbox' = Append(inbox, [kind |-> "pull", uri |-> uri[t], text |-> 0, id |-> nextId + 1])
  /\ Goto(t, "await")
  /\ UNCHANGED <<attempt, got, callVars, faults, mutex, disabled, respawnAttempted,
                 handle, openDocuments, spawned, running, hung, docs, outbox>>

\* await_response drops what is not its own answer.
AwaitSkips(t) ==
  /\ pc[t] = "await" /\ outbox # <<>> /\ Head(outbox).id # nextId
  /\ outbox' = Tail(outbox)
  /\ UNCHANGED <<pc, attempt, got, callVars, faults, mutex, clientVars, spawned,
                 running, hung, docs, inbox>>

Return(t) == Goto(t, "idle") /\ mutex' = None

AwaitItems(t) ==
  /\ pc[t] = "await" /\ outbox # <<>>
  /\ Head(outbox).id = nextId /\ Head(outbox).kind = "items"
  /\ outbox' = Tail(outbox)
  /\ got' = [got EXCEPT ![t] = Head(outbox).text]
  /\ respawnAttempted' = FALSE
  /\ Return(t)
  /\ UNCHANGED <<attempt, callVars, faults, disabled, nextId, handle, openDocuments,
                 spawned, running, hung, docs, inbox>>

AwaitError(t) ==
  /\ pc[t] = "await" /\ outbox # <<>>
  /\ Head(outbox).id = nextId /\ Head(outbox).kind = "error"
  /\ outbox' = Tail(outbox)
  /\ Goto(t, "stop")
  /\ UNCHANGED <<attempt, got, callVars, faults, mutex, clientVars, spawned,
                 running, hung, docs, inbox>>

\* The rescue of a round trip: what the failing step had already assigned stays.
RoundTripFails(t) ==
  /\ openDocuments' = IF pc[t] = "sync" THEN openDocuments \cup {uri[t]} ELSE openDocuments
  /\ nextId' = IF pc[t] = "pull" THEN nextId + 1 ELSE nextId
  /\ Goto(t, "stop")
  /\ UNCHANGED <<attempt, got, callVars, mutex, disabled, respawnAttempted,
                 handle, spawned, childVars>>

InRoundTrip(t) == pc[t] \in {"handshake", "sync", "pull", "await"}

\* EPIPE or EOF of a dead child, the write or read deadline of a silent one.
Trouble(t) ==
  /\ InRoundTrip(t) /\ (~Alive \/ hung)
  /\ RoundTripFails(t)
  /\ UNCHANGED faults

\* A slow child is given up on although its answer is on the way.
SlowChild(t) ==
  /\ InRoundTrip(t) /\ Alive /\ ~hung /\ Fault
  /\ RoundTripFails(t)

----------------------------------------------------------------------------
(* stop_process, then what recover_from_failure does next                  *)

\* request_graceful_exit: shutdown, whose id is fresh, and exit.
StopBegins(t) ==
  /\ pc[t] = "stop" /\ handle # 0
  /\ nextId' = nextId + 1
  /\ Goto(t, "graceful")
  /\ UNCHANGED <<attempt, got, callVars, faults, mutex, disabled, respawnAttempted,
                 handle, openDocuments, spawned, childVars>>

\* No @wait_thread: nothing to stop, nor to clean up.
NothingToStop(t) ==
  /\ pc[t] = "stop" /\ handle = 0
  /\ Goto(t, "cleanup")
  /\ UNCHANGED <<attempt, got, callVars, faults, mutex, clientVars, spawned, childVars>>

\* wait_or_escalate: each join returns early when the child is gone.
MutJoined(t) ==
  /\ pc[t] \in {"graceful", "term", "kill"}
  /\ Goto(t, "cleanup")
  /\ UNCHANGED <<attempt, got, callVars, faults, mutex, clientVars, spawned, childVars>>
Joined(t) ==
  /\ pc[t] \in {"graceful", "term", "kill"} /\ ~Alive
  /\ Goto(t, "cleanup")
  /\ UNCHANGED <<attempt, got, callVars, faults, mutex, clientVars, spawned, childVars>>

\* The join timed out: TERM after the handshake, KILL after TERM.
MutEscalate(t) ==
  /\ pc[t] = "graceful" /\ Alive
  /\ Goto(t, "term")
  /\ UNCHANGED <<attempt, got, callVars, faults, mutex, clientVars, spawned, childVars>>
Escalate(t) ==
  /\ pc[t] \in {"graceful", "term"} /\ Alive
  /\ Goto(t, IF pc[t] = "graceful" THEN "term" ELSE "kill")
  /\ UNCHANGED <<attempt, got, callVars, faults, mutex, clientVars, spawned, childVars>>

MutCleared == openDocuments
Cleared == {}

MutFailureCounts(t) ==
  /\ respawnAttempted' = TRUE
  /\ attempt' = [attempt EXCEPT ![t] = @ + 1]
  /\ Goto(t, "start")
  /\ UNCHANGED <<disabled, mutex>>
MutFailureKeeps(t) ==
  IF attempt[t] = 2
  THEN /\ Return(t)
       /\ UNCHANGED <<attempt, disabled, respawnAttempted>>
  ELSE /\ respawnAttempted' = TRUE
       /\ attempt' = [attempt EXCEPT ![t] = 2]
       /\ Goto(t, "start")
       /\ UNCHANGED <<disabled, mutex>>
\* The first failure respawns unless one was attempted already; the failure of
\* the respawn disables the client.
Failure(t) ==
  IF attempt[t] = 2 \/ respawnAttempted
  THEN /\ disabled' = TRUE
       /\ Return(t)
       /\ UNCHANGED <<attempt, respawnAttempted>>
  ELSE /\ respawnAttempted' = TRUE
       /\ attempt' = [attempt EXCEPT ![t] = 2]
       /\ Goto(t, "start")
       /\ UNCHANGED <<disabled, mutex>>

\* cleanup_handles closes both pipes and forgets the child and its documents.
Cleanup(t) ==
  /\ pc[t] = "cleanup"
  /\ handle' = 0
  /\ openDocuments' = IF handle = 0 THEN openDocuments ELSE Cleared
  /\ inbox' = <<>> /\ outbox' = <<>>
  /\ IF op[t] = "shutdown"
     THEN Return(t) /\ UNCHANGED <<attempt, disabled, respawnAttempted>>
     ELSE Failure(t)
  /\ UNCHANGED <<got, callVars, faults, nextId, spawned, running, hung, docs>>

----------------------------------------------------------------------------
(* `ita server` as the client meets it (LspServer): it reads its messages  *)
(* in order, and answers a pull with the text it has, none for a document  *)
(* it was never told of.                                                   *)

ChildReads ==
  LET m == Head(inbox)
      known == docs[m.uri] # None
  IN /\ Alive /\ ~hung /\ inbox # <<>>
     /\ inbox' = Tail(inbox)
     /\ docs' = IF m.kind = "didOpen" \/ (m.kind = "didChange" /\ known)
                THEN [docs EXCEPT ![m.uri] = m.text] ELSE docs
     /\ outbox' = IF m.kind # "pull" THEN Append(outbox, [kind |-> "note", text |-> 0, id |-> 0])
                  ELSE Append(outbox, [kind |-> "items", id |-> m.id,
                                       text |-> IF known THEN docs[m.uri] ELSE 0])
     /\ UNCHANGED <<pc, attempt, got, callVars, faults, mutex, clientVars, spawned,
                    running, hung>>

ChildErrs ==
  /\ Alive /\ ~hung /\ inbox # <<>> /\ Head(inbox).kind = "pull" /\ Fault
  /\ inbox' = Tail(inbox)
  /\ outbox' = Append(outbox, [kind |-> "error", id |-> Head(inbox).id, text |-> 0])
  /\ UNCHANGED <<pc, attempt, got, callVars, mutex, clientVars, spawned, running, hung, docs>>

ChildHangs ==
  /\ Alive /\ ~hung /\ Fault
  /\ hung' = TRUE
  /\ UNCHANGED <<pc, attempt, got, callVars, mutex, clientVars, spawned,
                 running, docs, inbox, outbox>>

ChildCrashes ==
  /\ Alive /\ Fault
  /\ running' = running \ {handle}
  /\ UNCHANGED <<pc, attempt, got, callVars, mutex, clientVars, spawned,
                 hung, docs, inbox, outbox>>

\* It obeys the exit handshake or TERM, or dies of KILL.
ChildExits ==
  /\ Alive /\ \E t \in Thread : pc[t] \in {"graceful", "term", "kill"}
  /\ running' = running \ {handle}
  /\ UNCHANGED <<pc, attempt, got, callVars, faults, mutex, clientVars, spawned,
                 hung, docs, inbox, outbox>>

KillWorks == ChildExits /\ \E t \in Thread : pc[t] = "kill"

ThreadNext(t) ==
  \/ Lock(t) \/ AlreadyStarted(t) \/ Spawn(t) \/ Handshake(t) \/ Sync(t) \/ Pull(t)
  \/ AwaitSkips(t) \/ AwaitItems(t) \/ AwaitError(t)
  \/ StopBegins(t) \/ NothingToStop(t) \/ Joined(t) \/ Escalate(t) \/ Cleanup(t)
  \/ Trouble(t)

ChildNext == ChildReads \/ ChildErrs \/ ChildHangs \/ ChildCrashes \/ ChildExits

Next ==
  \/ \E t \in Thread : \/ ThreadNext(t) \/ SpawnFails(t) \/ SlowChild(t) \/ CallShutdown(t)
                       \/ \E u \in Uri : Call(t, u)
  \/ ChildNext

\* Threads are scheduled and their deadlines pass; a live child reads its pipe;
\* KILL cannot be ignored, the handshake and TERM can.
Spec ==
  /\ Init /\ [][Next]_vars
  /\ \A t \in Thread : WF_vars(ThreadNext(t))
  /\ WF_vars(ChildReads) /\ WF_vars(KillWorks)

----------------------------------------------------------------------------
(* Properties.                                                             *)

\* The items a call returns are about the very text it passed: neither another
\* thread's edit, nor a late answer of a child given up on, nor a respawned
\* child that was not told of the document can slip in (mutex, ids, cleanup).
AnswerIsForMyText == \A t \in Thread : got[t] # None => got[t] = want[t]

\* At most one child is alive, and it is the one the client holds: a respawn
\* never leaves an `ita server` behind (stop_process joins before cleanup).
OneChild == running \subseteq {handle}

\* With the mutex free, @respawn_attempted is only left set by a client that is
\* disabled: a success clears it, a second failure disables.
RespawnFlagSettled == mutex = None /\ respawnAttempted => disabled

\* A call that had to give up -- both attempts failed -- leaves the client
\* disabled: an unusable binary is never tried again by later calls.
GivesUpForGood ==
  \A t \in Thread :
    pc[t] = "idle" /\ op[t] = "diagnostics" /\ want[t] # 0 /\ got[t] = None => disabled

\* Every call returns whether the child answers, crashes, falls silent or ignores
\* signals: reads and writes have deadlines and stop_process ends in KILL. The
\* deadline is renewed with each read, and the modelled child sends one message
\* for each it reads: one that streams unrelated messages for ever, which would
\* keep await_response reading, is outside what this shows.
CallsReturn == \A t \in Thread : (pc[t] # "idle") ~> (pc[t] = "idle")

\* server_client.rb:12 -- "a second consecutive failure disables the client for the
\* rest of the ruby-lsp session": a disabled client starts no child.
DisabledForGood == [][disabled => spawned' = spawned]_vars
=============================================================================
