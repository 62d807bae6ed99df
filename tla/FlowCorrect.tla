---------------------------- MODULE FlowCorrect ----------------------------
(***************************************************************************)
(* The checker's verdict on a method body against what the body does when  *)
(* Ruby runs it.  A body is written statement by statement and checked     *)
(* after each (`report`); once it is complete it is run, and `trace` is    *)
(* what one execution did at each node.                                    *)
(***************************************************************************)
EXTENDS RubyRun

CONSTANTS
    Texts,         \* the statements to choose from, at each place of the body
    Params,        \* the parameters and their declared types
    Patches,       \* what a project may have done to the core classes:
                   \* what the index collects of it (seen) and what it did (done)
    SelfClass,     \* the class the method is in
    ClosedWorld,   \* whether the whole program is known to the checker
    Check(_, _),   \* the checker under test: check_file
    Execute(_, _, _, _, _)   \* Ruby: Executions

VARIABLES patched, body, report, trace
vars == <<patched, body, report, trace>>

Ctx(patches) ==
    [self |-> {Instance(SelfClass)}, silent |-> FALSE, guards |-> {}, narrowed |-> {}, asserted |-> {},
     rebindable |-> FALSE, operands |-> <<>>, busy |-> {}, depth |-> 0, closed |-> ClosedWorld, core |-> patches.seen]
Walk == [env |-> <<>>, constraints |-> [v \in Vars |-> <<>>], returns |-> <<>>, memo |-> <<>>, diags |-> {}, facts |-> <<>>]

check_file(text, patches) ==
    LET r == check_method_body(Params, text, Walk, Ctx(patches))
    IN  [diags |-> r.s.diags, facts |-> r.s.facts, ret |-> r.ty]

(* Every execution of a body by `self`, watched at the nodes that have facts.*)
Executions(text, self, args, facts, patches) ==
    LET x == [self |-> self, facts |-> facts, watch |-> TRUE, fuel |-> CallFuel, patched |-> patches.done]
        st == [loc |-> args @@ [v \in Vars |-> NilValue], obs |-> {}, odd |-> FALSE]
    IN  ExecAll(text, st, x)

NotRun == [done |-> FALSE]
Init ==
    /\ patched \in Patches
    /\ body = <<>>
    /\ report = Check(<<>>, patched)
    /\ trace = NotRun

WriteStatement ==
    /\ Len(body) < Len(Texts)
    /\ \E n \in Texts[Len(body) + 1] : body' = Append(body, n)
    /\ report' = Check(body', patched)
    /\ UNCHANGED <<patched, trace>>

(* One execution of the complete body, on an object of the class or of one *)
(* below it, with arguments its declared parameters admit (one the body    *)
(* never reads is nil).                                                    *)
Run ==
    /\ Len(body) = Len(Texts)
    /\ trace = NotRun
    /\ \E self \in {v \in AnyValues : Covers({Instance(SelfClass)}, v)},
          args \in [DOMAIN Params -> AnyValues] :
           /\ \A v \in DOMAIN Params : IF \E n \in Nodes(body) : IsRead(n) /\ n.var = v
                                      THEN Covers(Params[v], args[v]) ELSE args[v] = NilValue
           /\ \E r \in Execute(body, self, args, report.facts, patched) :
                  trace' = [done |-> TRUE, how |-> r.k, value |-> r.v, odd |-> r.st.odd, obs |-> r.st.obs]
    /\ UNCHANGED <<patched, body, report>>

Next == WriteStatement \/ Run
Spec == Init /\ [][Next]_vars

Seen(tag) == IF trace.done THEN {o \in trace.obs : o.tag = tag} ELSE {}
Accused(code) == {d \in report.diags : d.code = code}

-----------------------------------------------------------------------------
(* The type the checker shows for an expression, and for the method's      *)
(* result, holds the value the expression has when it runs, through every  *)
(* branch, narrowing, loop, block and rescue it accounts for.              *)
TypesCover ==
    /\ \A o \in Seen("ty") : ~o.odd => Covers(report.facts[<<o.id, "ty">>], o.v)
    /\ trace.done => (trace.how \in {"ok", "return"} /\ ~trace.odd => Covers(report.ret, trace.value))

(* E0101 and E0102: whenever an accused call is reached, it fails.         *)
AccusedFails ==
    \A d \in Accused("E0101") \cup Accused("E0102"), o \in Seen("send") :
        o.id = d.key /\ ~o.odd => ~o.ok

(* E0108: an accused operation fails on every execution, also on those the *)
(* flow of types does not account for: the operands are proven twice.      *)
OperandFails ==
    \A d \in Accused("E0108"), o \in Seen("send") : o.id = d.key => ~o.ok

(* E0107: no execution gets through all the calls of a contradiction, what *)
(* a plain assignment between them rebinds included.  (Methods every object*)
(* has or a core class was given, inheritors, open classes, and locals that*)
(* a block, a pattern or a rescue binds again are taken out: see the       *)
(* README.)                                                                *)
CountedAsCandidate(v, name) ==
    IF v.k = "Instance" THEN Super[v.c] = "none" /\ v.c \notin Opened
    ELSE KindOf(v) \in DOMAIN Inventory => name \in Inventory[KindOf(v)]
BoundAgain(n) ==
    CASE n.op = "match" -> n.vars
      [] n.op = "call" -> UNION {n.block[i].params : i \in DOMAIN n.block}
      [] n.op = "begin" -> UNION {n.rescues[i].ref : i \in DOMAIN n.rescues}
      [] OTHER -> {}
ContradictionIsReal ==
    \A d \in Accused("E0107") :
        LET calls == {n \in Nodes(body) : n.op = "call" /\ n.id \in d.calls}
            passed(n) == \E o \in Seen("send") : o.id = n.id /\ o.ok /\ CountedAsCandidate(o.v, n.name)
        IN  /\ \A n \in calls : n.name \notin DOMAIN CoreMethods["Object"]
            /\ \A n \in Nodes(body) : d.var \notin BoundAgain(n)
            => \E n \in calls : ~passed(n)

(* E0103: an argument of known type that the checker lets pass is one the  *)
(* signature admits, where the ancestors of its classes are all known; and *)
(* a call it accuses has an argument whose type is known and holds a value *)
(* the signature does not admit.                                           *)
ArgumentsFit ==
    \A n \in Nodes(body) :
        LET recv == report.facts[<<n.id, "recv">>]
            class == (CHOOSE t \in recv : TRUE).c
            m == Methods[<<lookup_method(class, n.name).owner, n.name>>]
            ty(i) == report.facts[<<n.args[i].id, "ty">>]
            sound(i) == \A a \in ty(i) : a.c \in Classes => ToSet(Chain(a.c)) \cap Opened = {}
            misfits(i) == \E v \in AnyValues \cup {Instance(c) : c \in Classes} :
                              Covers(ty(i), v) /\ ~Covers(m.params[i], v)
        IN  /\ n.op = "call" /\ <<n.id, "recv">> \in DOMAIN report.facts
            /\ recv # Unknown /\ recv \in {{Instance(c)} : c \in Classes}
            /\ lookup_method(class, n.name).kind = "Found"
            /\ \A i \in DOMAIN n.args : IsRead(n.args[i])
            => LET declared == {i \in DOMAIN n.args \cap DOMAIN m.params : ty(i) # Unknown}
               IN  IF n.id \in {d.key : d \in Accused("E0103")} THEN \E i \in declared : misfits(i)
                   ELSE \A i \in declared, o \in Seen("ty") :
                            sound(i) /\ o.id = n.args[i].id /\ ~o.odd => Covers(m.params[i], o.v)
=============================================================================
