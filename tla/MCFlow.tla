------------------------------- MODULE MCFlow -------------------------------
(* An instance of the checker: bodies of three statements, the first giving *)
(* the local x a value, the second a construct that branches, repeats, fails*)
(* or rebinds, the third a use.  The ids of the three places do not overlap.*)
EXTENDS FlowCorrect

Kinds == {"Int", "Str", "Nil", "Bool", "Array"}
MCSuper == [A |-> "none", B |-> "A", C |-> "none", D |-> "none", O |-> "none", Struct |-> "none"]
MCCoreConst == [Integer |-> "Int", String |-> "Str", NilClass |-> "Nil"]
MCInventory == [Int |-> {"+", "-", "abs", "to_s"}, Str |-> {"+", "upcase", "to_s"}, Nil |-> {"to_a", "to_s"},
                Bool |-> {"to_s"}, Array |-> {"each", "to_a", "to_s"}]
MCOwn == [Int |-> {"Integer"}, Str |-> {"String"}, Nil |-> {"NilClass"}, Bool |-> {"TrueClass", "FalseClass"},
          Array |-> {"Array"}]
MCFamily ==
    [k \in Kinds |-> MCOwn[k] \cup {"Object", "Kernel"}
        \cup CASE k = "Int" -> {"Numeric", "Comparable"} [] k = "Str" -> {"Comparable"}
               [] k = "Array" -> {"Enumerable"} [] OTHER -> {}]
MCRbiCore == {<<"NilClass", "cm">>}
Core(min, max, ret) == [min |-> min, max |-> max, ret |-> ret]
MCCoreMethods ==
    [Int |-> [n \in {"+", "-", "abs"} |-> IF n = "abs" THEN Core(0, 0, "SelfSame") ELSE Core(1, 1, "Int")],
     Str |-> [n \in {"+", "upcase"} |-> IF n = "upcase" THEN Core(0, 0, "Str") ELSE Core(1, 1, "Str")],
     Nil |-> [n \in {"to_a"} |-> Core(0, 0, "Unknown")],
     Bool |-> <<>>,
     Array |-> [n \in {"each"} |-> Core(0, 0, "Unknown")],
     Error |-> <<>>,
     Object |-> [n \in {"nil?", "is_a?", "respond_to?", "dup", "raise", "extend"} |->
                    CASE n = "nil?" -> Core(0, 0, "Bool") [] n \in {"is_a?", "respond_to?"} -> Core(1, 1, "Bool")
                      [] n = "dup" -> Core(0, 0, "SelfSame") [] OTHER -> Core(0, 3, "Unknown")]]

int == Lit(Atom("Int"))
str == Lit(Atom("Str"))
nil == Lit(NilValue)
array == Lit(Atom("Array"))
Bare(id, name) == Call(id, None, name, <<>>, None)
On(id, recv, name, args) == Call(id, <<recv>>, name, args, None)
Method(min, max, code) ==
    [min |-> min, max |-> max, stub |-> FALSE, known |-> TRUE, body |-> code, ret |-> {}, fill |-> Unknown, params |-> <<>>, results |-> {}]
Opaque(results) == [Method(0, 3, <<>>) EXCEPT !.known = FALSE, !.results = results]
MCMethods ==
    <<"A", "any">> :> Opaque({Atom("Int"), Atom("Str")}) @@
    <<"A", "maybe">> :> Opaque({True, NilValue})
 @@ <<"A", "dsl">> :> Opaque({NilValue}) @@ <<"A", "assert_raises">> :> Opaque({NilValue})
 @@ <<"A", "am">> :> Method(0, 0, <<int>>) @@ <<"B", "am">> :> Method(0, 0, <<str>>)
 @@ <<"A", "one">> :> Method(0, 0, <<If(0, Bare(0, "maybe"), <<Return(<<str>>)>>, None), int>>)
 @@ <<"A", "rec">> :> Method(0, 0, <<If(0, Bare(0, "maybe"), <<Bare(0, "rec")>>, <<<<nil>>>>)>>)
 @@ <<"A", "filled">> :> [Method(0, 0, <<Call(0, <<Read(0, "p")>>, "dup", <<>>, None)>>) EXCEPT !.fill = Only("Nil")]
 @@ <<"A", "stub">> :> [Method(0, 0, <<>>) EXCEPT !.stub = TRUE] @@ <<"B", "stub">> :> Method(1, 1, <<>>)
 @@ <<"A", "take">> :> [Method(1, 1, <<>>) EXCEPT !.params = <<{Instance("A"), Atom("Nil")}>>, !.ret = Only("Str"), !.results = {Atom("Str")}]
 @@ <<"B", "bm">> :> Method(0, 0, <<>>)
 @@ <<"C", "cm">> :> Method(0, 0, <<>>) @@ <<"C", "initialize">> :> Method(1, 1, <<>>)
\* D.new is the project's own
 @@ <<"D", "initialize">> :> Method(1, 1, <<>>)
MCSingletonMethods == <<"D", "new">> :> Method(0, 0, <<>>) @@ <<"D", "build">> :> Method(1, 1, <<str>>)

MCValues == {NilValue, False, Atom("Int"), Atom("Str"), Instance("A"), Instance("B"), Instance("O")}
MCParams == [p |-> Unknown, q |-> {Instance("A"), Atom("Str"), Atom("Nil"), Atom("Bool")}]
(* Untouched core classes; methods written in reopened ones, of the class  *)
(* and of an ancestor; a string evaluated in Integer and a method given to *)
(* a class with no name; a string evaluated nobody knows where.            *)
Untouched == [untold |-> FALSE, reopened |-> {}, unknown |-> FALSE, any |-> {}, opaque |-> {}, methods |-> {}]
Written == {<<"Array", "each">>, <<"Comparable", "coerce">>}
MCPatches ==
    {[seen |-> Untouched, done |-> {}],
     [seen |-> [Untouched EXCEPT !.reopened = {"Array", "Comparable"}, !.methods = Written], done |-> Written],
     [seen |-> [Untouched EXCEPT !.reopened = {"Integer"}, !.opaque = {"Integer"}, !.any = {"coerce"}],
      done |-> {<<"Integer", "upcase">>, <<"Integer", "+">>, <<"NilClass", "coerce">>}],
     [seen |-> [Untouched EXCEPT !.untold = TRUE, !.unknown = TRUE],
      done |-> {<<"Kernel", "to_str">>, <<"String", "abs">>, <<"Array", "each">>}]}

Set1(val) == Write("x", "=", val)
First ==
    {Set1(int), Set1(str), Set1(nil), Set1(Read(101, "p")), Set1(Read(101, "q")),
     Set1(On(101, ConstRead("A"), "new", <<>>)), Set1(On(101, ConstRead("B"), "new", <<>>)), Set1(On(101, ConstRead("C"), "new", <<>>)),
     Set1(On(101, ConstRead("D"), "new", <<>>)), Set1(On(101, ConstRead("Struct"), "new", <<int>>)),
     Set1(On(101, ConstRead("O"), "new", <<int>>)), Set1(Bare(101, "one")), Set1(Bare(101, "filled")), Set1(Bare(101, "rec")),
     If(101, Bare(102, "maybe"), <<Set1(int)>>, None)}

X(id) == Read(id, "x")
Maybe == Bare(290, "maybe")
Is(id, const) == On(id, X(id + 1), "is_a?", <<ConstRead(const)>>)
IsNil(id) == On(id, X(id + 1), "nil?", <<>>)
Blk(id, recv, name, params, code) == Call(id, recv, name, <<>>, <<Block(params, code)>>)
Second ==
    {If(201, IsNil(202), <<Return(<<>>)>>, None), Unless(201, X(202), <<Bare(203, "raise")>>, None),
     If(201, X(202), <<On(203, X(204), "upcase", <<>>)>>, <<<<On(205, X(206), "to_a", <<>>)>>>>),
     If(201, Or(209, IsNil(202), Maybe), <<Return(<<X(207)>>)>>, None),
     If(201, Is(202, "A"), <<Set1(On(204, X(205), "am", <<>>))>>, <<<<On(206, X(207), "upcase", <<>>)>>>>),
     Unless(201, Is(202, "String"), <<Bare(204, "raise")>>, <<<<On(206, X(207), "abs", <<>>)>>>>),
     Case(201, X(202), <<When({"A", "String"}, <<X(203)>>), When({"C", "unknown"}, <<On(206, X(207), "am", <<>>), Set1(int)>>)>>, <<<<On(204, X(205), "abs", <<>>)>>>>),
     CaseMatch(X(201), {"x"}), MultiWrite({"x", "y"}, Maybe),
     While(201, On(202, X(203), "nil?", <<>>), <<If(204, Maybe, <<Jump("break")>>, None), Set1(int)>>),
     While(201, Maybe, <<On(204, X(205), "upcase", <<>>), Set1(str)>>),
     And(201, Maybe, Set1(str)), And(201, Is(202, "Class"), On(204, X(205), "upcase", <<>>)),
     Write("x", "||=", str), Write("x", "&&=", str), Write("x", "+=", int),
     Begin(201, <<Maybe, Set1(str)>>, <<Rescue({}, <<On(202, X(203), "abs", <<>>)>>)>>, None, None),
     Begin(201, <<Set1(int), Maybe, Write("y", "=", str)>>, <<Rescue({"y"}, <<>>), Rescue({}, <<Return(<<X(202)>>)>>)>>,
           <<<<X(203)>>>>, <<<<Read(204, "y")>>>>),
     Set1(RescueModifier(201, On(202, X(203), "upcase", <<>>), nil)),
     If(201, IsNil(202), <<Set1(int)>>, None), If(201, On(202, X(203), "upcase", <<>>), <<Set1(Bare(204, "any"))>>, None),
     If(201, Is(202, "A"), <<On(204, X(205), "stub", <<int>>), On(206, X(207), "bm", <<>>)>>, None),
     Blk(201, <<array>>, "each", {"x"}, <<On(202, X(203), "abs", <<>>), Jump("break")>>),
     Blk(201, <<array>>, "each", {"y"}, <<Set1(str), Bare(202, "cm")>>),
     Blk(201, None, "dsl", {}, <<Bare(202, "cm"), On(203, X(204), "abs", <<>>), Jump("next")>>),
     Blk(201, None, "assert_raises", {}, <<On(202, X(203), "abs", <<>>)>>),
     If(201, Call(202, None, "respond_to?", <<Lit([k |-> "Sym", c |-> "cm"])>>, None), <<Bare(203, "cm")>>, <<<<Bare(204, "cm")>>>>),
     On(201, X(202), "extend", <<ConstRead("M")>>),
     On(201, Read(202, "p"), "upcase", <<>>), On(201, X(202), "cm", <<>>)}

Third ==
    {On(301, X(302), "upcase", <<>>), On(301, X(302), "abs", <<>>), On(301, X(302), "am", <<int>>),
     On(301, X(302), "+", <<str>>), On(301, int, "+", <<X(302)>>),
     Call(301, None, "take", <<X(302)>>, None), On(301, Read(302, "p"), "cm", <<>>),
     On(301, On(303, X(302), "dup", <<>>), "cm", <<>>), On(301, X(302), "stub", <<>>),
     On(301, ConstRead("A"), "cm", <<>>), On(301, ConstRead("D"), "build", <<X(302)>>), Bare(301, "bm"),
     If(301, IsNil(302), <<On(304, X(305), "to_a", <<>>)>>, <<<<Return(<<X(306), nil>>)>>>>)}
MCTexts == <<First, Second, Third>>

(* A patch of a core class shows where a local has one of its values: on a *)
(* patched core only the bodies that begin so are written to the end.      *)
CoreFirst == {Set1(int), Set1(str), Set1(nil), Set1(Read(101, "q"))}
PatchedUsesCore == patched.done # {} /\ body # <<>> => body[1] \in CoreFirst
=============================================================================
