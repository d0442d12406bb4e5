--------------------------- MODULE MCReachability ---------------------------
(***************************************************************************)
(* Small programs for Reachability, each made so that two workers meet at  *)
(* some conditions.                                                        *)
(***************************************************************************)
EXTENDS Reachability, TLC

MCWorker == {0, 1}

Cls(super, dmethods, vmethods) ==
  [super |-> super, interfaces |-> <<>>, interface |-> FALSE, abstract |-> FALSE,
   root |-> FALSE, string |-> FALSE, refs |-> <<>>, dynamic |-> <<>>, fields |-> <<>>,
   dmethods |-> dmethods, vmethods |-> vmethods]
RootCls(dmethods) == [Cls(None, dmethods, <<>>) EXCEPT !.root = TRUE]
Interface(vmethods) ==
  [Cls(None, <<>>, vmethods) EXCEPT !.interface = TRUE, !.abstract = TRUE]

Block(insns, succs, throws) == [insns |-> insns, succs |-> succs, throws |-> throws]
Mth(name, cls, kind, insns) ==
  name :> [cls |-> cls, kind |-> kind, abstract |-> FALSE, external |-> FALSE,
           root |-> FALSE, resolved |-> name, children |-> <<>>, others |-> {}, refs |-> <<>>,
           dynamic |-> <<>>, code |-> <<Block(insns, <<>>, <<>>)>>]
Abs(name, cls, children) ==
  name :> [Mth(name, cls, "virtual", <<>>)[name] EXCEPT
             !.abstract = TRUE, !.code = <<>>, !.children = children]
Root(mth) == [x \in DOMAIN mth |-> [mth[x] EXCEPT !.root = TRUE]]
Over(mth, children) == [x \in DOMAIN mth |-> [mth[x] EXCEPT !.children = children]]
Blocks(mth, code) == [x \in DOMAIN mth |-> [mth[x] EXCEPT !.code = code]]
Refs(mth, refs) == [x \in DOMAIN mth |-> [mth[x] EXCEPT !.refs = refs]]
Inherits(mth, classes) == [x \in DOMAIN mth |-> [mth[x] EXCEPT !.others = classes]]
Static(fld) == [x \in DOMAIN fld |-> [fld[x] EXCEPT !.static = TRUE]]
NoFields == [x \in {} |-> <<>>]
Fld(name, cls, refs) ==
  name :> [cls |-> cls, static |-> FALSE, root |-> FALSE, refs |-> refs, dynamic |-> <<>>]

Prog(cls, mth, fld) ==
  [cls |-> cls, mth |-> mth, fld |-> fld, relaxed |-> FALSE, relaxed_interfaces |-> FALSE,
   check_instantiable |-> TRUE, check_callable |-> TRUE, check_returning |-> TRUE]

new(c) == [op |-> "new", cls |-> c]
static(m) == [op |-> "static", mth |-> m]
direct(m) == [op |-> "direct", mth |-> m]
virtual(m, c) == [op |-> "virtual", mth |-> m, cls |-> c]
super(m) == [op |-> "super", mth |-> m]
ifield(f) == [op |-> "ifield", fld |-> f]
sfield(f) == [op |-> "sfield", fld |-> f]
cast(c) == [op |-> "cast", cls |-> c]
const_class(c) == [op |-> "const_class", cls |-> c]
return == [op |-> "return"]

\* A virtual call that waits for an object, whose method waits for the call.
Virtual == Prog(
  "Main" :> RootCls(<<"go", "make">>)
    @@ "A" :> [Cls(None, <<>>, <<"A.f">>) EXCEPT !.fields = <<"A.x">>]
    @@ "B" :> Cls("A", <<"B.init">>, <<"B.f">>),
  Root(Mth("go", "Main", "static", <<virtual("A.f", "A"), return>>))
    @@ Root(Mth("make", "Main", "static", <<new("B"), direct("B.init"), return>>))
    @@ Over(Mth("A.f", "A", "virtual", <<return>>), <<"B.f">>)
    @@ Mth("B.f", "B", "virtual", <<ifield("A.x"), return>>)
    @@ Mth("B.init", "B", "init", <<return>>),
  Fld("A.x", "A", <<"B">>))

\* A class that is kept for its name: one method names it, another one reads
\* its static field and calls its constructor.
ByName == [Prog(
  "Main" :> RootCls(<<"go", "make">>)
    @@ "A" :> [Cls(None, <<"A.init">>, <<"A.f">>) EXCEPT !.fields = <<"A.s">>],
  Root(Mth("go", "Main", "static", <<const_class("A"), return>>))
    @@ Root(Mth("make", "Main", "static", <<sfield("A.s"), static("make2"), return>>))
    @@ Mth("make2", "Main", "static", <<return>>)
    @@ Root(Mth("A.init", "A", "init", <<return>>))
    @@ Root(Mth("A.f", "A", "virtual", <<return>>)),
  Static(Fld("A.s", "A", <<"A.init">>))) EXCEPT !.relaxed = TRUE]

\* A call that may come to two methods and waits for the first one to return.
Returning == [Prog(
  "Main" :> RootCls(<<"go">>)
    @@ "I" :> Interface(<<"I.f">>)
    @@ "A" :> [Cls(None, <<>>, <<"A.f">>) EXCEPT !.interfaces = <<"I">>]
    @@ "B" :> [Cls(None, <<>>, <<"B.f">>) EXCEPT !.interfaces = <<"I">>],
  Root(Mth("go", "Main", "static", <<new("A"), new("B"), virtual("I.f", "I"), return>>))
    @@ Abs("I.f", "I", <<"A.f", "B.f">>)
    @@ Mth("A.f", "A", "virtual", <<return>>)
    @@ Mth("B.f", "B", "virtual", <<return>>),
  NoFields) EXCEPT !.check_callable = FALSE]

\* A method that does not return but may throw, and calls that come to nothing.
Endless == Prog(
  "Main" :> RootCls(<<"go", "loop">>)
    @@ "I" :> [Interface(<<"I.f">>) EXCEPT !.root = TRUE]
    @@ "X" :> Cls(None, <<>>, <<>>)
    @@ "Y" :> Cls(None, <<>>, <<>>),
  Root(Mth("go", "Main", "static", <<virtual("I.f", "I"), new("Y"), return>>))
    @@ Blocks(Root(Mth("loop", "Main", "static", <<>>)),
         <<Block(<<static("loop")>>, <<2>>, <<<<3, "X">>>>),
           Block(<<new("Y"), return>>, <<>>, <<>>), Block(<<static("go")>>, <<>>, <<>>)>>)
    @@ Abs("I.f", "I", <<>>),
  NoFields)

\* Implementations of an abstract method that is kept though nobody calls it,
\* while another method may name one of them.
Abstract == Prog(
  "Main" :> RootCls(<<"go", "name">>)
    @@ "I" :> Interface(<<"I.f">>)
    @@ "A" :> [Cls(None, <<>>, <<"A.f">>) EXCEPT !.interfaces = <<"I">>]
    @@ "B" :> Cls("A", <<>>, <<"B.f">>),
  Root(Mth("go", "Main", "static", <<new("A"), new("B"), return>>))
    @@ Root(Refs(Mth("name", "Main", "static", <<return>>), <<"I.f", "B.f">>))
    @@ Abs("I.f", "I", <<"A.f">>)
    @@ Over(Mth("A.f", "A", "virtual", <<return>>), <<"B.f">>)
    @@ Root(Mth("B.f", "B", "virtual", <<return>>)),
  NoFields)

\* A cast, a call of the superclass, a method of the framework that is
\* overridden, and a reference that is resolved in the superclass.
Framework == Prog(
  "Main" :> RootCls(<<"go">>)
    @@ "A" :> Cls(None, <<"A.g">>, <<"A.run">>)
    @@ "B" :> Cls("A", <<>>, <<"B.run">>),
  Root(Mth("go", "Main", "static", <<cast("A"), static("make"), return>>))
    @@ Mth("make", "Main", "static", <<new("B"), static("B.g"), return>>)
    @@ ("run" :> [Abs("run", "Runnable", <<"A.run">>)["run"] EXCEPT !.external = TRUE])
    @@ Over(Mth("A.run", "A", "virtual", <<return>>), <<"B.run">>)
    @@ Mth("B.run", "B", "virtual", <<super("A.run"), return>>)
    @@ Mth("A.g", "A", "static", <<return>>)
    @@ ("B.g" :> [Mth("B.g", "B", "static", <<>>)["B.g"] EXCEPT
                    !.resolved = "A.g", !.code = <<>>]),
  NoFields)

\* Classes that the annotations of a class, a field and a method name: what is
\* kept of them depends on it.
Annotations == [Prog(
  "Main" :> [RootCls(<<"go">>) EXCEPT !.refs = <<"A">>, !.dynamic = <<"A">>,
                                      !.fields = <<"Main.s">>]
    @@ "A" :> Cls(None, <<"A.init">>, <<>>)
    @@ "B" :> Cls(None, <<"B.g">>, <<>>)
    @@ "C" :> Cls(None, <<>>, <<"C.f">>),
  Root(Mth("go", "Main", "static", <<direct("A.init"), return>>))
    @@ Mth("A.init", "A", "init", <<new("C"), return>>)
    @@ Root([x \in {"B.g"} |-> [Mth("B.g", "B", "static", <<return>>)[x] EXCEPT
                                  !.refs = <<"C">>, !.dynamic = <<"C">>]])
    @@ Root(Mth("C.f", "C", "virtual", <<return>>)),
  [x \in {"Main.s"} |-> [Fld("Main.s", "Main", <<"B">>)[x] EXCEPT
                            !.static = TRUE, !.root = TRUE, !.dynamic = <<"B">>]])
  EXCEPT !.relaxed = TRUE]

\* A class that inherits its implementation of an interface from a class that
\* does not implement it, and another subclass of that class.
Inherited == Prog(
  "Main" :> RootCls(<<"go">>)
    @@ "I" :> Interface(<<"I.f">>)
    @@ "J" :> [Interface(<<>>) EXCEPT !.interfaces = <<"I">>]
    @@ "A" :> Cls(None, <<>>, <<"A.f">>)
    @@ "B" :> [Cls("A", <<>>, <<>>) EXCEPT !.interfaces = <<"J">>]
    @@ "C" :> Cls("A", <<>>, <<"C.f">>),
  Root(Mth("go", "Main", "static", <<new("B"), virtual("I.f", "J"), return>>))
    @@ Abs("I.f", "I", <<"A.f">>)
    @@ Inherits(Over(Mth("A.f", "A", "virtual", <<new("C"), return>>), <<"C.f">>), {"B"})
    @@ Mth("C.f", "C", "virtual", <<return>>),
  NoFields)

MCProgram ==
  <<Virtual, ByName, Returning, Endless, Abstract, Framework, Annotations, Inherited>>
=============================================================================
