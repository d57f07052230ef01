------------------------------- MODULE LuaChunks -------------------------------
(* Syntax trees of small chunks, by what they are about.  The form of a tree is
   in LuaSemantics. *)
EXTENDS Integers, Sequences, FiniteSets


N(x) == <<"name", x>>
I(n) == <<"num", n>>
S(s) == <<"str", s>>
nil == <<"nil">>
true == <<"true">>
false == <<"false">>
Dots == <<"...">>
Invoke(f, args) == <<"call", f, args>>
E(args) == Invoke(N("emit"), args)
Emits(args) == <<"callstat", E(args)>>
Op(a, op, b) == <<"op", op, a, b>>
Un(op, a) == <<"unop", op, a>>
And(a, b) == <<"and", a, b>>
Or(a, b) == <<"or", a, b>>
Not(a) == Un("not", a)
Paren(a) == <<"paren", a>>
Idx(t, k) == <<"index", t, k>>
Dot(t, s) == Idx(t, S(s))
Tab(items) == <<"table", items>>
It(e) == <<"item", e>>
Its(es) == Tab([j \in DOMAIN es |-> It(es[j])])
Pair(k, v) == <<"pair", k, v>>
Fn(params, body) == <<"function", params, body>>
Loc(xs, es) == <<"local", xs, es>>
LocFn(x, params, body) == <<"localfunction", x, params, body>>
Asg(ts, es) == <<"assign", ts, es>>
If(c, then, else) == <<"if", <<<<c, then>>>>, else>>
While(c, b) == <<"while", c, b>>
Repeat(b, c) == <<"repeat", b, c>>
ForNum(x, a, b, s, body) == <<"fornum", x, a, b, s, body>>
ForIn(xs, es, body) == <<"forin", xs, es, body>>
Do(b) == <<"do", b>>
Break == <<"break">>
Ret(es) == <<"return", es>>

------------------------------------------------------------------------------
(* Conditions: every way to combine three values, in every place *)

Atoms == {N("x"), N("y"), E(<<I(2)>>), Op(N("x"), "<", I(2))}
Logic(A, B) == {And(a, b) : a \in A, b \in B} \cup {Or(a, b) : a \in A, b \in B}
Twos == Logic(Atoms, Atoms)
Conditions ==
  Atoms \cup {Not(c) : c \in Twos} \cup Logic(Twos, Atoms) \cup Logic(Atoms, Twos)

Places(c) ==
  {<<Ret(<<c>>)>>,
   <<Loc(<<"z">>, <<c>>), Emits(<<N("z"), Not(c)>>)>>,
   <<If(c, <<Emits(<<I(5)>>)>>, <<Emits(<<I(6)>>)>>)>>,
   <<While(c, <<Emits(<<I(5)>>), Break>>), Emits(<<I(6)>>)>>,
   <<Repeat(<<Loc(<<"z">>, <<N("x")>>), Asg(<<N("x")>>, <<nil>>),
              Asg(<<N("y")>>, <<I(1)>>)>>, Or(c, N("y")))>>,
   <<Emits(<<I(1), Op(c, "==", nil), c>>)>>}

ConditionChunks ==
  {<<Loc(<<"x", "y">>, <<I(1)>>)>> \o b : b \in UNION {Places(c) : c \in Conditions}}

------------------------------------------------------------------------------
(* Loops: a closure of each turn keeps a variable of the turn (z), the variable
   of the loop (i) or one from outside (o); the loop may end by a break before
   or after the closure is made. *)

Local(x, e) == Loc(<<x>>, <<e>>)
Set(x, e) == Asg(<<N(x)>>, <<e>>)
Call(f, args) == <<"callstat", Invoke(N(f), args)>>

Keeps(x) ==
  <<Asg(<<Idx(N("fs"), N("i"))>>,
        <<Fn(<<"v">>, <<If(N("v"), <<Set(x, N("v"))>>, <<>>), Ret(<<N(x)>>)>>)>>),
    Asg(<<Idx(N("gs"), N("i"))>>, <<Fn(<<>>, <<Ret(<<N(x)>>)>>)>>)>>

Stops == <<If(Op(N("i"), "==", I(2)), <<Break>>, <<>>)>>

Turn(x, stop) ==
  LET z == <<Local("z", Op(N("i"), "*", I(10)))>>
      k == <<Do(<<Local("w", N("i"))>> \o Keeps(x))>>
  IN CASE stop = "never" -> z \o Keeps(x)
       [] stop = "before" -> z \o Stops \o k
       [] stop = "after"  -> z \o Keeps(x) \o Stops

Counted(turn) == <<Set("n", Op(N("n"), "+", I(1))), Local("i", N("n"))>> \o turn

Iterator ==
  Fn(<<"s", "k">>, <<If(Op(N("k"), "<", N("s")), <<Ret(<<Op(N("k"), "+", I(1)), N("k")>>)>>, <<>>)>>)

LoopOf(kind, turn) ==
  CASE kind = "up"     -> ForNum("i", I(1), I(3), I(1), turn)
    [] kind = "down"   -> ForNum("i", I(3), I(1), Un("-", I(1)), turn)
    [] kind = "while"  -> While(Op(N("n"), "<", I(3)), Counted(turn))
    [] kind = "repeat" -> Repeat(Counted(turn), Op(N("i"), "==", I(3)))
    [] kind = "in"     -> ForIn(<<"i", "j">>, <<Iterator, I(3), I(0)>>, turn)

LoopChunk(kind, x, stop) ==
  <<Loc(<<"fs", "gs", "o", "n">>, <<Tab(<<>>), Tab(<<>>), I(4), I(0)>>),
    LoopOf(kind, Turn(x, stop)),
    Emits(<<I(7), I(7), I(7), I(7), I(7), I(7)>>),
    If(Idx(N("fs"), I(2)),
       <<Emits(<<Invoke(Idx(N("fs"), I(2)), <<>>), Invoke(Idx(N("fs"), I(2)), <<I(5)>>),
                 Invoke(Idx(N("gs"), I(2)), <<>>)>>)>>, <<>>),
    If(Idx(N("gs"), I(1)), <<Emits(<<N("o"), Invoke(Idx(N("gs"), I(1)), <<>>)>>)>>, <<>>),
    Emits(<<N("n"), And(Idx(N("gs"), I(3)), Invoke(Idx(N("gs"), I(3)), <<>>))>>)>>

LoopChunks ==
  {LoopChunk(kind, x, stop) : kind \in {"up", "down", "while", "repeat", "in"},
                              x \in {"i", "z", "o"}, stop \in {"never", "before", "after"}}

------------------------------------------------------------------------------
(* Assignments to several targets, one of which may be the table or the key of
   another *)

Distinct(s) == Cardinality({s[j] : j \in DOMAIN s}) = Len(s)

TargetSet ==
  {N("i"), N("t"), N("u"), N("g"), Idx(N("t"), N("i")), Idx(N("t"), Idx(N("t"), N("i")))}

Targets == {s \in [1..2 -> TargetSet] : Distinct(s)}
           \cup {<<Idx(N("t"), N("i")), N("u"), N("i")>>, <<N("t"), N("i"), Idx(N("t"), N("i"))>>,
                 <<Idx(N("t"), N("i")), N("i"), N("t")>>}

Values ==
  {<<I(8), I(9)>>, <<I(8)>>, <<E(<<I(8), I(9)>>)>>, <<I(8), E(<<I(9), I(7)>>)>>,
   <<N("i"), Idx(N("t"), N("i")), E(<<>>)>>}

AssignChunks ==
  {<<Local("u", I(0)),
     LocFn("f", <<>>,
       <<Loc(<<"i", "t">>, <<I(1), Its(<<I(2), I(3), I(1)>>)>>), Local("s", N("t")),
         Asg(ts, vs),
         Emits(<<N("i"), Op(N("s"), "==", N("t")), N("g"), N("u")>>),
         Emits([j \in 1..4 |-> Idx(N("s"), I(IF j = 4 THEN 8 ELSE j))])>>),
     Call("f", <<>>), Ret(<<N("u")>>)>> : ts \in Targets, vs \in Values}

------------------------------------------------------------------------------
(* Calls: what is called, with which list of arguments, and what for *)

Lists ==
  {<<>>, <<I(1)>>, <<I(1), E(<<I(2), I(3)>>)>>, <<E(<<I(2), I(3)>>), I(1)>>,
   <<Dots>>, <<I(1), Dots>>, <<Paren(Dots)>>, <<Paren(E(<<I(2), I(3)>>))>>}

Functions ==
  <<Local("k", I(6)),
    LocFn("two", <<"a", "b">>, <<Ret(<<N("b"), N("a")>>)>>),
    LocFn("some", <<"a", "...">>, <<Local("n", N("k")), Ret(<<N("a"), N("n"), Dots>>)>>),
    LocFn("none", <<>>, <<>>),
    LocFn("tail", <<"a", "...">>,
          <<LocFn("up", <<>>, <<Set("k", Op(N("k"), "+", I(1)))>>), Call("up", <<>>),
            Ret(<<Invoke(N("some"), <<Dots>>)>>)>>),
    LocFn("down", <<"n", "...">>,
          <<If(Op(N("n"), "==", I(0)), <<Ret(<<Dots>>)>>, <<>>),
            Ret(<<Invoke(N("down"), <<Op(N("n"), "-", I(1)), N("n"), Dots>>)>>)>>)>>

Uses(c) ==
  {<<Ret(<<c>>)>>,
   <<Emits(<<c, c>>)>>,
   <<Loc(<<"x", "y">>, <<c>>), Emits(<<N("y"), N("x"), N("k")>>)>>,
   <<Local("t", Its(<<I(5), c>>)), Emits([j \in 1..4 |-> Idx(N("t"), I(j))])>>,
   <<Local("x", c), Ret(<<Paren(c), N("x")>>)>>}

CallChunks ==
  {Functions \o <<LocFn("main", <<"p", "...">>, use), Ret(<<Invoke(N("main"), <<I(2), I(3), I(4)>>)>>)>> :
     use \in UNION {Uses(Invoke(N(f), args)) : f \in {"emit", "two", "some", "none", "tail"}, args \in Lists}
             \cup Uses(Invoke(N("down"), <<I(2), Dots>>)) \cup Uses(Dots)}

------------------------------------------------------------------------------
(* Constructors *)

TableChunk(item) ==
  <<Local("t", item), Local("h", <<"or", N("x"), item>>),
    Emits(<<Un("#", N("t")), Idx(N("t"), I(1)), Idx(N("t"), I(4)), Idx(N("t"), I(5)), Idx(N("t"), I(7))>>),
    Emits(<<Un("#", N("h")), Idx(N("h"), I(6)), Dot(N("t"), "q"), Idx(N("h"), I(9))>>)>>

Count(n) == [j \in 1..n |-> It(I(j))]
Tails ==
  {<<>>, <<It(E(<<I(8), I(9), I(8)>>))>>, <<It(E(<<>>))>>, <<Pair(S("q"), I(5))>>, <<It(Paren(E(<<I(8), I(9)>>)))>>}

TableChunks ==
  {TableChunk(Tab(Count(n) \o last)) : n \in 0..6, last \in Tails}
  \cup {TableChunk(Tab(<<Pair(S("q"), I(4)), It(I(1)), Pair(I(9), S("a")), It(I(2)), It(E(<<I(3), I(4)>>)),
                         It(I(5)), Pair(E(<<I(9)>>), Un("#", S("ab")))>>)),
        TableChunk(Tab(<<It(I(1)), It(Its(<<I(2), I(3), I(4)>>)), It(Its(<<Its(<<I(5)>>)>>)), It(I(4))>>))}

------------------------------------------------------------------------------
(* Operators: their precedence and their order, with constants that the compiler
   may compute and with variables *)

Numbers == <<I(5), I(3), I(2)>>
Names == <<N("a"), N("b"), N("c")>>
Mixed == <<N("a"), I(3), N("c")>>

Inner == {"+", "-", "*", "%", "^", "<", "=="}
Outer == Inner \cup {"..", ">=", "~="}

Twofold(v) ==
  {Op(Op(v[1], o, v[2]), q, v[3]) : o \in Inner \cup {".."}, q \in {"..", "=="}}
  \cup {Op(v[1], q, Op(v[2], o, v[3])) : o \in Inner \cup {".."}, q \in {"..", "~="}}
  \cup {Op(Op(v[1], o, v[2]), q, v[3]) : o \in Inner, q \in Outer}
  \cup {Op(v[1], q, Op(v[2], o, v[3])) : o \in Inner, q \in Outer}
  \cup {Un(u, Op(v[1], o, v[2])) : u \in {"-", "not"}, o \in Inner}
  \cup {Op(Un(u, v[1]), o, v[2]) : u \in {"-", "not"}, o \in Inner}
  \cup {Op(v[1], o, Un("-", v[2])) : o \in {"+", "-", "*", "<", "=="}}

Dead == {And(false, Op(I(1), "/", I(0))), Or(I(1), Op(I(1), "%", I(0))), And(nil, N("x")),
         Or(true, N("a")), Not(And(I(1), nil)), Or(false, Or(nil, N("a"))), Un("-", Un("-", I(2))),
         Op(S("a"), "<", S("b")), Op(S("c"), "<=", S("b")), Op(Op(S("a"), "..", I(1)), "==", S("a1")),
         Un("#", S("abc")), Not(Un("#", S("a"))), Op(N("a"), "..", Op(S("x"), "..", Op(I(1), "..", N("b")))),
         Op(Op(I(1), "+", I(2)), "*", Op(I(3), "-", I(2)))}

OperatorChunks ==
  {<<Loc(<<"a", "b", "c">>, Numbers), Emits(<<e>>), Ret(<<e>>)>> :
     e \in UNION {Twofold(v) : v \in {Numbers, Names, Mixed}} \cup Dead}
  \cup {<<Local("a", I(1)), Emits([j \in 1..6 |-> Op(N("a"), "+", I(j))]),
          Asg(<<Dot(Paren(Tab(<<>>)), "q")>>, <<S("z")>>), Emits(<<Op(S("z"), "==", N("a"))>>)>>}

------------------------------------------------------------------------------
(* Alternatives, scopes, methods and recursion *)

Tests == {N("x"), true, nil, Not(N("x")), Op(N("x"), "==", I(1))}

ScopeChunks ==
  {<<Local("x", v), Do(<<Local("g", I(7))>>),
     <<"if", <<<<a, <<Local("q", nil), Local("r", N("q"))>>>>, <<b, <<Local("q", I(2)), Emits(<<N("q")>>)>>>>>>,
       otherwise>>,
     Loc(<<"c", "d">>, <<>>), Emits(<<N("c"), N("d")>>)>> :
     v \in {I(1), nil, false}, a \in Tests, b \in Tests,
     otherwise \in {<<>>, <<Emits(<<I(3)>>)>>}}
  \cup {<<Local("x", v), Do(<<Local("g", I(7))>>), If(a, <<Local("q", nil)>>, <<>>),
          Loc(<<"c", "d">>, <<>>), Emits(<<N("c"), N("d")>>)>> : v \in {I(1), nil}, a \in Tests}
  \cup {<<Local("x", v), Do(<<Local("g", I(7))>>),
          While(N("x"), <<Set("x", nil), Do(<<Local("y", I(8))>>), Local("z", nil)>>),
          Local("c", nil), Emits(<<N("c")>>)>> : v \in {I(1), nil}}

MethodChunks ==
  {<<Local("t", Tab(<<Pair(S("a"), Tab(<<>>))>>)),
     <<"funcstat", Dot(Dot(N("t"), "a"), "put"), <<"self", "v">>,
       <<Asg(<<Dot(N("self"), "v")>>, <<N("v")>>), Ret(<<N("self"), N("v")>>)>>, TRUE>>,
     <<"funcstat", Dot(N("t"), "get"), <<"s">>, <<Ret(<<Dot(N("s"), "v")>>)>>, FALSE>>,
     <<"funcstat", N("id"), <<"...">>, <<Ret(<<Dots>>)>>, FALSE>>,
     Local("o", <<"method", <<"method", Dot(N("t"), "a"), "put", <<I(3)>>>>, "put", args>>),
     Emits(<<Op(N("o"), "==", Dot(N("t"), "a")), Invoke(Dot(N("t"), "get"), <<N("o")>>),
             Invoke(N("id"), args)>>)>> :
     args \in {<<I(4)>>, <<E(<<I(5), I(6)>>)>>, <<>>}}

(* Counters: a function that makes functions, two levels deep *)
CounterChunks ==
  {<<LocFn("make", <<"n">>,
       <<LocFn("add", <<"d">>,
           <<LocFn("deep", <<>>, <<Set("n", Op(N("n"), "+", N("d"))), Ret(<<N("n")>>)>>),
             use>>),
         Ret(<<N("add"), Fn(<<>>, <<Ret(<<N("n")>>)>>)>>)>>),
     Loc(<<"p", "q">>, <<Invoke(N("make"), <<I(1)>>)>>), Loc(<<"r", "s">>, <<Invoke(N("make"), <<I(5)>>)>>),
     Emits(<<Invoke(N("p"), <<I(2)>>), Invoke(N("r"), <<I(3)>>), Invoke(N("p"), <<I(2)>>)>>),
     Ret(<<Invoke(N("q"), <<>>), Invoke(N("s"), <<>>)>>)>> :
     use \in {Ret(<<Invoke(N("deep"), <<>>)>>), Ret(<<Paren(Invoke(N("deep"), <<>>))>>),
              Ret(<<N("d"), Invoke(N("deep"), <<>>)>>)}}

------------------------------------------------------------------------------
(* Errors: what they are about *)

Operands ==
  {N("l"), N("u"), N("g"), Dot(N("t"), "q"), Idx(N("t"), I(1)), Idx(N("t"), N("l")), E(<<>>),
   And(N("l"), N("g")), Paren(N("u")), Or(N("l"), Dot(N("t"), "q")), Dot(Dot(N("t"), "r"), "q")}

Faults(e) ==
  {<<Emits(<<Dot(e, "f")>>)>>, <<Emits(<<Idx(e, I(1))>>)>>, <<Asg(<<Dot(e, "f")>>, <<I(1)>>)>>,
   <<Emits(<<Op(e, "+", I(1))>>)>>, <<Emits(<<Op(I(1), "-", e)>>)>>, <<Emits(<<Un("-", e)>>)>>,
   <<Emits(<<Op(e, "..", S("a"))>>)>>, <<Emits(<<Op(S("a"), "..", Op(e, "..", S("b")))>>)>>,
   <<Emits(<<Un("#", e)>>)>>, <<Emits(<<Op(e, "<", I(1))>>)>>, <<Local("z", e), Ret(<<Invoke(N("z"), <<>>)>>)>>,
   <<<<"callstat", Invoke(e, <<I(1)>>)>>>>, <<Ret(<<Invoke(e, <<>>)>>)>>,
   <<<<"callstat", <<"method", e, "m", <<>>>>>>>>, <<ForNum("i", e, I(2), I(1), <<>>)>>,
   <<ForIn(<<"k">>, <<e>>, <<>>)>>}

Method(e) == <<<<"callstat", <<"method", e, "m", <<I(1)>>>>>>>>

ErrorChunks ==
  {<<Loc(<<"t", "u">>, <<Tab(<<Pair(S("r"), Tab(<<>>))>>)>>),
     LocFn("f", <<"l">>, fault), Call("f", <<>>)>> :
     fault \in UNION {Faults(e) : e \in Operands} \cup {Method(N("t")), Method(Dot(N("t"), "r"))}}

------------------------------------------------------------------------------
(* At the limits of a function and beyond *)

Nth(n) == <<"v1", "v2", "v3", "v4", "v5", "v6", "v7", "v8", "v9", "v10", "v11", "v12", "v13">>[n]
Vars(n) == [j \in 1..n |-> Nth(j)]

RECURSIVE Nested(_)
Nested(n) == IF n = 0 THEN I(1) ELSE Paren(Nested(n - 1))

ManyLocals(n) == <<Loc(Vars(n), <<I(1)>>), Emits(<<N("v1"), N(Nth(n))>>)>>
ManyUpvalues(n) ==
  <<Loc(Vars(n), <<I(1)>>),
    LocFn("f", <<>>, <<Ret([j \in 1..n |-> N(Nth(j))])>>), Ret(<<Invoke(N("f"), <<>>)>>)>>
ManyRegisters(n) == <<Emits([j \in 1..n |-> I(1)])>>
DeepLevels(n) == <<Emits(<<Nested(n)>>)>>

Numbered(n) == <<Loc(Vars(n), <<I(1)>>), ForNum("i", I(1), I(2), I(1), <<Emits(<<N("i")>>)>>)>>

LimitChunks ==
  {ManyLocals(12), ManyUpvalues(3), ManyRegisters(18), DeepLevels(6), Numbered(8)}

Refused ==
  {ManyLocals(13), ManyUpvalues(4), ManyRegisters(19), DeepLevels(7), Numbered(9),
   <<Break>>, <<If(true, <<Break>>, <<>>)>>, <<While(true, <<LocFn("f", <<>>, <<Break>>)>>)>>,
   <<LocFn("f", <<"a">>, <<Ret(<<Dots>>)>>)>>, <<Asg(<<E(<<>>)>>, <<I(1)>>)>>,
   <<Asg(<<N("x"), Paren(N("y"))>>, <<I(1)>>)>>, <<Ret(<<I(1)>>), Emits(<<>>)>>}

------------------------------------------------------------------------------
(* The chunks that are compiled and run only, and those that are dumped, with or
   without debug information, and loaded as well *)
RunOnly == ConditionChunks \cup OperatorChunks \cup ScopeChunks
DumpedToo ==
  LoopChunks \cup AssignChunks \cup CallChunks \cup TableChunks \cup MethodChunks
  \cup CounterChunks \cup ErrorChunks \cup LimitChunks

==============================================================================
