----------------------------- MODULE LuaSemantics -----------------------------
(***************************************************************************)
(* What a Lua chunk means, by recursion on its syntax tree: no registers,  *)
(* no jumps, a cell for every variable.  A node is a tuple whose first     *)
(* element is its kind.  The state of a computation holds                  *)
(*   cells: the variables,   tabs: the tables (the first has the globals), *)
(*   funs: the closures,     out: the calls of `emit',                     *)
(*   sig:  "" or why the rest is skipped: "break", "return", "error",      *)
(*   vals: the values of a return,   why: what a type error is about.      *)
(* An environment maps a name to its cell and to the level of the function *)
(* that declares it.                                                       *)
(***************************************************************************)
EXTENDS Integers, SequencesExt, TLC

Nil == <<"nil", 0>>
Bool(b) == <<"boolean", b>>
Num(n) == <<"number", n>>
Str(s) == <<"string", s>>
Emit == <<"function", 0>>

False(v) == v \in {Nil, Bool(FALSE)}
Bind(env, x, c) == (x :> <<c, env["(level)"][2]>>) @@ env

Start == [cells |-> <<>>, tabs |-> <<(Str("emit") :> Emit)>>, funs |-> <<>>, out |-> <<>>,
          sig |-> "", vals |-> <<>>, why |-> <<>>]

Skips(st) == st.sig # ""

At(vs, n) == IF n <= Len(vs) THEN vs[n] ELSE Nil
Adjust(vs, n) == [j \in 1..n |-> At(vs, j)]

Get(st, t, key) == IF key \in DOMAIN st.tabs[t[2]] THEN st.tabs[t[2]][key] ELSE Nil
Put(st, t, key, v) ==
  [st EXCEPT !.tabs[t[2]] =
     IF v = Nil THEN [x \in DOMAIN @ \ {key} |-> @[x]] ELSE (key :> v) @@ @]

Size(tab) ==
  LET RECURSIVE From(_)
      From(n) == IF Num(n + 1) \in DOMAIN tab THEN From(n + 1) ELSE n
  IN From(0)

(* How a message may call the value of a node *)
RECURSIVE NameOf(_, _)
NameOf(e, env) ==
  CASE e[1] = "name" ->
         (IF e[2] \notin DOMAIN env THEN <<"global", e[2]>>
          ELSE <<IF env[e[2]][2] = env["(level)"][2] THEN "local" ELSE "upvalue", e[2]>>)
    [] e[1] = "index"  -> <<"field", IF e[3][1] = "str" THEN e[3][2] ELSE "?">>
    [] e[1] = "method" -> <<"method", e[3]>>
    [] e[1] = "paren"  -> NameOf(e[2], env)
    [] e[1] \in {"and", "or"} -> <<"any", "">>
    [] OTHER -> <<"", "">>

Fails(st, op, e, env) ==
  [st EXCEPT !.sig = "error", !.why = <<op, IF e = <<>> THEN <<"", "">> ELSE NameOf(e, env)>>]

RECURSIVE Power(_, _)
Power(x, n) == IF n = 0 THEN 1 ELSE x * Power(x, n - 1)

Calculate(op, x, y) ==
  CASE op = "+" -> x + y [] op = "-" -> x - y [] op = "*" -> x * y
    [] op = "/" -> x \div y [] op = "%" -> x % y [] op = "^" -> Power(x, y)

Text(v) == IF v[1] = "number" THEN ToString(v[2]) ELSE v[2]
IsText(v) == v[1] \in {"number", "string"}

(* Strings are single letters when they are compared. *)
Letter(s) == CHOOSE n \in 1..4 : <<"a", "b", "c", "d">>[n] = s
Less(x, y) == IF x[1] = "number" THEN x[2] < y[2] ELSE Letter(x[2]) < Letter(y[2])

------------------------------------------------------------------------------
RECURSIVE Eval(_, _, _), Evals(_, _, _), Exec(_, _, _), Block(_, _, _), Loop(_, _, _)

One(r) == [st |-> r.st, v |-> At(r.vs, 1)]

(* The values of a list of expressions: all of the last one, one of the others *)
RECURSIVE List(_, _, _)
List(es, env, st) ==
  IF es = <<>> \/ Skips(st) THEN [st |-> st, vs |-> <<>>]
  ELSE IF Len(es) = 1 THEN Evals(es[1], env, st)
  ELSE LET a == Eval(es[1], env, st)
           b == List(Tail(es), env, a.st)
       IN [st |-> b.st, vs |-> <<a.v>> \o b.vs]

(* A function is called: the node is what a message would name. *)
Apply(f, args, st, node, env) ==
  LET fn  == st.funs[f[2]]
      n   == Len(fn.params)
      c   == Len(st.cells)
      own == ("(level)" :> <<0, fn.env["(level)"][2] + 1>>)
             @@ ("..." :> <<c + n + 1, 0>>)
             @@ [x \in Range(fn.params) |->
                   <<c + Max({j \in 1..n : fn.params[j] = x}), fn.env["(level)"][2] + 1>>]
      s   == [st EXCEPT !.cells = @ \o Adjust(args, n) \o <<SubSeq(args, n + 1, Len(args))>>]
      r   == Block(fn.body, own @@ fn.env, s).st
      vals == IF r.sig = "return" THEN r.vals ELSE <<>>
  IN IF Skips(st) THEN [st |-> st, vs |-> <<>>]
     ELSE IF f = Emit THEN [st |-> [st EXCEPT !.out = Append(@, args)], vs |-> args]
     ELSE IF f[1] # "function" THEN [st |-> Fails(st, "call", node, env), vs |-> <<>>]
     ELSE [st |-> IF r.sig = "error" THEN r ELSE [r EXCEPT !.sig = "", !.vals = <<>>],
           vs |-> vals]

Closure(params, body, env, st) ==
  [st |-> [st EXCEPT !.funs = Append(@, [params |-> SelectSeq(params, LAMBDA x : x # "..."),
                                              body |-> body, env |-> env])],
   v  |-> <<"function", Len(st.funs) + 1>>]

(* The items of a constructor go into the table at once; positions count. *)
RECURSIVE Items(_, _, _, _, _)
Items(items, t, n, env, st) ==
  LET it == Head(items)
      k  == Eval(it[2], env, st)
      v  == Eval(it[3], env, k.st)
      a  == List(<<it[2]>>, env, st)
      new == IF Len(items) = 1 THEN a.vs ELSE <<At(a.vs, 1)>>
      filled == FoldLeft(LAMBDA s, j : Put(s, t, Num(n + j), new[j]), a.st,
                         [j \in DOMAIN new |-> j])
  IN IF items = <<>> \/ Skips(st) THEN st
     ELSE IF it[1] = "pair" THEN Items(Tail(items), t, n, env, Put(v.st, t, k.v, v.v))
     ELSE Items(Tail(items), t, n + 1, env, IF Skips(a.st) THEN a.st ELSE filled)

Arithmetic == {"+", "-", "*", "/", "%", "^"}

Binary(e, env, st) ==
  LET op == e[2]
      a  == Eval(e[3], env, st)
      b  == Eval(e[4], env, a.st)
      numbers == a.v[1] = "number" /\ b.v[1] = "number"
      Gives(v) == [st |-> b.st, v |-> v]
      Bad(kind, node) == [st |-> Fails(b.st, kind, node, env), v |-> Nil]
  IN CASE Skips(b.st) -> [st |-> b.st, v |-> Nil]
       [] op \in Arithmetic ->
            IF numbers THEN Gives(Num(Calculate(op, a.v[2], b.v[2])))
            ELSE Bad("arithmetic", IF a.v[1] = "number" THEN e[4] ELSE e[3])
       [] op = ".." -> IF IsText(a.v) /\ IsText(b.v) THEN Gives(Str(Text(a.v) \o Text(b.v)))
                       ELSE Bad("concatenate", IF IsText(a.v) THEN e[4] ELSE e[3])
       [] op = "==" -> Gives(Bool(a.v = b.v))
       [] op = "~=" -> Gives(Bool(a.v # b.v))
       [] OTHER -> IF a.v[1] # b.v[1] \/ ~IsText(a.v) THEN Bad("compare", <<>>)
                   ELSE Gives(Bool(CASE op = "<"  -> Less(a.v, b.v)
                                     [] op = "<=" -> ~Less(b.v, a.v)
                                     [] op = ">"  -> Less(b.v, a.v)
                                     [] op = ">=" -> ~Less(a.v, b.v)))

Unary(e, env, st) ==
  LET a == Eval(e[3], env, st)
      Gives(v) == [st |-> a.st, v |-> v]
      Bad(kind) == [st |-> Fails(a.st, kind, e[3], env), v |-> Nil]
  IN CASE Skips(a.st) -> [st |-> a.st, v |-> Nil]
       [] e[2] = "not" -> Gives(Bool(False(a.v)))
       [] e[2] = "-" -> IF a.v[1] = "number" THEN Gives(Num(-a.v[2])) ELSE Bad("arithmetic")
       [] e[2] = "#" -> IF a.v[1] = "string" THEN Gives(Num(Len(a.v[2])))
                        ELSE IF a.v[1] = "table" THEN Gives(Num(Size(a.st.tabs[a.v[2]])))
                        ELSE Bad("length")

Eval(e, env, st) ==
  LET a == Eval(e[2], env, st)
      b == Eval(e[3], env, a.st)
      new == <<"table", Len(st.tabs) + 1>>
  IN CASE Skips(st) -> [st |-> st, v |-> Nil]
       [] e[1] = "nil"   -> [st |-> st, v |-> Nil]
       [] e[1] = "true"  -> [st |-> st, v |-> Bool(TRUE)]
       [] e[1] = "false" -> [st |-> st, v |-> Bool(FALSE)]
       [] e[1] = "num"   -> [st |-> st, v |-> Num(e[2])]
       [] e[1] = "str"   -> [st |-> st, v |-> Str(e[2])]
       [] e[1] = "name"  -> [st |-> st, v |-> IF e[2] \in DOMAIN env THEN st.cells[env[e[2]][1]]
                                              ELSE Get(st, <<"table", 1>>, Str(e[2]))]
       [] e[1] = "index" ->
            IF Skips(b.st) THEN [st |-> b.st, v |-> Nil]
            ELSE IF a.v[1] = "table" THEN [st |-> b.st, v |-> Get(b.st, a.v, b.v)]
            ELSE [st |-> Fails(b.st, "index", e[2], env), v |-> Nil]
       [] e[1] = "and"   -> IF Skips(a.st) \/ False(a.v) THEN a ELSE b
       [] e[1] = "or"    -> IF Skips(a.st) \/ ~False(a.v) THEN a ELSE b
       [] e[1] = "op"    -> Binary(e, env, st)
       [] e[1] = "unop"  -> Unary(e, env, st)
       [] e[1] = "paren" -> a
       [] e[1] = "function" -> Closure(e[2], e[3], env, st)
       [] e[1] = "table" ->
            [st |-> Items(e[2], new, 0, env, [st EXCEPT !.tabs = Append(@, [x \in {} |-> Nil])]),
             v |-> new]
       [] OTHER -> One(Evals(e, env, st))

Evals(e, env, st) ==
  LET f == Eval(e[2], env, st)
      args == List(e[3], env, f.st)
      m == Get(f.st, f.v, Str(e[3]))
      margs == List(e[4], env, f.st)
      one == Eval(e, env, st)
  IN CASE Skips(st) -> [st |-> st, vs |-> <<>>]
       [] e[1] = "call" -> Apply(f.v, args.vs, args.st, e[2], env)
       [] e[1] = "method" ->
            IF Skips(f.st) THEN [st |-> f.st, vs |-> <<>>]
            ELSE IF f.v[1] # "table" THEN [st |-> Fails(f.st, "index", e[2], env), vs |-> <<>>]
            ELSE Apply(m, <<f.v>> \o margs.vs, margs.st, e, env)
       [] e[1] = "..." -> [st |-> st, vs |-> st.cells[env["..."][1]]]
       [] OTHER -> [st |-> one.st, vs |-> <<one.v>>]

------------------------------------------------------------------------------
(* Statements give the state, and the environment of the statements after them. *)

Declare(names, vals, env, st) ==
  [st  |-> [st EXCEPT !.cells = @ \o Adjust(vals, Len(names))],
   env |-> FoldLeft(LAMBDA g, j : Bind(g, names[j], Len(st.cells) + j), env,
                    [j \in DOMAIN names |-> j])]

(* A target of an assignment: its table and its key, or its variable *)
RECURSIVE Targets(_, _, _)
Targets(ts, env, st) ==
  LET t == Head(ts)
      a == Eval(t[2], env, st)
      b == Eval(t[3], env, a.st)
      new == IF t[1] = "index" THEN [node |-> t, t |-> a.v, key |-> b.v]
             ELSE [node |-> t, t |-> <<"table", 1>>, key |-> Str(t[2])]
      more == Targets(Tail(ts), env, IF t[1] = "index" THEN b.st ELSE st)
  IN IF ts = <<>> THEN [st |-> st, ts |-> <<>>]
     ELSE [st |-> more.st, ts |-> <<new>> \o more.ts]

StoreIn(target, v, env, st) ==
  LET x == target.node[2] IN
    IF Skips(st) THEN st
    ELSE IF target.node[1] = "name" /\ x \in DOMAIN env
    THEN [st EXCEPT !.cells[env[x][1]] = v]
    ELSE IF target.t[1] # "table" THEN Fails(st, "index", x, env)
    ELSE Put(st, target.t, target.key, v)

(* From right to left *)
StoreIn_All(ts, vs, env, st) ==
  FoldRight(LAMBDA j, s : StoreIn(ts[j], At(vs, j), env, s), [j \in DOMAIN ts |-> j], st)

RECURSIVE If(_, _, _, _)
If(clauses, otherwise, env, st) ==
  LET c == Eval(clauses[1][1], env, st) IN
    IF clauses = <<>> THEN Block(otherwise, env, st).st
    ELSE IF Skips(c.st) THEN c.st
    ELSE IF ~False(c.v) THEN Block(clauses[1][2], env, c.st).st
    ELSE If(Tail(clauses), otherwise, env, c.st)

EndLoop(st) == IF st.sig = "break" THEN [st EXCEPT !.sig = ""] ELSE st

(* The rest of a loop (a message has no good name for an iterator): a while or repeat statement, or one of a for, with the
   values that control it. *)
RECURSIVE While(_, _, _), Repeat(_, _, _), Numeric(_, _, _, _, _, _), Generic(_, _, _, _, _, _)
While(s, env, st) ==
  LET c == Eval(s[2], env, st)
      b == Block(s[3], env, c.st).st
  IN IF Skips(c.st) \/ False(c.v) THEN c.st
     ELSE IF Skips(b) THEN EndLoop(b) ELSE While(s, env, b)

Repeat(s, env, st) ==
  LET b == Block(s[2], env, st)
      c == Eval(s[3], b.env, b.st)
  IN IF Skips(b.st) THEN EndLoop(b.st)
     ELSE IF Skips(c.st) \/ ~False(c.v) THEN c.st ELSE Repeat(s, env, c.st)

Numeric(s, idx, limit, step, env, st) ==
  LET d == Declare(<<s[2]>>, <<Num(idx)>>, env, st)
      b == Block(s[6], d.env, d.st).st
  IN IF (IF step > 0 THEN idx > limit ELSE idx < limit) THEN st
     ELSE IF Skips(b) THEN EndLoop(b) ELSE Numeric(s, idx + step, limit, step, env, b)

Generic(s, f, state, control, env, st) ==
  LET r == Apply(f, <<state, control>>, st, <<"and">>, env)
      d == Declare(s[2], r.vs, env, r.st)
      b == Block(s[4], d.env, d.st).st
  IN IF Skips(r.st) \/ At(r.vs, 1) = Nil THEN r.st
     ELSE IF Skips(b) THEN EndLoop(b) ELSE Generic(s, f, state, At(r.vs, 1), env, b)

Loop(s, env, st) ==
  LET l == List(IF s[1] = "forin" THEN s[3] ELSE <<s[3], s[4], s[5]>>, env, st) IN
    CASE s[1] = "while"  -> While(s, env, st)
      [] s[1] = "repeat" -> Repeat(s, env, st)
      [] s[1] = "fornum" ->
           IF Skips(l.st) THEN l.st
           ELSE IF \E j \in 1..3 : l.vs[j][1] # "number" THEN Fails(l.st, "for", <<>>, env)
           ELSE Numeric(s, l.vs[1][2], l.vs[2][2], l.vs[3][2], env, l.st)
      [] s[1] = "forin"  -> IF Skips(l.st) THEN l.st
                            ELSE Generic(s, At(l.vs, 1), At(l.vs, 2), At(l.vs, 3), env, l.st)

Exec(s, env, st) ==
  LET l  == List(s[3], env, st)
      ts == Targets(s[2], env, st)
      r  == List(s[3], env, ts.st)
      d  == Declare(<<s[2]>>, <<Nil>>, env, st)
      f  == Closure(s[3], s[4], d.env, d.st)
      g  == Closure(s[3], s[4], env, st)
      v  == List(s[2], env, st)
      Same(st1) == [st |-> st1, env |-> env]
  IN CASE Skips(st) -> Same(st)
       [] s[1] = "local" -> IF Skips(l.st) THEN Same(l.st) ELSE Declare(s[2], l.vs, env, l.st)
       [] s[1] = "localfunction" ->
            [st |-> [f.st EXCEPT !.cells[d.env[s[2]][1]] = f.v], env |-> d.env]
       [] s[1] = "funcstat" -> Same(StoreIn(Targets(<<s[2]>>, env, g.st).ts[1], g.v, env,
                                            Targets(<<s[2]>>, env, g.st).st))
       [] s[1] = "assign" -> Same(StoreIn_All(ts.ts, r.vs, env, r.st))
       [] s[1] = "callstat" -> Same(Evals(s[2], env, st).st)
       [] s[1] = "do" -> Same(Block(s[2], env, st).st)
       [] s[1] = "if" -> Same(If(s[2], s[3], env, st))
       [] s[1] \in {"while", "repeat", "fornum", "forin"} -> Same(Loop(s, env, st))
       [] s[1] = "break" -> Same([st EXCEPT !.sig = "break"])
       [] s[1] = "return" -> Same(IF Skips(v.st) THEN v.st
                                  ELSE [v.st EXCEPT !.sig = "return", !.vals = v.vs])

Block(b, env, st) ==
  IF b = <<>> \/ Skips(st) THEN [st |-> st, env |-> env]
  ELSE LET s == Exec(b[1], env, st) IN Block(Tail(b), s.env, s.st)

(* The end of a chunk: how it ends, its values, what it has emitted. *)
Meaning(chunk) ==
  LET env == ("(level)" :> <<0, 0>>) @@ ("..." :> <<1, 0>>)
      r   == Block(chunk, env, [Start EXCEPT !.cells = <<<<>>>>]).st
  IN [status |-> IF r.sig = "error" THEN "error" ELSE "done",
      vals |-> IF r.sig = "return" THEN r.vals ELSE <<>>, out |-> r.out, why |-> r.why]

==============================================================================
