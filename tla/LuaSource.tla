------------------------------ MODULE LuaSource ------------------------------
(* The tokens of a syntax tree (see LuaSemantics), with parentheses only where
   the precedence of the operators asks for them. *)
EXTENDS Integers, SequencesExt

T(s) == <<s, s>>
Ts(strings) == [j \in DOMAIN strings |-> T(strings[j])]
Name(x) == <<"name", x>>

Tight(e) ==
  CASE e[1] = "or"  -> 1
    [] e[1] = "and" -> 2
    [] e[1] = "op" /\ e[2] \in {"==", "~=", "<", "<=", ">", ">="} -> 3
    [] e[1] = "op" /\ e[2] = ".." -> 4
    [] e[1] = "op" /\ e[2] \in {"+", "-"} -> 5
    [] e[1] = "op" /\ e[2] \in {"*", "/", "%"} -> 6
    [] e[1] = "unop" -> 7
    [] e[1] = "op" /\ e[2] = "^" -> 8
    [] e[1] \in {"name", "index", "call", "method", "paren"} -> 10
    [] OTHER -> 9

Joined(seqs, sep) ==
  FlattenSeq([j \in DOMAIN seqs |-> IF j = 1 THEN seqs[j] ELSE sep \o seqs[j]])

Comma == <<T(",")>>

RECURSIVE Exp_(_, _), Stat(_), Stats(_)

Exps(es) == Joined([j \in DOMAIN es |-> Exp_(es[j], 0)], Comma)

Parameters(params) ==
  Joined([j \in DOMAIN params |-> <<IF params[j] = "..." THEN T("...") ELSE Name(params[j])>>], Comma)

(* A parameter "..." stands for itself in the tree, too. *)
Function(params, body) ==
  <<T("(")>> \o Parameters(params) \o <<T(")")>> \o Stats(body) \o <<T("end")>>

Item(it) ==
  IF it[1] # "pair" THEN Exp_(it[2], 0)
  ELSE IF it[2][1] = "str" THEN <<Name(it[2][2]), T("=")>> \o Exp_(it[3], 0)
  ELSE <<T("[")>> \o Exp_(it[2], 0) \o <<T("]"), T("=")>> \o Exp_(it[3], 0)

Two(e, op) ==
  LET t == Tight(e)
      right == op \in {"..", "^"}
      a == IF e[1] = "op" THEN e[3] ELSE e[2]
      b == IF e[1] = "op" THEN e[4] ELSE e[3]
  IN Exp_(a, IF right THEN t + 1 ELSE t) \o <<T(op)>>
     \o Exp_(b, IF op = "^" THEN 7 ELSE IF right THEN t ELSE t + 1)

Bare(e) ==
  CASE e[1] \in {"nil", "true", "false", "..."} -> <<T(e[1])>>
    [] e[1] = "num"  -> <<<<"number", e[2]>>>>
    [] e[1] = "str"  -> <<<<"string", e[2]>>>>
    [] e[1] = "name" -> <<Name(e[2])>>
    [] e[1] = "index" ->
         Exp_(e[2], 10) \o (IF e[3][1] = "str" THEN <<T("."), Name(e[3][2])>>
                            ELSE <<T("[")>> \o Exp_(e[3], 0) \o <<T("]")>>)
    [] e[1] = "call" -> Exp_(e[2], 10) \o <<T("(")>> \o Exps(e[3]) \o <<T(")")>>
    [] e[1] = "method" -> Exp_(e[2], 10) \o <<T(":"), Name(e[3]), T("(")>> \o Exps(e[4]) \o <<T(")")>>
    [] e[1] = "paren" -> <<T("(")>> \o Exp_(e[2], 0) \o <<T(")")>>
    [] e[1] = "function" -> <<T("function")>> \o Function(e[2], e[3])
    [] e[1] = "table" -> <<T("{")>> \o Joined([j \in DOMAIN e[2] |-> Item(e[2][j])], Comma) \o <<T("}")>>
    [] e[1] = "unop" -> <<T(e[2])>> \o Exp_(e[3], 7)
    [] e[1] = "op" -> Two(e, e[2])
    [] OTHER -> Two(e, e[1])

Exp_(e, tight) ==
  IF Tight(e) >= tight THEN Bare(e) ELSE <<T("(")>> \o Bare(e) \o <<T(")")>>

Clause(word, c) == <<T(word)>> \o Exp_(c[1], 0) \o <<T("then")>> \o Stats(c[2])

NameList(xs) == Joined([j \in DOMAIN xs |-> <<Name(xs[j])>>], Comma)

(* function t.x:m(...) has no self among its parameters. *)
MethodName(target) == Exp_(target[2], 10) \o <<T(":"), Name(target[3][2])>>

Stat(s) ==
  CASE s[1] = "local" ->
         <<T("local")>> \o NameList(s[2])
         \o (IF s[3] = <<>> THEN <<>> ELSE <<T("=")>> \o Exps(s[3]))
    [] s[1] = "localfunction" -> <<T("local"), T("function"), Name(s[2])>> \o Function(s[3], s[4])
    [] s[1] = "funcstat" ->
         <<T("function")>> \o (IF s[5] THEN MethodName(s[2]) ELSE Exp_(s[2], 10))
         \o Function(IF s[5] THEN Tail(s[3]) ELSE s[3], s[4])
    [] s[1] = "assign" -> Exps(s[2]) \o <<T("=")>> \o Exps(s[3])
    [] s[1] = "callstat" -> Exp_(s[2], 10)
    [] s[1] = "do" -> <<T("do")>> \o Stats(s[2]) \o <<T("end")>>
    [] s[1] = "if" ->
         FlattenSeq([j \in DOMAIN s[2] |-> Clause(IF j = 1 THEN "if" ELSE "elseif", s[2][j])])
         \o (IF s[3] = <<>> THEN <<>> ELSE <<T("else")>> \o Stats(s[3])) \o <<T("end")>>
    [] s[1] = "while" -> <<T("while")>> \o Exp_(s[2], 0) \o <<T("do")>> \o Stats(s[3]) \o <<T("end")>>
    [] s[1] = "repeat" -> <<T("repeat")>> \o Stats(s[2]) \o <<T("until")>> \o Exp_(s[3], 0)
    [] s[1] = "fornum" ->
         <<T("for"), Name(s[2]), T("=")>>
         \o Exps(IF s[5] = <<"num", 1>> THEN <<s[3], s[4]>> ELSE <<s[3], s[4], s[5]>>)
         \o <<T("do")>> \o Stats(s[6]) \o <<T("end")>>
    [] s[1] = "forin" ->
         <<T("for")>> \o NameList(s[2]) \o <<T("in")>> \o Exps(s[3]) \o <<T("do")>>
         \o Stats(s[4]) \o <<T("end")>>
    [] s[1] = "break"  -> <<T("break")>>
    [] s[1] = "return" -> <<T("return")>> \o Exps(s[2])

Stats(b) == FlattenSeq([j \in DOMAIN b |-> Stat(b[j]) \o <<T(";")>>])

Tokens(chunk) == Stats(chunk) \o <<T("eos")>>

==============================================================================
