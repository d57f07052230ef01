------------------------------ MODULE MCCompiler ------------------------------
(* Small chunks through the compiler, the dumper and the loader, the verifier
   and the virtual machine. *)
EXTENDS Machine, Parser, Chunk

Sem == INSTANCE LuaSemantics
Source == INSTANCE LuaSource
C == INSTANCE LuaChunks

Letters == <<"a", "b", "c", "d">>

------------------------------------------------------------------------------
(* A chunk is a syntax tree.  It is compiled, or compiled, dumped with or without
   its debug information and loaded.  What it means goes with it, for the
   properties. *)

RECURSIVE Stripped(_)
Stripped(f) == [f EXCEPT !.source = "=?", !.locvars = <<>>, !.ups = <<>>,
                         !.p = [n \in DOMAIN @ |-> Stripped(@[n])]]

Cuts(n) == {0, 1, n \div 2, n - 1}

Undumped(f, via) ==
  LET strip == via = "stripped"
      items == luaU_dump(f, strip)
      u == luaU_undump(items)
  IN [f |-> u.v, err |-> u.err,
      whole |-> /\ u.v = IF strip THEN Stripped(f) ELSE f
                /\ \A n \in Cuts(Len(items)) : luaU_undump(SubSeq(items, 1, n)).err]

Loads(ast, how) ==
  LET c == luaY_parser(Source!Tokens(ast))
      made == IF c.err \/ how.via = "source" THEN [f |-> c.f, err |-> c.err, whole |-> TRUE]
              ELSE Undumped(c.f, how.via)
  IN made @@ [via |-> how.via, ok |-> c.ok,
              means |-> IF made.err THEN [status |-> "refused"] ELSE Sem!Meaning(ast)]

Init ==
  /\ Start
  /\ \/ program \in C!RunOnly \cup C!Refused /\ loaded = [via |-> "source"]
     \/ program \in C!DumpedToo /\ loaded \in [via : {"source", "dumped", "stripped"}]

Spec == Init /\ [][Next]_vars

------------------------------------------------------------------------------
(* The compiler's assertions hold, the verifier accepts its code, a chunk is
   refused only for breaking a rule or a limit of the language, and no list of
   jumps is left open: its last jump would lead to itself for ever. *)
RECURSIVE JumpsLead(_)
JumpsLead(f) ==
  /\ \A n \in DOMAIN f.code : f.code[n].op = "JMP" => f.code[n].b # NO_JUMP
  /\ \A n \in DOMAIN f.p : JumpsLead(f.p[n])

CodeAccepted ==
  status # "source" =>
    /\ loaded.ok /\ (loaded.err <=> program \in C!Refused)
    /\ loaded.err \/ JumpsLead(loaded.f)

(* What is dumped is what is loaded again, without its debug information if that
   was left out; a dump that is cut short is refused. *)
LoadsBack == status # "source" => loaded.whole

(* Between two instructions the top of the stack is the end of the frame, unless
   the next instruction takes the values up to the top. *)
StackDiscipline ==
  status = "running" =>
    /\ Here.base <= L.top
    /\ L.back \/ L.top = Here.top \/ luaG_checkopenop(p.code[Here.savedpc + 1])

Plain(v) == IF v[1] \in {"table", "function"} THEN <<v[1]>> ELSE v
PlainAll(vs) == [j \in DOMAIN vs |-> Plain(vs[j])]

(* A chunk ends as its syntax tree says, has made the same calls with the same
   arguments, and gives the same values. *)
MeansTheSource ==
  status \in {"done", "error"} =>
    LET m == loaded.means IN
      /\ status = m.status
      /\ [j \in DOMAIN out |-> PlainAll(out[j])] = [j \in DOMAIN m.out |-> PlainAll(m.out[j])]
      /\ status = "done" => PlainAll(SubSeq(L.stack, 1, L.top - 1)) = PlainAll(m.vals)

(* A type error is about the operation that the source has there, and names the
   operand as the source does; without debug information local variables have
   no names, or the name of what was moved into them, and upvalues are unknown. *)
ErrorsNameTheOperand ==
  status = "error" =>
    LET why == loaded.means.why
        stripped == loaded.via = "stripped"
    IN /\ blame[1] = why[1]
       /\ \/ why[2][1] = "any"
          \/ why[2][1] = "local" /\ stripped
          \/ blame[2] = IF why[2][1] = "upvalue" /\ stripped THEN <<"upvalue", "?">> ELSE why[2]

==============================================================================
