------------------------------ MODULE LuaOpcodes ------------------------------
(* lopcodes.h and lopcodes.c: the instructions of the virtual machine.  An
   instruction is its operation and its operands; Bx and sBx stand in b, as a
   number with its sign.  Their bits are the subject of InstructionCodec. *)
EXTENDS Integers, Sequences

CONSTANTS MaxIndexRK,       \* MAXINDEXRK, 255 in the source
          MaxArgC,          \* MAXARG_C, 511 in the source
          FieldsPerFlush,   \* LFIELDS_PER_FLUSH, 50 in the source
          MaxStack,         \* MAXSTACK, 250 in the source
          SetlistWord       \* a number whose bits are those of a SETLIST with C = 0:
                            \* 34 + 64 n in the source, from 546 on

BITRK == 256
NO_REG == 255
LUA_MULTRET == -1
NO_JUMP == -1

ISK(x) == x >= BITRK
INDEXK(x) == x - BITRK
RKASK(x) == x + BITRK

Instr(op, a, b, c) == [op |-> op, a |-> a, b |-> b, c |-> c]

(* A plain number between instructions, as an instruction that has its bits. *)
Word(n) == Instr(IF n = SetlistWord THEN "SETLIST" ELSE "MOVE", n, 0, 0)
WordValue(i) == i.a

(* luaP_opmodes, a set for every value of a field. *)
iABx == {"LOADK", "GETGLOBAL", "SETGLOBAL", "CLOSURE"}
iAsBx == {"JMP", "FORLOOP", "FORPREP"}
Arithmetic == {"ADD", "SUB", "MUL", "DIV", "MOD", "POW"}
Comparison == {"EQ", "LT", "LE"}

testTMode == Comparison \cup {"TEST", "TESTSET", "TFORLOOP"}

NoAMode == Comparison \cup
  {"SETGLOBAL", "SETUPVAL", "SETTABLE", "JMP", "RETURN", "TFORLOOP", "SETLIST",
   "CLOSE"}

BMode(op) ==
  IF op \in {"TFORLOOP", "CLOSE"} THEN "N"
  ELSE IF op \in {"MOVE", "LOADNIL", "GETTABLE", "SELF", "UNM", "NOT", "LEN",
                  "CONCAT", "TEST", "TESTSET"} \cup iAsBx THEN "R"
  ELSE IF op \in {"LOADK", "GETGLOBAL", "SETGLOBAL", "SETTABLE"}
                 \cup Arithmetic \cup Comparison THEN "K"
  ELSE "U"

CMode(op) ==
  IF op \in {"LOADBOOL", "NEWTABLE", "TEST", "TESTSET", "CALL", "TAILCALL",
             "TFORLOOP", "SETLIST"} THEN "U"
  ELSE IF op = "CONCAT" THEN "R"
  ELSE IF op \in {"GETTABLE", "SETTABLE", "SELF"} \cup Arithmetic \cup Comparison
    THEN "K"
  ELSE "N"

(* An instruction that takes the values up to the top of the stack. *)
luaG_checkopenop(i) ==
  i.op \in {"CALL", "TAILCALL", "RETURN", "SETLIST"} /\ i.b = 0

==============================================================================
