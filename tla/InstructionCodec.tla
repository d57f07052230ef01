-------------------------- MODULE InstructionCodec --------------------------
(***************************************************************************)
(* The instruction words of the embedded Lua (lopcodes.h) and of the host, *)
(* and the way from the one to the other: the operand order, the extra     *)
(* encoding of calls and returns (update.hpp) and the key every word is    *)
(* multiplied with (conversion.cpp).                                       *)
(*                                                                         *)
(* A word has OpBits + ABits + BBits + CBits bits, the operation on top:   *)
(* 6 + 8 + 9 + 9 in the code.  All arithmetic is modulo Size.              *)
(***************************************************************************)
EXTENDS Integers, Sequences, FiniteSetsExt

CONSTANTS ABits, BBits, CBits

(* B and C change places. *)
ASSUME WidthAssumption == /\ ABits \in Nat \ {0}
                          /\ BBits \in Nat \ {0} /\ CBits = BBits

OpBits   == 6
POS_OP   == ABits + BBits + CBits
POS_A    == BBits + CBits
POS_B    == CBits
SIZE_Bx  == BBits + CBits
Size     == 2 ^ (OpBits + POS_OP)
Word     == 0 .. Size - 1

Field(x, pos, width) == (x \div 2 ^ pos) % 2 ^ width
Bit(x, n) == Field(x, n, 1)

(* The operations, in the order of the two enumerations. *)
LuaOps == <<"MOVE", "LOADK", "LOADBOOL", "LOADNIL", "GETUPVAL", "GETGLOBAL",
  "GETTABLE", "SETGLOBAL", "SETUPVAL", "SETTABLE", "NEWTABLE", "SELF", "ADD",
  "SUB", "MUL", "DIV", "MOD", "POW", "UNM", "NOT", "LEN", "CONCAT", "JMP", "EQ",
  "LT", "LE", "TEST", "TESTSET", "CALL", "TAILCALL", "RETURN", "FORLOOP",
  "FORPREP", "TFORLOOP", "SETLIST", "CLOSE", "CLOSURE", "VARARG">>

RbxOps == <<"LOADBOOL", "GETTABLE", "GETUPVAL", "SETGLOBAL", "LOADK", "SETUPVAL",
  "MOVE", "LOADNIL", "GETGLOBAL", "SELF", "DIV", "SUB", "MOD", "NEWTABLE", "POW",
  "SETTABLE", "ADD", "MUL", "LEN", "LT", "JMP", "LE", "NOT", "TEST", "UNM",
  "CONCAT", "EQ", "TAILCALL", "TFORLOOP", "FORLOOP", "SETLIST", "CALL", "CLOSE",
  "TESTSET", "RETURN", "FORPREP", "VARARG", "CLOSURE">>

Ops == {LuaOps[n] : n \in 1 .. Len(LuaOps)}
Number(names) == [op \in Ops |-> (CHOOSE n \in 1 .. Len(names) : names[n] = op) - 1]
RbxNumber == Number(RbxOps)

(* The operations whose operand is B and C as one: iABx and iAsBx. *)
WideOps == {"LOADK", "GETGLOBAL", "SETGLOBAL", "CLOSURE", "JMP", "FORLOOP", "FORPREP"}

SpecialOps == {"CALL", "TAILCALL", "CLOSURE", "RETURN"}

Instruction == {x \in Word : Field(x, POS_OP, OpBits) < Len(LuaOps)}

GET_OPCODE(x) == LuaOps[Field(x, POS_OP, OpBits) + 1]
GETARG_A(x)  == Field(x, POS_A, ABits)
GETARG_B(x)  == Field(x, POS_B, BBits)
GETARG_C(x)  == Field(x, 0, CBits)
GETARG_Bx(x) == Field(x, 0, SIZE_Bx)

(* A host word; SETARG_ cuts a value to the width of its field. *)
CreateBx(op, a, bx) == RbxNumber[op] * 2 ^ POS_OP + a * 2 ^ POS_A + bx
CreateBC(op, a, b, c) ==
  CreateBx(op, a, (b % 2 ^ BBits) * 2 ^ POS_B + (c % 2 ^ CBits))

------------------------------------------------------------------------------
(* Calls, closures and returns hide all bits but the operation's: as T1 has an
   odd and T2 an even factor, bit n of the word turns bit n of T1 only. *)
T1(x) == ((21306107 % Size) * x - (27776373 % Size)) % Size       \* 0x1451AFB, 0x1A7D575
T2(x, index) == (index - (29799480 % Size) * x) % Size            \* 0x1C6B438
XorBit(x, index, n) == (Bit(T1(x), n) + Bit(T2(x, index), n)) % 2

deobfuscateInstruction(x, index) ==
  LET upto[n \in 0 .. POS_OP] ==
        IF n = 0 THEN Field(x, POS_OP, OpBits) * 2 ^ POS_OP
        ELSE upto[n - 1] + XorBit(x, index, n - 1) * 2 ^ (n - 1)
  IN upto[POS_OP]

obfuscateInstructionFast_AnyOrder(x, index) ==
  LET top == Field(x, POS_OP, OpBits) * 2 ^ POS_OP IN
    top + MapThenSumSet(LAMBDA n : IF XorBit(top, index, n) = Bit(x, n) THEN 0
                                   ELSE 2 ^ n, 0 .. POS_OP - 1)

obfuscateInstructionFast(x, index) ==
  LET upto[n \in 0 .. POS_OP] ==
        IF n = 0 THEN Field(x, POS_OP, OpBits) * 2 ^ POS_OP
        ELSE LET o == upto[n - 1] IN
             IF XorBit(o, index, n - 1) = Bit(x, n - 1) THEN o ELSE o + 2 ^ (n - 1)
  IN upto[POS_OP]

(* The first factor that undoes the key; the search stops short of the last. *)
CrackEncodeKey(key) ==
  LET found == {i \in 0 .. Size - 2 : (i * key) % Size = 1} IN
    IF found = {} THEN 0 ELSE CHOOSE i \in found : \A j \in found : i <= j

(* The host has B and C the other way round; in MOVE it clears the stack unless
   the spare operand is 1. *)
Reordered(x) ==
  LET op == GET_OPCODE(x) IN
    IF op \in WideOps THEN CreateBx(op, GETARG_A(x), GETARG_Bx(x))
    ELSE CreateBC(op, GETARG_A(x), IF op = "MOVE" THEN 1 ELSE GETARG_C(x), GETARG_B(x))

Transpiled(x, index, encodeKey) ==
  LET word == Reordered(x) IN
    ((IF GET_OPCODE(x) \in SpecialOps THEN obfuscateInstructionFast(word, index)
      ELSE word) * encodeKey) % Size

------------------------------------------------------------------------------
(* What the host makes of a word: external, but for deobfuscateInstruction,
   which update.hpp has from it. *)
HostWord(word, index, decodeKey) ==
  LET x == (word * decodeKey) % Size
      op == Field(x, POS_OP, OpBits) IN
    IF \E s \in SpecialOps : RbxNumber[s] = op
    THEN deobfuscateInstruction(x, index) ELSE x

(* The host executes the instruction that the compiler meant. *)
Means(word, index, decodeKey, x) ==
  LET y == HostWord(word, index, decodeKey)
      op == GET_OPCODE(x)
  IN /\ Field(y, POS_OP, OpBits) = RbxNumber[op]
     /\ GETARG_A(y) = GETARG_A(x)
     /\ IF op \in WideOps THEN GETARG_Bx(y) = GETARG_Bx(x)
        ELSE /\ GETARG_C(y) = GETARG_B(x)
             /\ GETARG_B(y) = IF op = "MOVE" THEN 1 ELSE GETARG_C(x)

=============================================================================
