---------------------------- MODULE Word ----------------------------
(* The machine words of the interpreter and the instructions that only
   compute on them (tievm/evm/execute/instructions.go).  The code computes
   with big.Int and cuts results back to 256 bits; here a byte has ByteBits
   bits, a word WordBytes bytes and an int64 IntBits bits.  *)
EXTENDS Integers, Sequences, Bitwise

CONSTANTS ByteBits, WordBytes, IntBits

ASSUME WordAssumption ==
    /\ ByteBits \in Nat \ {0}
    /\ WordBytes \in Nat \ {0}
    /\ IntBits \in Nat \ {0}

WordBits == ByteBits * WordBytes
tt256 == 2 ^ WordBits

(* The two views of a word: the code masks a negative or a long big.Int, and
   reads a word whose top bit is set as a negative number. *)
toU256(x) == x % tt256
to256(x) == IF x >= tt256 \div 2 THEN x - tt256 ELSE x

Abs(x) == IF x < 0 THEN - x ELSE x
Sign(x) == IF x < 0 THEN -1 ELSE IF x = 0 THEN 0 ELSE 1

SDiv(a, b) ==
    IF b = 0 THEN 0
    ELSE LET q == Abs(to256(a)) \div Abs(to256(b))
         IN  toU256(IF Sign(to256(a)) # Sign(to256(b)) THEN - q ELSE q)

SMod(a, b) ==
    IF b = 0 THEN 0
    ELSE LET r == Abs(to256(a)) % Abs(to256(b))
         IN  toU256(IF Sign(to256(a)) < 0 THEN - r ELSE r)

Div(a, b) == IF b = 0 THEN 0 ELSE a \div b
Mod(a, b) == IF b = 0 THEN 0 ELSE a % b

(* opAdd, opMul, opSub: a is the popped operand, b the top of the stack. *)
AddMulSub(op, a, b) ==
    toU256(CASE op = "ADD" -> a + b [] op = "MUL" -> a * b [] op = "SUB" -> a - b)

(* Square and multiply over the bits of y, the low bit first. *)
RECURSIVE ExpLoop(_, _, _)
ExpLoop(z, x, y) ==
    IF y = 0 THEN z
    ELSE ExpLoop(IF y % 2 = 1 THEN toU256(z * x) ELSE z, toU256(x * x), y \div 2)
Exp(x, y) == ExpLoop(1, x, y)

RECURSIVE BitLen(_)
BitLen(x) == IF x = 0 THEN 0 ELSE 1 + BitLen(x \div 2)
ByteLen(x) == (BitLen(x) + ByteBits - 1) \div ByteBits

AddMulMod(op, a, b, m) ==
    IF m = 0 THEN 0 ELSE (IF op = "ADDMOD" THEN a + b ELSE a * b) % m

(* opByte reads its index as an int64 and shifts by an unsigned amount. *)
Int64(x) == LET y == x % 2 ^ IntBits
            IN  IF y >= 2 ^ (IntBits - 1) THEN y - 2 ^ IntBits ELSE y

Rsh(x, n) == IF n >= WordBits THEN 0 ELSE x \div 2 ^ n

Byte(i, y) ==
    LET x == Int64(i) IN
    IF x > WordBytes - 1 THEN 0
    ELSE Rsh(y, ((WordBytes - 1 - x) * ByteBits) % 2 ^ IntBits) % 2 ^ ByteBits

BitOp(op, a, b) ==
    CASE op = "AND" -> a & b [] op = "OR" -> a | b [] op = "XOR" -> a ^^ b

Bool(b) == IF b THEN 1 ELSE 0

Compare(op, a, b) ==
    Bool(CASE op = "EQ"  -> a = b
           [] op = "LT"  -> a < b
           [] op = "GT"  -> a > b
           [] op = "SLT" -> to256(a) < to256(b)
           [] op = "SGT" -> to256(a) > to256(b))

NotZero(op, a) == IF op = "NOT" THEN toU256(-a - 1) ELSE Bool(a = 0)

(* The bits above the sign bit become the sign bit; x | ~mask is the low bits
   minus the value of the sign bit. *)
SignExtend(ext, x) ==
    LET bit == ext * ByteBits + ByteBits - 1 IN
    IF ext > WordBytes THEN x
    ELSE IF (x \div 2 ^ bit) % 2 = 1 THEN toU256((x % 2 ^ bit) - 2 ^ bit)
    ELSE toU256(x % 2 ^ bit)

(* A shift by the word size or more is decided by the length of the amount. *)
Shift(op, n, v) ==
    LET over == BitLen(n) > BitLen(WordBits - 1) IN
    CASE op = "SHL" -> IF over THEN 0 ELSE toU256(v * 2 ^ n)
      [] op = "SHR" -> IF over THEN 0 ELSE v \div 2 ^ n
      [] op = "SAR" -> IF ~over THEN toU256(to256(v) \div 2 ^ n)
                       ELSE IF to256(v) >= 0 THEN 0 ELSE tt256 - 1

(* big.Int.SetBytes and the writing of a word into memory. *)
RECURSIVE SetBytes(_)
SetBytes(s) == IF s = <<>> THEN 0
               ELSE SetBytes(SubSeq(s, 1, Len(s) - 1)) * 2 ^ ByteBits + s[Len(s)]
ToBytes(x) == [i \in 1 .. WordBytes |-> (x \div 2 ^ (ByteBits * (WordBytes - i))) % 2 ^ ByteBits]
=====================================================================
