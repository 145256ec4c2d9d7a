---------------------------- MODULE Precompiled ----------------------------
(* The contracts that are part of the node (tievm/evm/precompiled): which of
   them a fork knows, what they cost and what they return.  The results of the
   cryptographic ones come from libraries. *)
EXTENDS Word, SequencesExt

CONSTANTS Uint64Mod,      \* a gas price is capped below Uint64Mod
          Crypto(_, _)    \* contract and input to [ret, err]: hashes, curves

CanRun(a, forks) ==
    /\ a \in 1 .. 9
    /\ a \in 5 .. 8 => "Byzantium" \in forks
    /\ a = 9 => "Istanbul" \in forks

(* Precompiled.get: the first size bytes of the input, zeros after its end. *)
Taken(input, size) == [i \in 1 .. size |-> IF i <= Len(input) THEN input[i] ELSE 0]
Rest(input, size) == SubSeq(input, size + 1, Len(input))
Number(input, size) == SetBytes(Taken(input, size))

baseGasCalc(input, base, word) == base + ((Len(input) + WordBytes - 1) \div WordBytes) * word

subMul(x, a, b, c) == (x * x) \div a + b * x - c

multComplexity(x) ==
    IF x <= 64 THEN x * x
    ELSE IF x <= 1024 THEN subMul(x, 4, 96, 3072) ELSE subMul(x, 16, 480, 199680)

adjustedExponentLength(expLen, head) ==
    LET bits == IF head = 0 THEN 0 ELSE BitLen(head) - 1
    IN  IF expLen <= WordBytes THEN bits ELSE (expLen - WordBytes) * ByteBits + bits

ModExpLengths(input) ==
    [base |-> Number(input, WordBytes),
     exp |-> Number(Rest(input, WordBytes), WordBytes),
     mod |-> Number(Rest(input, 2 * WordBytes), WordBytes),
     data |-> Rest(input, 3 * WordBytes)]

modExpGas(input) ==
    LET l == ModExpLengths(input)
        head == IF l.base < Len(l.data)
                THEN Number(Rest(l.data, l.base), IF l.exp < WordBytes THEN l.exp ELSE WordBytes)
                ELSE 0
        adj == adjustedExponentLength(l.exp, head)
        cost == (multComplexity(IF l.mod >= l.base THEN l.mod ELSE l.base)
                    * (IF adj >= 1 THEN adj ELSE 1)) \div 20
    IN  IF cost < Uint64Mod THEN cost ELSE Uint64Mod - 1

RECURSIVE PowMod(_, _, _)
PowMod(b, e, m) == IF e = 0 THEN 1 % m ELSE (b * PowMod(b, e - 1, m)) % m

modExpRun(input) ==
    LET l == ModExpLengths(input)
        base == Number(l.data, l.base)
        exp == Number(Rest(l.data, l.base), l.exp)
        mod == Number(Rest(l.data, l.base + l.exp), l.mod)
        x == IF mod = 0 THEN 0 ELSE PowMod(base, exp, mod)
    IN  IF l.base = 0 /\ l.mod = 0 THEN <<>>
        ELSE [i \in 1 .. l.mod |-> (x \div 2 ^ (ByteBits * (l.mod - i))) % 2 ^ ByteBits]

(* The prices: ecrecover, sha256, ripemd160 and identity; the curve operations
   by fork; blake2f by the rounds its input asks for. *)
BaseGas(a, input) ==
    CASE a = 1 -> 3000
      [] a = 2 -> baseGasCalc(input, 60, 12)
      [] a = 3 -> baseGasCalc(input, 600, 120)
      [] a = 4 -> baseGasCalc(input, 15, 3)

CurveGas(a, input, forks) ==
    LET pairs == Len(input) \div (6 * WordBytes) IN
    IF "Istanbul" \in forks
    THEN CASE a = 6 -> 150 [] a = 7 -> 6000 [] a = 8 -> 45000 + 34000 * pairs
    ELSE CASE a = 6 -> 500 [] a = 7 -> 40000 [] a = 8 -> 100000 + 80000 * pairs

Blake2fLen == 213
blake2fGas(input) == IF Len(input) # Blake2fLen THEN 0 ELSE SetBytes(SubSeq(input, 1, 4))

GasOf(a, input, forks) ==
    CASE a \in 1 .. 4 -> BaseGas(a, input)
      [] a = 5 -> modExpGas(input)
      [] a \in 6 .. 8 -> CurveGas(a, input, forks)
      [] a = 9 -> blake2fGas(input)

(* The checks the contracts make before they call the library. *)
PairingRun(input) ==
    IF input = <<>> THEN [ret |-> Taken(<<>>, WordBytes - 1) \o <<1>>, err |-> ""]
    ELSE IF Len(input) % (6 * WordBytes) # 0 THEN [ret |-> <<>>, err |-> "badSize"]
    ELSE Crypto(8, input)

blake2fRun(input) ==
    IF Len(input) # Blake2fLen \/ input[Blake2fLen] \notin {0, 1}
    THEN [ret |-> <<>>, err |-> "badInput"] ELSE Crypto(9, input)

RunOf(a, input) ==
    CASE a \in {1, 2, 3, 6, 7} -> Crypto(a, input)
      [] a = 4 -> [ret |-> input, err |-> ""]
      [] a = 5 -> [ret |-> modExpRun(input), err |-> ""]
      [] a = 8 -> PairingRun(input)
      [] a = 9 -> blake2fRun(input)

(* Precompiled.Run: a failure takes all the gas. *)
RunPrecompiled(a, input, gas, forks) ==
    LET cost == GasOf(a, input, forks)
        r == RunOf(a, input)
    IN  IF gas < cost THEN [ret |-> <<>>, err |-> "outOfGas", gas |-> 0]
        ELSE IF r.err # "" THEN [ret |-> <<>>, err |-> r.err, gas |-> 0]
        ELSE [ret |-> r.ret, err |-> "", gas |-> gas - cost]
=====================================================================
