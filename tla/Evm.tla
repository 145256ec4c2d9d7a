---------------------------- MODULE Evm ----------------------------
(* The interpreter of contract code (tievm/evm/execute).  A frame f is one
   running state of the pool of execute.state:
     msg    the contract being called (evm.Contract),
     ip, stack (the top first), mem, last (lastGasCost), gas,
     stop, err, ret, rdata (returnData),
     out    where the result of the pending call goes, None when none is pending.
   An instruction maps a frame, the transaction state and the block's context
   to a record [f, t, call]; `call' is the contract it asks the host to run. *)
EXTENDS Word, Txn, SequencesExt

CONSTANTS AddressBytes,         \* the length of an address, in bytes
          MaxMemory,            \* the largest offset or size of a memory range
          StackSize,            \* the limit of the stack
          Keccak(_),            \* the hash of a sequence of bytes, a word
          CreateAddress(_, _),  \* the address of a contract, from caller and nonce
          BlockHash(_),         \* the hash of a block of the chain, by number
          CreateAddress2(_, _, _)  \* the same from caller, salt and code

-----------------------------------------------------------------------------
(* The instruction set. *)

OpLow ==
    [STOP |-> 0, ADD |-> 1, MUL |-> 2, SUB |-> 3, DIV |-> 4, SDIV |-> 5, MOD |-> 6,
     SMOD |-> 7, ADDMOD |-> 8, MULMOD |-> 9, EXP |-> 10, SIGNEXTEND |-> 11,
     LT |-> 16, GT |-> 17, SLT |-> 18, SGT |-> 19, EQ |-> 20, ISZERO |-> 21,
     AND |-> 22, OR |-> 23, XOR |-> 24, NOT |-> 25, BYTE |-> 26, SHL |-> 27,
     SHR |-> 28, SAR |-> 29, SHA3 |-> 32, ADDRESS |-> 48, BALANCE |-> 49,
     ORIGIN |-> 50, CALLER |-> 51, CALLVALUE |-> 52, CALLDATALOAD |-> 53,
     CALLDATASIZE |-> 54, CALLDATACOPY |-> 55, CODESIZE |-> 56, CODECOPY |-> 57,
     GASPRICE |-> 58, EXTCODESIZE |-> 59, EXTCODECOPY |-> 60, RETURNDATASIZE |-> 61,
     RETURNDATACOPY |-> 62, EXTCODEHASH |-> 63]

OpHigh ==
    [BLOCKHASH |-> 64, COINBASE |-> 65, TIMESTAMP |-> 66, NUMBER |-> 67,
     DIFFICULTY |-> 68, GASLIMIT |-> 69, CHAINID |-> 70, SELFBALANCE |-> 71,
     POP |-> 80, MLOAD |-> 81, MSTORE |-> 82, MSTORE8 |-> 83, SLOAD |-> 84,
     SSTORE |-> 85, JUMP |-> 86, JUMPI |-> 87, PC |-> 88, MSIZE |-> 89, GAS |-> 90,
     JUMPDEST |-> 91, PUSH1 |-> 96, DUP1 |-> 128, SWAP1 |-> 144, LOG0 |-> 160,
     CREATE |-> 240, CALL |-> 241, CALLCODE |-> 242, RETURN |-> 243,
     DELEGATECALL |-> 244, CREATE2 |-> 245, STATICCALL |-> 250, REVERT |-> 253,
     SELFDESTRUCT |-> 255]

Op == OpLow @@ OpHigh
PushOps == 96 .. 127
DupOps == 128 .. 143
SwapOps == 144 .. 159
LogOps == 160 .. 164

(* The rows of the dispatch table: instructions, operands on the stack, gas. *)
Handlers ==
    {<<{"STOP"}, 0, 0>>,
     <<{"ADD", "SUB", "AND", "OR", "XOR", "BYTE", "EQ", "LT", "GT", "SLT", "SGT",
        "SHL", "SHR", "SAR", "MSTORE", "MSTORE8"}, 2, 3>>,
     <<{"MUL", "DIV", "SDIV", "MOD", "SMOD"}, 2, 5>>, <<{"EXP", "JUMPI"}, 2, 10>>,
     <<{"ADDMOD", "MULMOD"}, 3, 8>>, <<{"NOT", "ISZERO", "MLOAD", "CALLDATALOAD"}, 1, 3>>,
     <<{"SIGNEXTEND"}, 1, 5>>, <<{"CREATE"}, 3, 32000>>, <<{"CREATE2"}, 4, 32000>>,
     <<{"CALL", "CALLCODE"}, 7, 0>>, <<{"DELEGATECALL", "STATICCALL"}, 6, 0>>,
     <<{"REVERT", "RETURN", "SSTORE"}, 2, 0>>,
     <<{"SLOAD", "EXTCODEHASH", "BALANCE", "EXTCODESIZE", "SELFDESTRUCT"}, 1, 0>>,
     <<{"SHA3"}, 2, 30>>, <<{"POP"}, 1, 2>>, <<{"SELFBALANCE"}, 0, 5>>,
     <<{"ADDRESS", "ORIGIN", "CALLER", "CALLVALUE", "CALLDATASIZE", "CODESIZE",
        "GASPRICE", "RETURNDATASIZE", "CHAINID", "PC", "MSIZE", "GAS", "COINBASE",
        "TIMESTAMP", "NUMBER", "DIFFICULTY", "GASLIMIT"}, 0, 2>>,
     <<{"EXTCODECOPY"}, 4, 0>>, <<{"CALLDATACOPY", "RETURNDATACOPY", "CODECOPY"}, 3, 3>>,
     <<{"BLOCKHASH"}, 1, 20>>, <<{"JUMP"}, 1, 8>>, <<{"JUMPDEST"}, 0, 1>>}

(* The table itself: the ranges PUSH, DUP, SWAP and LOG check the stack themselves. *)
dispatchTable ==
    LET Named == UNION {{[name |-> n, stack |-> h[2], gas |-> h[3]] : n \in h[1]} : h \in Handlers}
        Range3(ops, name, gas) == [o \in ops |-> [name |-> name, stack |-> 0, gas |-> gas]]
    IN  [o \in {Op[h.name] : h \in Named} |-> CHOOSE h \in Named : Op[h.name] = o]
          @@ Range3(PushOps, "PUSH", 3) @@ Range3(DupOps, "DUP", 3)
          @@ Range3(SwapOps, "SWAP", 3) @@ Range3(LogOps, "LOG", 375)

-----------------------------------------------------------------------------
(* Frames. *)

(* A frame as acquired from the pool, reset, with the contract's code. *)
Start(c) ==
    [msg |-> c, ip |-> 0, stack |-> <<>>, mem |-> <<>>, last |-> 0, gas |-> c.gas,
     stop |-> FALSE, err |-> "", ret |-> <<>>, rdata |-> <<>>, out |-> None]

halt(f) == [f EXCEPT !.stop = TRUE]
exit(f, e) == [f EXCEPT !.stop = TRUE, !.err = e]
Pop(f, n) == [f EXCEPT !.stack = SubSeq(@, n + 1, Len(@))]
Push(f, v) == [f EXCEPT !.stack = <<v>> \o @]
Address(x) == x % 2 ^ (ByteBits * AddressBytes)
IsUint64(x) == x < GasMod

consumeGas(f, g) ==
    IF f.gas < g THEN exit(f, "outOfGas") ELSE [f EXCEPT !.gas = @ - g]

Done(f, t) == [f |-> f, t |-> t, call |-> None]

(* A continuation after a gas charge or a memory check that may have ended the frame. *)
Then(f, r) == IF f.stop THEN f ELSE r

(* The positions of JUMPDEST bytes that are instructions, not operands of a PUSH. *)
RECURSIVE setCode(_, _)
setCode(code, i) ==
    IF i >= Len(code) THEN {}
    ELSE IF code[i + 1] \in PushOps THEN setCode(code, i + code[i + 1] - 96 + 2)
    ELSE (IF code[i + 1] = Op.JUMPDEST THEN {i} ELSE {}) \cup setCode(code, i + 1)

validJumpdest(f, d) == d < Len(f.msg.code) /\ d \in setCode(f.msg.code, 0)

MemoryCost(w) == (3 * w + ((w * w) % GasMod) \div 512) % GasMod
WordsFor(n) == (n + WordBytes - 1) \div WordBytes

(* Grows the memory to hold a range and charges for the growth; an empty range
   is accepted at any offset. *)
checkMemory(f, o, s) ==
    LET w == WordsFor(o + s)
        g == consumeGas([f EXCEPT !.last = MemoryCost(w)], (MemoryCost(w) - f.last) % GasMod)
    IN  IF s = 0 THEN f
        ELSE IF ~IsUint64(o) \/ ~IsUint64(s) \/ o > MaxMemory \/ s > MaxMemory
        THEN exit(f, "gasOverflow")
        ELSE IF Len(f.mem) >= o + s THEN f
        ELSE Then(g, [g EXCEPT !.mem = @ \o [i \in 1 .. w * WordBytes - Len(@) |-> 0]])

get2(f, o, s) == IF s = 0 THEN <<>> ELSE SubSeq(f.mem, o + 1, o + s)

WriteMem(f, o, data) ==
    [f EXCEPT !.mem = [i \in 1 .. Len(@) |->
        IF i > o /\ i <= o + Len(data) THEN data[i - o] ELSE @[i]]]

(* size bytes of input from an offset on, with zeros after its end. *)
setBytes(input, size, off) ==
    [i \in 1 .. size |-> IF off + i <= Len(input) THEN input[off + i] ELSE 0]

-----------------------------------------------------------------------------
(* The instructions. *)

(* opAdd to opSar: operands from the stack, one result; EXP is charged by the
   bytes of its exponent, and SIGNEXTEND runs with a single operand too. *)
Compute(name, f, t) ==
    LET a == f.stack[1]
        b == f.stack[2]
        Two(v) == Push(Pop(f, 2), v)
        gone == name \in {"SHL", "SHR", "SAR"} /\ "Constantinople" \notin t.forks
        e == consumeGas(f, ByteLen(b) * (IF "EIP158" \in t.forks THEN 50 ELSE 10))
    IN  CASE gone -> exit(f, "opCodeNotFound")
          [] name \in {"ADD", "MUL", "SUB"} -> Two(AddMulSub(name, a, b))
          [] name = "DIV" -> Two(Div(a, b))
          [] name = "MOD" -> Two(Mod(a, b))
          [] name = "SDIV" -> Two(SDiv(a, b))
          [] name = "SMOD" -> Two(SMod(a, b))
          [] name \in {"AND", "OR", "XOR"} -> Two(BitOp(name, a, b))
          [] name = "BYTE" -> Two(Byte(a, b))
          [] name \in {"EQ", "LT", "GT", "SLT", "SGT"} -> Two(Compare(name, a, b))
          [] name \in {"NOT", "ISZERO"} -> Push(Pop(f, 1), NotZero(name, a))
          [] name = "EXP" -> Then(e, Push(Pop(e, 2), Exp(a, b)))
          [] name \in {"ADDMOD", "MULMOD"} -> Push(Pop(f, 3), AddMulMod(name, a, b, f.stack[3]))
          [] name = "SIGNEXTEND" -> IF Len(f.stack) = 1 THEN Pop(f, 1) ELSE Two(SignExtend(a, b))
          [] ~gone /\ name \in {"SHL", "SHR", "SAR"} -> Two(Shift(name, a, b))

ComputeOps == {"ADD", "MUL", "SUB", "DIV", "MOD", "SDIV", "SMOD", "AND", "OR", "XOR",
               "BYTE", "EQ", "LT", "GT", "SLT", "SGT", "NOT", "ISZERO", "EXP", "ADDMOD",
               "MULMOD", "SIGNEXTEND", "SHL", "SHR", "SAR"}

(* opMload, opMStore, opMStore8. *)
MemoryOp(name, f) ==
    LET o == f.stack[1]
        g == checkMemory(Pop(f, IF name = "MLOAD" THEN 1 ELSE 2), o,
                         IF name = "MSTORE8" THEN 1 ELSE WordBytes)
    IN  Then(g, CASE name = "MLOAD" -> Push(g, SetBytes(get2(g, o, WordBytes)))
                  [] name = "MSTORE" -> WriteMem(g, o, ToBytes(f.stack[2]))
                  [] name = "MSTORE8" -> WriteMem(g, o, <<f.stack[2] % 2 ^ ByteBits>>))

Price(t, fork1, p1, fork2, p2, p3) ==
    IF fork1 \in t.forks THEN p1 ELSE IF fork2 \in t.forks THEN p2 ELSE p3

opSload(f, t) ==
    LET g == consumeGas(f, Price(t, "Istanbul", 800, "EIP150", 200, 50))
    IN  Then(g, Push(Pop(g, 1), GetState(t, f.msg.addr, f.stack[1])))

(* The state is written before its price is known and charged. *)
opSStore(f, t) ==
    LET r == SetStorage(t, f.msg.addr, f.stack[1], f.stack[2])
        legacy == "Istanbul" \notin t.forks
                    /\ ("Petersburg" \in t.forks \/ "Constantinople" \notin t.forks)
        low == IF "Istanbul" \in t.forks THEN 800 ELSE IF legacy THEN 5000 ELSE 200
        cost == CASE r.status \in {"unchanged", "modifiedAgain"} -> low
                  [] r.status \in {"modified", "deleted"} -> 5000
                  [] r.status = "added" -> 20000
    IN  CASE f.msg.static -> Done(exit(f, "writeProtection"), t)
          [] ~f.msg.static /\ "Istanbul" \in t.forks /\ f.gas <= 2300 ->
               Done(exit(f, "outOfGas"), t)
          [] OTHER -> Done(consumeGas(Pop(f, 2), cost), r.t)

opSha3(f) ==
    LET o == f.stack[1]
        s == f.stack[2]
        m == checkMemory(Pop(f, 2), o, s)
        g == consumeGas(m, WordsFor(s) * 6)
    IN  Then(m, Then(g, Push(g, Keccak(get2(g, o, s)))))

(* The instructions that push a fact about the frame, the transaction, the
   block or an account.  Reading a code fills the cache. *)
Fact(name, f, env) ==
    CASE name = "ADDRESS" -> f.msg.addr
      [] name = "CHAINID" -> env.chain
      [] name = "ORIGIN" -> env.origin
      [] name = "CALLER" -> f.msg.caller
      [] name = "CALLVALUE" -> f.msg.value
      [] name = "CALLDATASIZE" -> Len(f.msg.input)
      [] name = "CODESIZE" -> Len(f.msg.code)
      [] name = "GASPRICE" -> env.price
      [] name = "RETURNDATASIZE" -> Len(f.rdata)
      [] name = "PC" -> f.ip
      [] name = "MSIZE" -> Len(f.mem)
      [] name = "GAS" -> f.gas

BlockFact(name, env) ==
    CASE name = "COINBASE" -> env.coinbase
      [] name = "TIMESTAMP" -> env.time
      [] name = "NUMBER" -> env.number
      [] name = "DIFFICULTY" -> env.difficulty
      [] name = "GASLIMIT" -> env.gasLimit

FactOps == {"ADDRESS", "CHAINID", "ORIGIN", "CALLER", "CALLVALUE", "CALLDATASIZE",
            "CODESIZE", "GASPRICE", "RETURNDATASIZE", "PC", "MSIZE", "GAS"}
BlockOps == {"COINBASE", "TIMESTAMP", "NUMBER", "DIFFICULTY", "GASLIMIT"}

(* CHAINID and RETURNDATASIZE exist from a fork on. *)
pushFact(name, f, t, env) ==
    IF \/ name = "CHAINID" /\ "Istanbul" \notin t.forks
       \/ name = "RETURNDATASIZE" /\ "Byzantium" \notin t.forks
    THEN exit(f, "opCodeNotFound")
    ELSE Push(f, IF name \in FactOps THEN Fact(name, f, env) ELSE BlockFact(name, env))

(* opBalance, opSelfBalance, opExtCodeSize, opExtCodeHash. *)
AccountOp(name, f, t) ==
    LET self == name = "SELFBALANCE"
        a == IF self THEN f.msg.addr ELSE Address(f.stack[1])
        gone == \/ self /\ "Istanbul" \notin t.forks
                \/ name = "EXTCODEHASH" /\ "Constantinople" \notin t.forks
        cost == CASE self -> 0
                  [] name = "BALANCE" -> Price(t, "Istanbul", 700, "EIP150", 400, 20)
                  [] name = "EXTCODESIZE" -> Price(t, "EIP150", 700, "EIP150", 0, 20)
                  [] name = "EXTCODEHASH" -> Price(t, "Istanbul", 700, "EIP150", 400, 400)
        g == consumeGas(IF self THEN f ELSE Pop(f, 1), cost)
    IN  IF gone THEN Done(exit(f, "opCodeNotFound"), t)
        ELSE IF g.stop THEN Done(g, t)
        ELSE IF name = "EXTCODESIZE" THEN Done(Push(g, Len(GetCode(t, a))), AfterGetCode(t, a))
        ELSE Done(Push(g, IF name # "EXTCODEHASH" THEN GetBalance(t, a)
                          ELSE IF Empty(t, a) THEN 0
                          ELSE Keccak(getStateObject(t, a).code)), t)

AccountOps == {"BALANCE", "SELFBALANCE", "EXTCODESIZE", "EXTCODEHASH"}

opCallDataLoad(f) ==
    Push(Pop(f, 1), SetBytes(setBytes(f.msg.input, WordBytes, f.stack[1])))

(* opCallDataCopy, opCodeCopy, opExtCodeCopy: the memory is charged first, then
   the words copied, then the account access. *)
CopyOp(name, f, t) ==
    LET ext == name = "EXTCODECOPY"
        s == IF ext THEN Tail(f.stack) ELSE f.stack
        a == Address(f.stack[1])
        m == checkMemory(Pop(f, IF ext THEN 4 ELSE 3), s[1], s[3])
        c == consumeGas(m, WordsFor(s[3]) * 3)
        g == Then(c, consumeGas(c, IF ~ext THEN 0 ELSE IF "EIP150" \in t.forks THEN 700 ELSE 20))
        from == CASE name = "CALLDATACOPY" -> f.msg.input
                  [] name = "CODECOPY" -> f.msg.code
                  [] ext -> GetCode(t, a)
    IN  IF m.stop THEN Done(m, t)
        ELSE IF g.stop THEN Done(g, t)
        ELSE Done(IF s[3] = 0 THEN g ELSE WriteMem(g, s[1], setBytes(from, s[3], s[2])),
                  IF ext THEN AfterGetCode(t, a) ELSE t)

(* The range must lie inside the returned data.  An empty range beyond the end
   of the memory is not checked, and slicing the memory there panics. *)
opReturnDataCopy(f, t) ==
    LET s == f.stack
        m == checkMemory(Pop(f, 3), s[1], s[3])
        g == consumeGas(m, WordsFor(s[3]) * 3)
    IN  IF "Byzantium" \notin t.forks THEN exit(f, "opCodeNotFound")
        ELSE Then(m, Then(g,
               IF ~IsUint64(s[2] + s[3]) \/ Len(f.rdata) < s[2] + s[3]
               THEN exit(g, "returnDataOutOfBounds")
               ELSE IF s[1] > Len(g.mem) THEN exit(g, "panic")
               ELSE WriteMem(g, s[1], SubSeq(f.rdata, s[2] + 1, s[2] + s[3]))))

opBlockHash(f, env) ==
    LET n == f.stack[1]
    IN  Push(Pop(f, 1), IF n < GasMod \div 2 /\ env.number - 257 < n /\ n < env.number
                        THEN BlockHash(n) ELSE 0)

(* The host's Selfdestruct: the beneficiary is paid before the account's
   balance is cleared. *)
Selfdestruct(t, a, beneficiary) ==
    LET u == IF HasSuicided(t, a) THEN t ELSE AddRefund(t, 24000)
    IN  Suicide(AddBalance(u, beneficiary, GetBalance(u, a)), a)

opSelfDestruct(f, t) ==
    LET a == Address(f.stack[1])
        new == IF "EIP158" \in t.forks
               THEN Empty(t, a) /\ GetBalance(t, f.msg.addr) # 0
               ELSE ~Exist(t, a)
        cost == IF "EIP150" \notin t.forks THEN 0 ELSE IF new THEN 30000 ELSE 5000
        g == consumeGas(Pop(f, 1), cost)
    IN  IF f.msg.static THEN Done(exit(f, "writeProtection"), t)
        ELSE IF g.stop THEN Done(g, t)
        ELSE Done(halt(g), Selfdestruct(t, f.msg.addr, a))

(* opJump and opJumpi leave the instruction before the destination as current. *)
JumpOp(name, f) ==
    LET d == f.stack[1]
        g == Pop(f, IF name = "JUMP" THEN 1 ELSE 2)
    IN  IF name = "JUMPI" /\ f.stack[2] = 0 THEN g
        ELSE IF validJumpdest(f, d) THEN [g EXCEPT !.ip = d - 1]
        ELSE exit(g, "invalidJump")

(* A PUSH cut off by the end of the code is padded by its whole length. *)
opPush(n, f) ==
    LET code == f.msg.code
        data == IF f.ip + 1 + n > Len(code)
                THEN SubSeq(code, f.ip + 2, Len(code)) \o [i \in 1 .. n |-> 0]
                ELSE SubSeq(code, f.ip + 2, f.ip + 1 + n)
    IN  [Push(f, SetBytes(data)) EXCEPT !.ip = @ + n]

opDup(n, f) ==
    IF Len(f.stack) < n THEN exit(f, "stackUnderflow") ELSE Push(f, f.stack[n])

opSwap(n, f) ==
    IF Len(f.stack) < n + 1 THEN exit(f, "stackUnderflow")
    ELSE [f EXCEPT !.stack = [@ EXCEPT ![1] = f.stack[n + 1], ![n + 1] = f.stack[1]]]

(* The log is emitted before its topics and its data are charged. *)
opLog(size, f, t) ==
    LET s == f.stack
        m == checkMemory(Pop(f, 2 + size), s[1], s[2])
        u == EmitLog(t, f.msg.addr, SubSeq(s, 3, 2 + size), get2(m, s[1], s[2]))
        g == consumeGas(m, size * 375)
    IN  IF f.msg.static THEN Done(exit(f, "writeProtection"), t)
        ELSE IF Len(s) < 2 + size THEN Done(exit(f, "stackUnderflow"), t)
        ELSE IF m.stop THEN Done(m, t)
        ELSE Done(Then(g, consumeGas(g, (s[2] * 8) % GasMod)), u)

(* opHalt: RETURN and REVERT. *)
opHalt(name, f, t) ==
    LET m == checkMemory(Pop(f, 2), f.stack[1], f.stack[2])
        r == [m EXCEPT !.ret = get2(m, f.stack[1], f.stack[2])]
    IN  IF name = "REVERT" /\ "Byzantium" \notin t.forks THEN exit(f, "opCodeNotFound")
        ELSE Then(m, IF name = "REVERT" THEN exit(r, "reverted") ELSE halt(r))

-----------------------------------------------------------------------------
(* Calls and creations. *)

Contract(type, f, addr, value, gas, code, input) ==
    [type |-> type, addr |-> addr, codeAddr |-> addr, caller |-> f.msg.addr,
     depth |-> f.msg.depth + 1, value |-> value, gas |-> gas, code |-> code,
     input |-> input, static |-> FALSE]

(* The gas offered to a callee: all but a 64th of what is left at most, computed
   on unsigned numbers before the price itself is charged. *)
Offered(f, t, cost, asked) ==
    LET left == (f.gas - cost) % GasMod
        most == left - left \div 64
    IN  IF "EIP150" \notin t.forks THEN asked
        ELSE IF ~IsUint64(asked) \/ most < asked THEN most ELSE asked

Stipend(transfers) == IF transfers THEN 2300 ELSE 0

(* Mutant: only the call itself counts. *)
IsStaticItself(name, f) == name = "STATICCALL"

(* A static call, and every call below one, is static. *)
IsStatic(name, f) == name = "STATICCALL" \/ f.msg.static

(* buildCallContract, with the result of opCall for a call that is not made. *)
buildCallContract(name, f, t) ==
    LET valued == name \in {"CALL", "CALLCODE"}
        s == IF valued THEN f.stack ELSE SubSeq(f.stack, 1, 2) \o <<0>> \o SubSeq(f.stack, 3, 6)
        a == Address(s[2])
        transfers == valued /\ s[3] # 0
        m == checkMemory(Pop(f, IF valued THEN 7 ELSE 6), s[4], s[5])
        r == Then(m, checkMemory(m, s[6], s[7]))
        new == /\ name = "CALL"
               /\ IF "EIP158" \in t.forks THEN transfers /\ Empty(t, a) ELSE ~Exist(t, a)
        cost == (IF "EIP150" \in t.forks THEN 700 ELSE 40)
                  + (IF new THEN 25000 ELSE 0) + (IF transfers THEN 9000 ELSE 0)
        gas == Offered(r, t, cost, s[1])
        g == IF "EIP150" \notin t.forks /\ ~IsUint64(s[1]) THEN exit(r, "outOfGas")
             ELSE consumeGas(r, (cost + gas) % GasMod)
        c == Contract(name, f, a, s[3], gas + Stipend(transfers), GetCode(t, a),
                      get2(r, s[4], s[5]))
        d == [c EXCEPT !.static = IsStatic(name, f),
                       !.addr = IF name \in {"CALLCODE", "DELEGATECALL"} THEN f.msg.addr ELSE @,
                       !.value = IF name = "DELEGATECALL" THEN f.msg.value ELSE @,
                       !.caller = IF name = "DELEGATECALL" THEN f.msg.caller ELSE @]
        u == AfterGetCode(t, a)
    IN  IF r.stop THEN Done(r, t)
        ELSE IF g.stop THEN Done(g, t)
        ELSE IF transfers /\ GetBalance(t, f.msg.addr) < s[3]
        THEN Done([Push(g, 0) EXCEPT !.gas = @ + d.gas], u)
        ELSE [f |-> [g EXCEPT !.out = [op |-> name, addr |-> d.addr, off |-> s[6], size |-> s[7]]],
              t |-> u, call |-> d]

opCall(name, f, t) ==
    LET g == [f EXCEPT !.rdata = <<>>]
    IN  CASE name = "CALL" /\ f.msg.static /\ f.stack[3] # 0 -> Done(exit(g, "writeProtection"), t)
          [] name = "DELEGATECALL" /\ "Homestead" \notin t.forks -> Done(exit(g, "opCodeNotFound"), t)
          [] name = "STATICCALL" /\ "Byzantium" \notin t.forks -> Done(exit(g, "opCodeNotFound"), t)
          [] OTHER -> buildCallContract(name, g, t)

buildCreateContract(name, f, t) ==
    LET s == f.stack
        two == name = "CREATE2"
        m == checkMemory(Pop(f, IF two THEN 4 ELSE 3), s[2], s[3])
        h == IF two THEN consumeGas(m, WordsFor(s[3]) * 6) ELSE m
        gas == IF two \/ "EIP150" \in t.forks THEN h.gas - h.gas \div 64 ELSE h.gas
        input == get2(m, s[2], s[3])
        a == Address(IF two THEN CreateAddress2(f.msg.addr, s[4], input)
                     ELSE CreateAddress(f.msg.addr, GetNonce(t, f.msg.addr)))
        c == Contract("CREATE", f, a, s[1], gas, input, <<>>)
    IN  IF m.stop THEN Done(m, t)
        ELSE IF s[1] # 0 /\ GetBalance(t, f.msg.addr) < s[1] THEN Done(Push(m, 0), t)
        ELSE IF h.stop THEN Done(h, t)
        ELSE [f |-> [consumeGas(h, gas) EXCEPT !.out = [op |-> name, addr |-> a, off |-> 0, size |-> 0]],
              t |-> t, call |-> c]

opCreate(name, f, t) ==
    CASE f.msg.static -> Done(exit(f, "writeProtection"), t)
      [] ~f.msg.static /\ name = "CREATE2" /\ "Constantinople" \notin t.forks ->
           Done(exit(f, "opCodeNotFound"), t)
      [] OTHER -> buildCreateContract(name, [f EXCEPT !.rdata = <<>>], t)

(* The end of every instruction in the loop of Run. *)
NextInstruction(f) ==
    IF Len(f.stack) > StackSize THEN exit(f, "stackOverflow") ELSE [f EXCEPT !.ip = @ + 1]

(* The rest of opCreate, with the result of the creation. *)
AfterCreate(f, t, res) ==
    LET kept == IF res.err = "codeStoreOutOfGas"
                THEN ~(f.out.op = "CREATE" /\ "Homestead" \in t.forks) ELSE res.err = ""
        g == Push(f, IF kept THEN f.out.addr ELSE 0)
    IN  [g EXCEPT !.gas = @ + res.gas, !.out = None,
                  !.rdata = IF res.err = "reverted" THEN res.ret ELSE @]

(* The rest of opCall: what fits of the returned data goes to the memory. *)
AfterCall(f, res) ==
    LET g == [Push(f, IF res.err = "" THEN 1 ELSE 0) EXCEPT
                 !.gas = @ + res.gas, !.rdata = res.ret, !.out = None]
        fits == IF Len(res.ret) < f.out.size THEN res.ret ELSE SubSeq(res.ret, 1, f.out.size)
    IN  IF res.err \notin {"", "reverted"} \/ res.ret = <<>> THEN g
        ELSE IF f.out.off > Len(f.mem) THEN exit(g, "panic")
        ELSE WriteMem(g, f.out.off, fits)

Resume(f, t, res) ==
    NextInstruction(IF f.out.op \in {"CREATE", "CREATE2"} THEN AfterCreate(f, t, res)
                    ELSE AfterCall(f, res))

-----------------------------------------------------------------------------
(* One turn of the loop of Run. *)

Execute(name, op, f, t, env) ==
    CASE name = "STOP" -> Done(halt(f), t)
      [] name \in ComputeOps -> Done(Compute(name, f, t), t)
      [] name \in {"MLOAD", "MSTORE", "MSTORE8"} -> Done(MemoryOp(name, f), t)
      [] name = "SLOAD" -> Done(opSload(f, t), t)
      [] name = "SSTORE" -> opSStore(f, t)
      [] name = "SHA3" -> Done(opSha3(f), t)
      [] name = "POP" -> Done(Pop(f, 1), t)
      [] name \in FactOps \cup BlockOps -> Done(pushFact(name, f, t, env), t)
      [] name \in AccountOps -> AccountOp(name, f, t)
      [] name = "CALLDATALOAD" -> Done(opCallDataLoad(f), t)
      [] name \in {"CALLDATACOPY", "CODECOPY", "EXTCODECOPY"} -> CopyOp(name, f, t)
      [] name = "RETURNDATACOPY" -> Done(opReturnDataCopy(f, t), t)
      [] name = "BLOCKHASH" -> Done(opBlockHash(f, env), t)
      [] name = "SELFDESTRUCT" -> opSelfDestruct(f, t)
      [] name \in {"JUMP", "JUMPI"} -> Done(JumpOp(name, f), t)
      [] name = "JUMPDEST" -> Done(f, t)
      [] name = "PUSH" -> Done(opPush(op - 95, f), t)
      [] name = "DUP" -> Done(opDup(op - 127, f), t)
      [] name = "SWAP" -> Done(opSwap(op - 143, f), t)
      [] name = "LOG" -> opLog(op - 160, f, t)
      [] name \in {"CREATE", "CREATE2"} -> opCreate(name, f, t)
      [] name \in {"CALL", "CALLCODE", "DELEGATECALL", "STATICCALL"} -> opCall(name, f, t)
      [] name \in {"RETURN", "REVERT"} -> Done(opHalt(name, f, t), t)

Stepped(r) == IF r.call # None THEN r ELSE [r EXCEPT !.f = NextInstruction(@)]

Step(f, t, env) ==
    LET op == f.msg.code[f.ip + 1]
        h == dispatchTable[op]
        g == consumeGas(f, h.gas)
    IN  CASE f.ip >= Len(f.msg.code) -> Done(halt(f), t)
          [] f.ip < Len(f.msg.code) /\ op \notin DOMAIN dispatchTable ->
               Done(exit(f, "opCodeNotFound"), t)
          [] OTHER -> IF Len(f.stack) < h.stack THEN Done(exit(f, "stackUnderflow"), t)
                      ELSE IF g.stop THEN Done(g, t)
                      ELSE Stepped(Execute(h.name, op, g, t, env))

(* What EVM.Run hands back: an error other than a revert leaves no gas. *)
Result(f) ==
    [ret |-> f.ret, err |-> f.err,
     gas |-> IF f.err \notin {"", "reverted"} THEN 0 ELSE f.gas]
=====================================================================
