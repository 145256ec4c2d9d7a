---------------------------- MODULE MCExecutor ----------------------------
(* Small blocks over a few contracts: words of two bytes, addresses of one,
   the real gas prices.  *)
EXTENDS Executor

Contracts == [caller |-> 64, writer |-> 65, reverter |-> 66, killer |-> 67, factory |-> 68,
              static |-> 69, looper |-> 70, reader |-> 71, natives |-> 72, words |-> 73,
              facts |-> 74, copies |-> 75, jumps |-> 76, broken |-> 77, hungry |-> 78,
              guard |-> 79, relay |-> 80, logger |-> 81]

P(n) == <<96, n>>
O(names) == [i \in 1 .. Len(names) |-> Op[names[i]]]
All(parts) == FlattenSeq(parts)

(* Calls of a contract with some gas, value, no input and a result of two bytes. *)
CallOf(a, v, gas) == All(<<P(2), P(0), P(0), P(0), P(v), P(a), <<97, gas \div 256, gas % 256>>, O(<<"CALL">>)>>)
StaticOf(a, gas) == All(<<P(2), P(0), P(0), P(0), P(a), <<97, gas \div 256, gas % 256>>, O(<<"STATICCALL">>)>>)
DelegateOf(op, a) == All(<<P(0), P(0), P(0), P(0), P(a), O(<<"GAS", op>>)>>)

(* Adds one to the word at slot 0 and emits a log. *)
Bump == All(<<P(1), P(0), O(<<"SLOAD", "ADD">>), P(0), O(<<"SSTORE">>), P(7), P(1), P(0), <<161>>>>)
Clear == All(<<P(0), P(0), O(<<"SSTORE">>)>>)
ReturnWord == All(<<P(9), P(0), O(<<"MSTORE">>), P(2), P(0), O(<<"RETURN">>)>>)
RevertWord == All(<<P(9), P(0), O(<<"MSTORE">>), P(2), P(0), O(<<"REVERT">>)>>)
KillTo(a) == All(<<P(a), O(<<"SELFDESTRUCT">>)>>)

(* The init code of a contract whose code is one byte, STOP. *)
InitCode == All(<<P(1), P(0), O(<<"RETURN">>)>>)
StoreInit == All(<<<<97, 96, 1>>, P(0), O(<<"MSTORE">>), <<97, 96, 0>>, P(2), O(<<"MSTORE">>), P(243), P(4), O(<<"MSTORE8">>)>>)
Factory(op, n) == All(<<P(3), P(n), P(0), P(1), O(<<op, "POP">>)>>)

Binary == <<"ADD", "SUB", "AND", "OR", "XOR", "BYTE", "EQ", "LT", "GT", "SLT", "SGT", "SHL", "SHR",
            "SAR", "MUL", "DIV", "SDIV", "MOD", "SMOD", "EXP", "SIGNEXTEND">>
Nullary == <<"ADDRESS", "ORIGIN", "CALLER", "CALLVALUE", "CALLDATASIZE", "CODESIZE", "GASPRICE",
             "PC", "MSIZE", "GAS", "COINBASE", "TIMESTAMP", "NUMBER", "DIFFICULTY", "GASLIMIT">>
Recent == <<"RETURNDATASIZE", "CHAINID">>
Each(ops) == All([i \in 1 .. Len(ops) |-> All(<<P(3), P(200), O(<<ops[i], "POP">>)>>)])
CopyOf(op, n) == All(<<P(n), P(0), P(1), O(<<op>>)>>)

Programs ==
  [caller |-> All(<<CallOf(65, 1, 40000), CallOf(66, 2, 40000), O(<<"POP", "POP">>), ReturnWord>>),
   writer |-> All(<<Bump, ReturnWord>>),
   reverter |-> All(<<Bump, CallOf(67, 0, 9000), RevertWord>>),
   killer |-> KillTo(32),
   factory |-> All(<<StoreInit, Factory("CREATE", 5), Factory("CREATE2", 5), CallOf(163, 1, 3000), Factory("CREATE", 3)>>),
   static |-> All(<<StaticOf(65, 30000), StaticOf(67, 9000), StaticOf(69, 5000), Clear>>),
   looper |-> All(<<Clear, CallOf(70, 1, 60000), Bump>>),
   reader |-> All(<<DelegateOf("DELEGATECALL", 65), P(0), P(0), P(0), P(0), P(1), P(67), O(<<"GAS", "CALLCODE">>)>>),
   natives |-> All(<<CallOf(4, 0, 100), CallOf(2, 1, 100), CallOf(5, 0, 30), CallOf(9, 0, 10), StaticOf(8, 45000)>>),
   words |-> All(<<Each(Binary), Each(<<"ISZERO", "NOT", "MLOAD", "CALLDATALOAD", "SLOAD">>),
                   P(7), Each(<<"ADDMOD">>), P(7), Each(<<"MULMOD">>), P(2), Each(<<"EXP">>)>>),
   facts |-> All(<<O(Nullary), [i \in 1 .. Len(Nullary) |-> Op.POP], O(Recent), P(67),
                   Each(<<"BALANCE", "EXTCODESIZE", "EXTCODEHASH", "BLOCKHASH", "SELFBALANCE">>)>>),
   copies |-> All(<<StaticOf(65, 3000), CallOf(66, 0, 30000), CopyOf("RETURNDATACOPY", 2), CopyOf("CALLDATACOPY", 3),
                    P(4), P(0), P(0), P(66), O(<<"EXTCODECOPY">>), P(4), P(2), O(<<"SHA3">>),
                    P(9), P(1), O(<<"MSTORE8", "RETURNDATASIZE">>), CopyOf("RETURNDATACOPY", 3)>>),
   jumps |-> All(<<P(1), P(6), O(<<"JUMPI", "STOP", "JUMPDEST">>), P(91), P(6), O(<<"DUP1", "SWAP1", "JUMP">>)>>),
   broken |-> All(<<P(91), P(1), O(<<"JUMP">>)>>),
   hungry |-> O(<<"ADDRESS", "ADD">>),
   guard |-> All(<<StaticOf(80, 60000), StaticOf(71, 60000), StaticOf(68, 9000), StaticOf(81, 9000)>>),
   relay |-> All(<<CallOf(65, 0, 30000), CallOf(67, 1, 9000)>>),
   logger |-> All(<<P(7), P(1), P(0), <<161>>>>)]

Account(n, b, code, st) == [nonce |-> n, balance |-> b, code |-> code, storage |-> st]

MCWorld ==
    [a \in {Contracts[n] : n \in DOMAIN Contracts} |->
        LET n == CHOOSE m \in DOMAIN Contracts : Contracts[m] = a
        IN  Account(1, 10, Programs[n], IF n \in {"static", "looper"} THEN (0 :> 5) ELSE <<>>)]
      @@ (32 :> Account(3, 900000, <<>>, <<>>)) @@ (33 :> Account(1, 400000, <<>>, <<>>))
      @@ (128 :> Account(1, 0, <<0>>, <<>>)) @@ (34 :> Account(0, 5000, <<>>, <<>>)) @@ (35 :> Account(0, 1000, <<>>, <<>>))
MCWorlds == {MCWorld}

Tx(from, n, to, v, gas, input) ==
    [from |-> from, nonce |-> n, to |-> to, value |-> v, gas |-> gas, price |-> 1, input |-> input]

To(n, nonce, gas) == Tx(32, nonce, Contracts[n], 1, gas, <<1>>)
Withdraw(v, to) == Tx(33, 1, to, v, 30000, <<7, 15, 70, 141>>)
Gases == {21000, 30000, 45000, 60000, 90000, 130000, 200000}
One == {<<To(n, 3, g)>> : n \in DOMAIN Contracts \ {"guard"}, g \in Gases}
(* Static calls of contracts that call in turn, create and log. *)
Guarded == {<<To("guard", 3, g)>> : g \in {130000, 240000}}
Creations == {<<Tx(32, 3, -1, 5, g, c)>> : g \in {53000, 54000, 80000, 110000},
                 c \in {InitCode, All(<<Bump, RevertWord>>), KillTo(33), All(<<P(4), P(0), O(<<"RETURN">>)>>)}}
Two == {<<To(m, 3, 110000), To(n, 4, g)>> :
          m \in {"looper", "static", "killer", "factory"},
          n \in {"looper", "static", "killer", "reverter", "factory", "caller"}, g \in {60000, 110000}}
Refused == {<<x, To("writer", 3, 100000)>> :
              x \in {To("killer", 5, 60000), To("killer", 3, 260000), Tx(33, 1, 32, 500000, 30000, <<>>),
                     Tx(33, 1, 32, 340000, 60001, <<>>), To("killer", 3, 20000), Tx(33, 1, 32, 1, 30000, <<>>),
                     Withdraw(100, 34), Withdraw(301, 34), Withdraw(100, 32), To("writer", 3, 200000)}}
(* Results at once: a native contract, and a creation at an address in use. *)
AtOnce == {<<Tx(33, 1, 4, 1, 30000, <<1>>)>>, <<Tx(33, 1, -1, 1, 60000, InitCode)>>}
Full == {<<To("killer", 5, 60000), To("writer", 3, 100000), To("looper", 4, 240000)>>}
MCPools == One \cup Guarded \cup Creations \cup Two \cup Refused \cup AtOnce \cup Full

Old == {"Homestead", "EIP150"}
Middle == Old \cup {"EIP155", "EIP158", "Byzantium"}
MCForks == {Middle \cup {"Constantinople", "Petersburg", "Istanbul"}, {}, Old, Middle,
            Middle \cup {"Constantinople"}}

MCContext == [coinbase |-> 33, number |-> 7, time |-> 100, difficulty |-> 7, gasLimit |-> 60000,
              chain |-> 100, origin |-> 0, price |-> 0]
MCKeccak(s) == (FoldSeq(LAMBDA b, h : (h * 31 + b) % 65521, 7, s)) + 1
MCCreateAddress(a, n) == 128 + ((a + 7 * n) % 40)
MCCreateAddress2(a, salt, code) == 168 + ((a + salt + Len(code)) % 40)
MCBlockHash(n) == n + 1000
MCCrypto(a, input) == [ret |-> ToBytes(MCKeccak(input \o <<a>>)), err |-> ""]
(* A process that has seen the last epoch end, and one that was restarted since. *)
MCFeeMemories == {33 :> 300, <<>>}
=====================================================================
