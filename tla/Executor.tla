---------------------------- MODULE Executor ----------------------------
(* The execution of the transactions of a block (state/executor.go,
   state/fee_pool.go, state/reward_lock.go and writeTransactions of
   consensus/pvbft/ibft.go): a proposer builds a block from its pool, and the
   block it built, or one that came from elsewhere, is processed from the same
   parent state.  One step runs one instruction of the interpreter, enters a
   call or leaves one.

   A transaction is a record [from, nonce, to (Nil to create), value, gas,
   price, input]; transactions wait in todo in the order of the pool or of the
   block. *)
EXTENDS Evm, Precompiled

CONSTANTS GasLimit,      \* the gas limit of the block
          MaxDepth,      \* the limit on nested calls
          MaxCodeSize,   \* the limit on the code of a contract
          Miner,         \* the proposer's account
          FeePool,       \* the account that gets the fees
          RewardPool,    \* the account that block rewards are paid from
          Reward,        \* the reward of the block
          FeeMemories,   \* what a process may remember of fees: validator to what it may withdraw
          Context,       \* the block's context: coinbase, number, ...
          Worlds, Pools, ForkSets   \* the parent states, pools and forks looked at

VARIABLES world,     \* the accounts of the parent block's trie
          forks,     \* the forks of the block
          mode,      \* "build", then "process"
          phase,     \* "next" transaction, "run"ning one, "reward", "done" or "panic"
          todo,      \* the transactions still to be written
          tr,        \* the Transition: [t, pool, total, receipts]
          tx,        \* the transaction that runs, and
          origin,    \* the state before it
          frames,    \* the frames of its calls, the innermost first
          tag,       \* RewardLock: the reward transactions of this block so far
          fees,      \* ValidatorFee of the process that runs the transactions, and
          taximeter, \* what is left of the fees in total
          txs,       \* the transactions written so far
          built,     \* what the proposer built: [txs, receipts, total, pool, world, fees]
          lost       \* history: an account has destroyed itself
vars == <<world, forks, mode, phase, todo, tr, tx, origin, frames, tag, fees, taximeter,
          txs, built, lost>>

(* ValidatorFee is memory of a process: the ends of the epochs it has seen fill
   it, and a restart empties it. *)
SetValidatorFees(memory) == FoldSet(LAMBDA v, n : n + memory[v], 0, DOMAIN memory)
IsHaveReward(v) == v \in DOMAIN fees /\ fees[v] > 0

(* RewardLock: a reward transaction is counted, and building cleans the count. *)
TagCount(n, cleaned) == IF cleaned THEN 0 ELSE n + 1

BeginTxn(w, fs) ==
    [t |-> NewTxn(w, fs), pool |-> GasLimit, total |-> 0, receipts |-> <<>>]

Init ==
    /\ world \in Worlds
    /\ forks \in ForkSets
    /\ todo \in Pools
    /\ mode \in {"build", "process"}
    /\ phase = "next"
    /\ tr = BeginTxn(world, forks)
    /\ tx = None /\ origin = None
    /\ frames = <<>>
    /\ tag = 0
    /\ fees \in FeeMemories
    /\ taximeter = SetValidatorFees(fees)
    /\ txs = <<>>
    /\ built = None
    /\ lost = FALSE

-----------------------------------------------------------------------------
(* What a transaction is. *)

Nibbles(s) == [i \in 1 .. 2 * Len(s) |->
                  IF i % 2 = 1 THEN s[(i + 1) \div 2] \div 16 ELSE s[i \div 2] % 16]
WithdrawFeeMethod == <<0, 7, 0, 15, 4, 6, 8, 13>>
FixedRewardMethod == <<5, 7, 3, 0, 5, 9, 2, 0>>
Holds(input, method) ==
    \E i \in 0 .. 2 * Len(input) - Len(method) : SubSeq(Nibbles(input), i + 1, i + Len(method)) = method

Nil == -1
IsContractCreation(x) == x.to = Nil
IsWithdrawFee(x) == Holds(x.input, WithdrawFeeMethod)
IsFixedRewardTx(x) == Holds(x.input, FixedRewardMethod)
ExceedsBlockGasLimit(x) == x.gas > GasLimit

(* Intrinsic gas, by kind and by the bytes of the input. *)
TransactionGasCost(x) ==
    LET zeros == Cardinality({i \in 1 .. Len(x.input) : x.input[i] = 0})
    IN  (IF IsContractCreation(x) /\ "Homestead" \in forks THEN 53000 ELSE 21000)
          + (Len(x.input) - zeros) * (IF "Istanbul" \in forks THEN 16 ELSE 68) + zeros * 4

GasLeft(x) == (x.gas - TransactionGasCost(x)) % GasMod

-----------------------------------------------------------------------------
(* Calls: applyCall and applyCreate up to the start of the code, and after it.
   Entering gives a state and either a frame or, at once, a result. *)

Failure(err, gas) == [ret |-> <<>>, err |-> err, gas |-> gas]
Entered(t, f, res) == [t |-> t, frame |-> f, res |-> res]

CanTransfer(t, from, n) == CanSub(t, from, n)
transfer(t, from, to, n) == AddBalance(SubBalance(t, from, n), to, n)

(* Transition.run: a precompiled contract answers at once. *)
run(c, t, snap) ==
    IF CanRun(c.codeAddr, t.forks)
    THEN LET r == RunPrecompiled(c.codeAddr, c.input, c.gas, t.forks)
         IN  Entered(IF r.err # "" THEN RevertToSnapshot(t, snap) ELSE t, None, r)
    ELSE Entered(t, [f |-> Start(c), snap |-> snap], None)

applyCall(c, t) ==
    LET u == TouchAccount(t, c.addr)
    IN  IF c.depth > MaxDepth + 1 THEN Entered(t, None, Failure("depth", c.gas))
        ELSE IF c.type # "CALL" THEN run(c, u, Snapshot(t))
        ELSE IF ~CanTransfer(u, c.caller, c.value)
        THEN Entered(u, None, Failure("insufficientBalance", c.gas))
        ELSE run(c, transfer(u, c.caller, c.addr, c.value), Snapshot(t))

hasCodeOrNonce(t, a) == Exist(t, a) /\ (GetNonce(t, a) # 0 \/ getStateObject(t, a).code # <<>>)

applyCreate(c, t) ==
    LET u == IncrNonce(t, c.caller)
        v == IF "EIP158" \in t.forks THEN IncrNonce(CreateAccount(u, c.addr), c.addr) ELSE u
    IN  IF c.depth > MaxDepth + 1 THEN Entered(t, None, Failure("depth", c.gas))
        ELSE IF hasCodeOrNonce(u, c.addr) THEN Entered(u, None, Failure("collision", 0))
        ELSE IF ~CanTransfer(v, c.caller, c.value)
        THEN Entered(v, None, Failure("insufficientBalance", c.gas))
        ELSE run(c, transfer(v, c.caller, c.addr, c.value), Snapshot(u))

Callx(c, t) == IF c.type = "CREATE" THEN applyCreate(c, t) ELSE applyCall(c, t)

(* A created contract pays for its code before it is stored. *)
Leave(fr, t) ==
    LET r == Result(fr.f)
        back == RevertToSnapshot(t, fr.snap)
        cost == Len(r.ret) * 200
    IN  IF r.err # "" THEN [t |-> back, res |-> r]
        ELSE IF fr.f.msg.type # "CREATE" THEN [t |-> t, res |-> r]
        ELSE IF "EIP158" \in t.forks /\ Len(r.ret) > MaxCodeSize
        THEN [t |-> back, res |-> Failure("maxCodeSize", 0)]
        ELSE IF r.gas >= cost
        THEN [t |-> SetCode(t, fr.f.msg.addr, r.ret), res |-> [r EXCEPT !.gas = @ - cost]]
        ELSE IF "Homestead" \in t.forks
        THEN [t |-> back, res |-> Failure("codeStoreOutOfGas", 0)]
        ELSE [t |-> t, res |-> Failure("codeStoreOutOfGas", r.gas)]

-----------------------------------------------------------------------------
(* Transactions. *)

(* The checks of apply, in their order; "" when the transaction may run. *)
Refusal(x) ==
    LET t == tr.t
        paid == SubBalance(t, x.from, x.price * x.gas)
    IN  IF GetNonce(t, x.from) # x.nonce THEN "nonce"
        ELSE IF ~CanSub(t, x.from, x.price * x.gas) THEN "fundsForGas"
        ELSE IF tr.pool < x.gas THEN "blockLimitReached"
        ELSE IF TransactionGasCost(x) >= GasMod THEN "intrinsicOverflow"
        ELSE IF ~IsFixedRewardTx(x) /\ GasLeft(x) > x.gas THEN "intrinsicGas"
        ELSE IF ~IsFixedRewardTx(x) /\ GetBalance(paid, x.from) < x.value THEN "funds"
        ELSE IF IsContractCreation(x) THEN ""
        ELSE IF IsWithdrawFee(x)
        THEN IF /\ IsHaveReward(x.from) /\ x.to = FeePool
                /\ fees[x.from] >= x.value /\ CanTransfer(paid, FeePool, x.value)
             THEN "" ELSE "withdraw"
        ELSE IF IsFixedRewardTx(x)
        THEN IF tag <= 1 /\ CanTransfer(paid, x.to, x.value) THEN "" ELSE "reward"
        ELSE ""

(* Mutant: the gas of every refused transaction is added to the pool. *)
PoolRefunded(x) == tr.pool + x.gas

(* A refused transaction leaves no trace in the state, but the checks that come
   after the pool was charged do not give the gas back to the pool. *)
PoolAfterRefusal(x) ==
    IF Refusal(x) \in {"nonce", "fundsForGas", "blockLimitReached"} THEN tr.pool ELSE tr.pool - x.gas

(* Mutant: the sender pays only for the gas beyond the intrinsic cost. *)
PaidForRest(x) == [tr EXCEPT !.t = SubBalance(@, x.from, x.price * GasLeft(x)), !.pool = @ - x.gas]

(* The upfront payment, and the pool's. *)
Paid(x) == [tr EXCEPT !.t = SubBalance(@, x.from, x.price * x.gas), !.pool = @ - x.gas]

UpdateGasUsed(gas, left, refund) ==
    LET used == (gas - left) % GasMod
        back == IF refund > used \div 2 THEN used \div 2 ELSE refund
    IN  [used |-> used - back, left |-> left + back]

Receipt(x, used, total, failed, logs) ==
    [tx |-> x, used |-> used, total |-> total, failed |-> failed, logs |-> logs,
     addr |-> IF IsContractCreation(x) THEN CreateAddress(x.from, x.nonce) ELSE Nil]

(* The end of apply and the rest of Write: the gas left is paid back, the fee
   goes to the fee pool, and the next transaction starts without the accounts
   that are gone, on a committed state before Byzantium. *)
Finished(x, u, res) ==
    LET g == UpdateGasUsed(x.gas, res.gas, u.t.refund)
        t == AddBalance(AddBalance(u.t, x.from, g.left * x.price), FeePool, g.used * x.price)
        quiet == [t EXCEPT !.logs = <<>>]
        total == u.total + g.used
    IN  [t |-> IF "Byzantium" \in forks THEN CleanDeleteObjects(quiet, TRUE)
               ELSE NewTxn(Commit(quiet, "EIP155" \in forks), forks),
         pool |-> u.pool + g.left, total |-> total,
         receipts |-> Append(u.receipts, Receipt(x, g.used, total, res.err # "", t.logs))]

Rewarding == phase = "reward"
Current == Head(todo)
Begins(x) ==
    /\ phase \in {"next", "reward"}
    /\ todo # <<>>
    /\ Rewarding \/ ~ExceedsBlockGasLimit(x)

(* The proposer's own reward transaction; its nonce is read from the parent state. *)
rewardTx ==
    [from |-> Miner, nonce |-> GetNonce(NewTxn(world, forks), Miner), to |-> RewardPool,
     value |-> Reward, gas |-> 21000, price |-> 0, input |-> <<87, 48, 89, 32>>]

(* What follows a transaction: the next one, the reward of the block, the end. *)
After(rest) ==
    /\ todo' = IF rest = <<>> /\ mode = "build" /\ ~Rewarding THEN <<rewardTx>> ELSE rest
    /\ phase' = IF rest # <<>> THEN "next"
                ELSE IF mode = "build" /\ ~Rewarding THEN "reward" ELSE "commit"

Written(x, u, res) ==
    /\ tr' = Finished(x, u, res)
    /\ txs' = Append(txs, x)
    /\ tx' = None /\ origin' = None
    /\ frames' = <<>>
    /\ After(Tail(todo))

(* writeTransactions stops at the first transaction the block has no room for,
   drops any other refused one, and leaves the reward out when it is refused. *)
RefuseTx ==
    LET x == Current IN
    /\ Begins(x)
    /\ mode = "build"
    /\ Refusal(x) # ""
    /\ tr' = [tr EXCEPT !.pool = PoolAfterRefusal(x)]
    /\ After(IF Refusal(x) = "blockLimitReached" THEN <<>> ELSE Tail(todo))
    /\ UNCHANGED <<world, forks, mode, tx, origin, frames, tag, fees, taximeter, txs, built, lost>>

(* ProcessBlock gives up on the block. *)
RejectBlock ==
    /\ Begins(Current)
    /\ mode = "process"
    /\ Refusal(Current) # ""
    /\ phase' = "rejected"
    /\ UNCHANGED <<world, forks, mode, todo, tr, tx, origin, frames, tag, fees, taximeter, txs, built, lost>>

(* A transaction with more gas than a block can have is written as failed. *)
WriteFailedReceipt ==
    LET x == Current IN
    /\ phase = "next" /\ todo # <<>>
    /\ ExceedsBlockGasLimit(x)
    /\ tr' = [tr EXCEPT !.t.logs = <<>>,
                        !.receipts = Append(@, Receipt(x, 0, tr.total, TRUE, tr.t.logs))]
    /\ txs' = Append(txs, x)
    /\ After(Tail(todo))
    /\ UNCHANGED <<world, forks, mode, tx, origin, frames, tag, fees, taximeter, built, lost>>

(* A validator takes fees out of the fee pool; all the gas is used. *)
WithdrawTxFee ==
    LET x == Current
        u == Paid(x) IN
    /\ Begins(x)
    /\ Refusal(x) = "" /\ ~IsContractCreation(x) /\ IsWithdrawFee(x)
    /\ Written(x, [u EXCEPT !.t = IncrNonce(transfer(@, FeePool, x.from, x.value), x.from)],
               [ret |-> <<>>, err |-> "", gas |-> 0])
    /\ taximeter' = taximeter - x.value
    /\ UNCHANGED <<world, forks, mode, tag, fees, built, lost>>

(* The reward moves from the addressed pool to the sender, twice per block at
   most; building cleans the counter once the reward is written. *)
SendFixedReward ==
    LET x == Current
        u == Paid(x) IN
    /\ Begins(x)
    /\ Refusal(x) = "" /\ ~IsContractCreation(x) /\ ~IsWithdrawFee(x) /\ IsFixedRewardTx(x)
    /\ Written(x, [u EXCEPT !.t = IncrNonce(transfer(@, x.to, x.from, x.value), x.from)],
               [ret |-> <<>>, err |-> "", gas |-> 0])
    /\ tag' = TagCount(tag, Rewarding)
    /\ UNCHANGED <<world, forks, mode, fees, taximeter, built, lost>>

(* The outermost call or creation: it runs, or has its result at once. *)
Launch(x, u, e) ==
    IF e.res # None THEN Written(x, [u EXCEPT !.t = e.t], e.res)
    ELSE /\ tr' = [u EXCEPT !.t = e.t]
         /\ tx' = x
         /\ origin' = tr.t
         /\ frames' = <<e.frame>>
         /\ phase' = "run"
         /\ UNCHANGED <<todo, txs>>

TopContract(x, a, code, input, type) ==
    [type |-> type, addr |-> a, codeAddr |-> a, caller |-> x.from, depth |-> 1,
     value |-> x.value, gas |-> GasLeft(x), code |-> code, input |-> input, static |-> FALSE]

Create2 ==
    LET x == Current
        u == Paid(x)
        a == CreateAddress(x.from, GetNonce(u.t, x.from)) IN
    /\ Begins(x)
    /\ Refusal(x) = "" /\ IsContractCreation(x)
    /\ Launch(x, u, applyCreate(TopContract(x, a, x.input, <<>>, "CREATE"), u.t))
    /\ UNCHANGED <<world, forks, mode, tag, fees, taximeter, built, lost>>

Call2 ==
    LET x == Current
        u == Paid(x)
        t == AfterGetCode(IncrNonce(u.t, x.from), x.to) IN
    /\ Begins(x)
    /\ Refusal(x) = "" /\ ~IsContractCreation(x) /\ ~IsWithdrawFee(x) /\ ~IsFixedRewardTx(x)
    /\ Launch(x, u, applyCall(TopContract(x, x.to, GetCode(t, x.to), x.input, "CALL"), t))
    /\ UNCHANGED <<world, forks, mode, tag, fees, taximeter, built, lost>>

-----------------------------------------------------------------------------
(* The interpreter's loop, one instruction at a time. *)

Top == Head(frames)
Env == [Context EXCEPT !.origin = tx.from, !.price = tx.price]
Running == phase = "run" /\ Top.f.err # "panic"

(* The innermost frame is done: its result goes to its caller, or ends the transaction. *)
Left(l) ==
    IF Len(frames) = 1 THEN Written(tx, [tr EXCEPT !.t = l.t], l.res)
    ELSE /\ tr' = [tr EXCEPT !.t = l.t]
         /\ frames' = <<[frames[2] EXCEPT !.f = Resume(@, l.t, l.res)]>> \o SubSeq(frames, 3, Len(frames))
         /\ UNCHANGED <<phase, todo, tx, origin, txs>>

ReturnFrame ==
    /\ Running
    /\ Top.f.stop
    /\ Left(Leave(Top, tr.t))
    /\ UNCHANGED <<world, forks, mode, tag, fees, taximeter, built, lost>>

(* One instruction; a call goes through Callx of the host, and when that has its
   result without running code the instruction ends with it. *)
Moved(t, top) == tr' = [tr EXCEPT !.t = t] /\ frames' = top \o Tail(frames)

Enter(f, e) ==
    Moved(e.t, IF e.res # None THEN <<[Top EXCEPT !.f = Resume(f, e.t, e.res)]>>
               ELSE <<e.frame, [Top EXCEPT !.f = f]>>)

Advance(r) ==
    /\ IF r.call = None THEN Moved(r.t, <<[Top EXCEPT !.f = r.f]>>) ELSE Enter(r.f, Callx(r.call, r.t))
    /\ lost' = (lost \/ \E a \in DOMAIN r.t.objs : r.t.objs[a].suicide)

StepFrame ==
    /\ Running
    /\ ~Top.f.stop
    /\ Advance(Step(Top.f, tr.t, Env))
    /\ UNCHANGED <<world, forks, mode, phase, todo, tx, origin, tag, fees, taximeter, txs, built>>

(* The proposer's block: its transactions, receipts, gas used and state root.  It
   is processed next, by this process or by one that remembers other fees. *)
BuildBlock ==
    /\ phase = "commit" /\ mode = "build"
    /\ built' = [txs |-> txs, receipts |-> tr.receipts, total |-> tr.total, pool |-> tr.pool,
                 world |-> Commit(tr.t, "EIP155" \in forks), fees |-> fees]
    /\ fees' \in FeeMemories
    /\ taximeter' = IF fees' = fees THEN taximeter ELSE SetValidatorFees(fees')
    /\ mode' = "process"
    /\ phase' = IF txs = <<>> THEN "commit" ELSE "next"
    /\ todo' = txs
    /\ tr' = BeginTxn(world, forks)
    /\ txs' = <<>>
    /\ UNCHANGED <<world, forks, tx, origin, frames, tag, lost>>

(* The end of ProcessBlock. *)
ProcessBlock ==
    /\ phase = "commit" /\ mode = "process"
    /\ tag' = 0
    /\ phase' = "done"
    /\ UNCHANGED <<world, forks, mode, todo, tr, tx, origin, frames, fees, taximeter, txs, built, lost>>

Next ==
    \/ RefuseTx \/ RejectBlock \/ WriteFailedReceipt
    \/ WithdrawTxFee \/ SendFixedReward \/ Create2 \/ Call2
    \/ StepFrame \/ ReturnFrame
    \/ BuildBlock \/ ProcessBlock

Spec == Init /\ [][Next]_vars /\ WF_vars(Next)

-----------------------------------------------------------------------------
(* Properties. *)

Balances(t) ==
    LET at == {a \in DOMAIN t.snap \cup DOMAIN t.objs : Exist(t, a)}
    IN  FoldSet(LAMBDA a, n : n + GetBalance(t, a), 0, at)

(* Money is neither made nor lost by calls, creations, reverts, fees, rewards and
   withdrawals: the balances and the gas a running transaction has paid for are
   what the parent state held, and less only when an account destroyed itself. *)
SupplyKept ==
    LET held == Balances(tr.t) + (IF tx = None THEN 0 ELSE tx.gas * tx.price)
        start == FoldSet(LAMBDA a, n : n + world[a].balance, 0, DOMAIN world)
    IN  held <= start /\ (~lost => held = start)

(* While a static call and the calls below it run, no account and no log differs
   from what it was when the call began. *)
StaticChangesNothing ==
    \A i \in 1 .. Len(frames) :
        frames[i].f.msg.static =>
            LET then == RevertToSnapshot(tr.t, frames[i].snap)
            IN  /\ tr.t.logs = then.logs
                /\ Commit(tr.t, TRUE) = Commit(then, TRUE)

(* What a transaction with a failed receipt leaves behind is its fee and its
   nonce: no log, and no other change of any account, whatever it ran before it
   failed. *)
FailedOnlyPays ==
    [][ (phase = "run" /\ phase' # "run" /\ Last(tr'.receipts).failed) =>
          LET before == Commit(origin, TRUE)
              after == Commit(tr'.t, TRUE)
              fee == Last(tr'.receipts).used * tx.price
              Others(w) == [a \in DOMAIN w \ {tx.from, FeePool} |-> w[a]]
          IN  /\ Last(tr'.receipts).logs = <<>>
              /\ Others(after) = Others(before)
              /\ tx.from # FeePool =>
                   after[tx.from] = [before[tx.from] EXCEPT !.nonce = @ + 1, !.balance = @ - fee] ]_vars

(* A block that a proposer built is processed with the same receipts, the same
   gas and the same state, also where transactions it refused came between.  The
   only block that is refused has a withdrawal, and the process that refuses it
   does not remember the fees that the proposer did. *)
BuiltIsAccepted ==
    built # None =>
    /\ phase = "rejected" => fees # built.fees /\ Refusal(Current) = "withdraw"
    /\ phase = "done" => /\ tr.receipts = built.receipts
                         /\ tr.total = built.total
                         /\ Commit(tr.t, "EIP155" \in forks) = built.world
======================================================================
