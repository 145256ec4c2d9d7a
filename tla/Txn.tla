---------------------------- MODULE Txn ----------------------------
(* The state a block is executed on (state/txn.go, state/state.go): the
   accounts of the parent's trie, and over them the objects, the logs and the
   refund counter that live in one radix tree.  A transaction state t is a
   record of
     snap   the accounts of the trie of the parent block,
     objs   the state objects changed since,
     logs, refund   the two other entries of the radix tree,
     cache  the codes read so far, by address,
     forks  the forks active in the block.
   A code hash is represented by the code it is the hash of.  *)
EXTENDS Integers, Sequences, FiniteSetsExt, TLC

CONSTANTS GasMod    \* a uint64 wraps at GasMod

None == [none |-> TRUE]

NewAccount == [nonce |-> 0, balance |-> 0, code |-> <<>>, storage |-> <<>>]

(* An object keeps the committed storage of its account (trie) apart from the
   slots written in this block (store); a deleted slot is written as 0. *)
Object(acc) ==
    [nonce |-> acc.nonce, balance |-> acc.balance, code |-> acc.code,
     trie |-> acc.storage, store |-> <<>>, dirty |-> FALSE,
     suicide |-> FALSE, deleted |-> FALSE]

NewTxn(world, forks) ==
    [snap |-> world, objs |-> <<>>, logs |-> <<>>, refund |-> 0,
     cache |-> <<>>, forks |-> forks]

Exist(t, a) ==
    IF a \in DOMAIN t.objs THEN ~t.objs[a].deleted ELSE a \in DOMAIN t.snap

getStateObject(t, a) ==
    IF a \in DOMAIN t.objs THEN t.objs[a] ELSE Object(t.snap[a])

(* The object that upsertAccount hands to its callback. *)
Upserted(t, a) == IF Exist(t, a) THEN getStateObject(t, a) ELSE Object(NewAccount)
Insert(t, a, o) == [t EXCEPT !.objs = (a :> o) @@ @]

(* What a snapshot holds, and the return to it; the cache is not part of it. *)
Snapshot(t) == [objs |-> t.objs, logs |-> t.logs, refund |-> t.refund]

(* Mutant: the logs survive a revert. *)
RevertKeepsLogs(t, s) == [t EXCEPT !.objs = s.objs, !.refund = s.refund]

RevertToSnapshot(t, s) ==
    [t EXCEPT !.objs = s.objs, !.logs = s.logs, !.refund = s.refund]

GetBalance(t, a) == Upserted(t, a).balance
GetNonce(t, a) == Upserted(t, a).nonce
AddBalance(t, a, n) == LET o == Upserted(t, a) IN Insert(t, a, [o EXCEPT !.balance = @ + n])

(* Taking 0 from an account is no operation; CanSub is the check before. *)
CanSub(t, a, n) == n = 0 \/ GetBalance(t, a) >= n
SubBalance(t, a, n) ==
    IF n = 0 THEN t
    ELSE LET o == Upserted(t, a) IN Insert(t, a, [o EXCEPT !.balance = @ - n])

IncrNonce(t, a) == LET o == Upserted(t, a) IN Insert(t, a, [o EXCEPT !.nonce = @ + 1])

EmitLog(t, a, topics, data) ==
    [t EXCEPT !.logs = Append(@, [addr |-> a, topics |-> topics, data |-> data])]

AddRefund(t, g) == [t EXCEPT !.refund = (@ + g) % GasMod]
SubRefund(t, g) == [t EXCEPT !.refund = (@ - g) % GasMod]

Slot(f, k) == IF k \in DOMAIN f THEN f[k] ELSE 0

GetCommittedState(t, a, k) == Slot(Upserted(t, a).trie, k)

GetState(t, a, k) ==
    LET o == Upserted(t, a)
    IN  IF k \in DOMAIN o.store THEN o.store[k] ELSE Slot(o.trie, k)

SetState(t, a, k, v) ==
    LET o == Upserted(t, a) IN Insert(t, a, [o EXCEPT !.store = (k :> v) @@ @])

(* Writing a slot: its class decides the price, and the refund counter moves.
   `original' is the slot in the trie of the parent block. *)
SetStorage(t, a, k, v) ==
    LET current == GetState(t, a, k)
        original == GetCommittedState(t, a, k)
        u == SetState(t, a, k, v)
        Istanbul == "Istanbul" \in t.forks
        legacy == ~Istanbul /\ ("Petersburg" \in t.forks \/ "Constantinople" \notin t.forks)
        recreated == original # 0 /\ current = 0
        removed == original # 0 /\ current # 0 /\ v = 0
        w == IF recreated THEN SubRefund(u, 15000)
             ELSE IF removed THEN AddRefund(u, 15000) ELSE u
        back == IF original = 0 THEN (IF Istanbul THEN 19200 ELSE 19800)
                ELSE (IF Istanbul THEN 4200 ELSE 4800)
    IN  CASE v = current -> [t |-> t, status |-> "unchanged"]
          [] v # current /\ (legacy \/ original = current) ->
               [t |-> IF current # 0 /\ v = 0 THEN AddRefund(u, 15000) ELSE u,
                status |-> IF current = 0 THEN "added"
                           ELSE IF v = 0 THEN "deleted" ELSE "modified"]
          [] OTHER -> [t |-> IF original = v THEN AddRefund(w, back) ELSE w,
                       status |-> "modifiedAgain"]

SetCode(t, a, code) ==
    LET o == Upserted(t, a) IN Insert(t, a, [o EXCEPT !.code = code, !.dirty = TRUE])

(* The code of an account, and the cache after reading it: a code that is not
   dirty is looked up by address first. *)
Cached(t, a) == Exist(t, a) /\ ~getStateObject(t, a).dirty
GetCode(t, a) ==
    IF ~Exist(t, a) THEN <<>>
    ELSE IF Cached(t, a) /\ a \in DOMAIN t.cache THEN t.cache[a]
    ELSE getStateObject(t, a).code
AfterGetCode(t, a) ==
    IF Cached(t, a) THEN [t EXCEPT !.cache = @ @@ (a :> GetCode(t, a))] ELSE t

Empty(t, a) == LET o == Upserted(t, a) IN o.nonce = 0 /\ o.balance = 0 /\ o.code = <<>>

HasSuicided(t, a) == Exist(t, a) /\ getStateObject(t, a).suicide

Suicide(t, a) ==
    IF ~Exist(t, a) THEN t
    ELSE Insert(t, a, [getStateObject(t, a) EXCEPT !.suicide = TRUE, !.balance = 0])

TouchAccount(t, a) == Insert(t, a, Upserted(t, a))

CreateAccount(t, a) ==
    Insert(t, a, [Object(NewAccount) EXCEPT !.balance = GetBalance(t, a)])

Doomed(o, deleteEmpty) ==
    o.suicide \/ (deleteEmpty /\ o.nonce = 0 /\ o.balance = 0 /\ o.code = <<>>)

(* After every transaction: destroyed and empty accounts become invisible and
   the refund counter is dropped. *)
CleanDeleteObjects(t, deleteEmpty) ==
    [t EXCEPT !.refund = 0,
              !.objs = [a \in DOMAIN @ |->
                  IF Doomed(@[a], deleteEmpty) THEN [@[a] EXCEPT !.deleted = TRUE] ELSE @[a]]]

(* The accounts that a commit writes to the trie. *)
Commit(t, deleteEmpty) ==
    LET objs == CleanDeleteObjects(t, deleteEmpty).objs
        live == {a \in DOMAIN objs \cup DOMAIN t.snap : a \in DOMAIN objs => ~objs[a].deleted}
        Storage(o) == LET all == o.store @@ o.trie
                      IN  [k \in {x \in DOMAIN all : all[x] # 0} |-> all[k]]
    IN  [a \in live |->
            IF a \notin DOMAIN objs THEN t.snap[a]
            ELSE LET o == objs[a]
                 IN  [nonce |-> o.nonce, balance |-> o.balance, code |-> o.code,
                      storage |-> Storage(o)]]
=====================================================================
