---------------------------- MODULE Trie ----------------------------
(* The merkle trie of the state (state/trie): accounts and their storage as
   tries of nodes in memory that snapshots share and change in place, the
   database of encoded nodes below them, and the cache of tries by root.

   A node lives at a place of the heap, so that sharing is visible.  A hash is
   represented by the encoding it is the hash of.  *)
EXTENDS Integers, Sequences, SequencesExt, FiniteSets, TLC

CONSTANTS Addresses, Slots,   \* accounts and storage slots
          Path(_),            \* the nibbles of the hash of an address or a slot
          Children,           \* the nibbles that occur
          Size(_),            \* the length of a value, in bytes
          HashSize,           \* the length of a hash; shorter encodings are not hashed
          Genesis,            \* the objects of the genesis block
          Blocks,             \* the changes a block may make: sequences of objects
          MaxCommits,         \* bound: commits
          MaxSteps            \* bound: other steps

VARIABLES heap,     \* the nodes
          cache,    \* State.cache: root hash to Trie [root, epoch]
          storage,  \* the encodings in the database
          snap,     \* the snapshot in use: a Trie and the hash it was opened at
          content,  \* history: root hash to the accounts it stands for
          commits, steps  \* the commits and the other steps so far
vars == <<heap, cache, storage, snap, content, commits, steps>>

Nil == 0
NoHash == <<>>
Terminator == 16

ValueNode(v) == [type |-> "value", buf |-> v]
RefNode(x) == [type |-> "ref", hash |-> x]
ShortNode(k, c) == [type |-> "short", key |-> k, child |-> c, hash |-> NoHash]
FullNode(e) == [type |-> "full", epoch |-> e, value |-> Nil,
                children |-> [n \in Children |-> Nil], hash |-> NoHash]

get(n, k) == IF k = Terminator THEN n.value ELSE n.children[k]
set(n, k, c) == IF k = Terminator THEN [n EXCEPT !.value = c] 
                ELSE [n EXCEPT !.children = (k :> c) @@ n.children]

(* A new node, and a result that is a node. *)
New(h, n) == [h |-> Append(h, n), id |-> Len(h) + 1]
Is(h, id) == [h |-> h, id |-> id]
(* A short node above the result c. *)
Above(c, key) == New(c.h, ShortNode(key, c.id))

-----------------------------------------------------------------------------
(* Keys (encoding.go): nibbles with a terminator, packed with a flag. *)

bytesToHexNibbles(bytes) ==
    [i \in 1 .. 2 * Len(bytes) + 1 |->
        IF i = 2 * Len(bytes) + 1 THEN Terminator
        ELSE IF i % 2 = 1 THEN bytes[(i + 1) \div 2] \div 16 ELSE bytes[i \div 2] % 16]

hasTerminator(hex) == hex # <<>> /\ Last(hex) = Terminator

encodeCompact(hex) ==
    LET bare == IF hasTerminator(hex) THEN Front(hex) ELSE hex
        odd == Len(bare) % 2
        flag == 2 * (IF hasTerminator(hex) THEN 1 ELSE 0) + odd
        full == (IF odd = 1 THEN <<flag>> ELSE <<flag, 0>>) \o bare
    IN  [i \in 1 .. Len(full) \div 2 |-> full[2 * i - 1] * 16 + full[2 * i]]

decodeCompact(compact) ==
    LET all == bytesToHexNibbles(compact)
        base == IF all[1] < 2 THEN Front(all) ELSE all
    IN  SubSeq(base, IF base[1] % 2 = 1 THEN 2 ELSE 3, Len(base))

prefixLen(k1, k2) ==
    LET most == IF Len(k1) < Len(k2) THEN Len(k1) ELSE Len(k2)
    IN  CHOOSE i \in 0 .. most :
            /\ SubSeq(k1, 1, i) = SubSeq(k2, 1, i)
            /\ i < most => k1[i + 1] # k2[i + 1]

From(s, n) == SubSeq(s, n + 1, Len(s))

-----------------------------------------------------------------------------
(* Nodes in the database (storage.go, hasher.go). *)

Null == <<"null">>
Bytes(v) == <<"bytes", v>>
Pair(key, e) == <<"pair", key, e>>
Branch(es, v) == <<"branch", es, v>>
Hash(e) == <<"hash", e>>
EmptyRoot == Hash(Null)

RECURSIVE Length(_)
Length(e) ==
    CASE e[1] = "null" -> 1
      [] e[1] = "bytes" -> Size(e[2])
      [] e[1] = "hash" -> HashSize
      [] e[1] = "pair" -> 1 + Len(e[2]) + Length(e[3])
      [] e[1] = "branch" -> Length(e[3]) + FoldSet(LAMBDA n, s : s + Length(e[2][n]), 1, Children)

(* An encoding becomes a node with a child of its own for every part that was
   short enough to be kept in it. *)
RECURSIVE decodeNode(_, _), decodeChildren(_, _, _, _)
decodeNode(h, e) ==
    IF e[1] = "hash" THEN New(h, RefNode(e))
    ELSE IF e[1] = "pair"
    THEN LET Pairing(key) == Above(IF hasTerminator(key) THEN New(h, ValueNode(e[3][2]))
                                   ELSE decodeNode(h, e[3]), key)
         IN  Pairing(decodeCompact(e[2]))
    ELSE LET Filled(v) == decodeChildren(v.h, e[2], Children, [FullNode(0) EXCEPT !.value = v.id])
         IN  Filled(IF e[3] = Null THEN Is(h, Nil) ELSE New(h, ValueNode(e[3][2])))
decodeChildren(h, es, left, n) ==
    LET k == CHOOSE i \in left : TRUE
        Rest(c) == decodeChildren(c.h, es, left \ {k}, set(n, k, c.id))
    IN  IF left = {} THEN New(h, n)
        ELSE Rest(IF es[k] = Null THEN Is(h, Nil) ELSE decodeNode(h, es[k]))

Stored(x) == x[2] \in storage
GetNode(h, x) == decodeNode(h, x[2])

(* Txn.hash: the encoding of a node, or its hash when that is short enough to
   be worth it; a node that knows its hash is not written again. *)
RECURSIVE hash(_, _, _), hashChildren(_, _, _, _, _)
hash(h, id, batch) ==
    LET n == h[id]
        Got(r, e) == IF Length(e) < HashSize THEN [h |-> r.h, e |-> e, batch |-> r.batch]
                     ELSE [h |-> [r.h EXCEPT ![id].hash = Hash(e)], e |-> Hash(e),
                           batch |-> r.batch \cup {e}]
    IN  IF n.type = "value" THEN [h |-> h, e |-> Bytes(n.buf), batch |-> batch]
        ELSE IF n.hash # NoHash THEN [h |-> h, e |-> n.hash, batch |-> batch]
        ELSE IF n.type = "short"
        THEN LET Short(r) == Got(r, Pair(encodeCompact(n.key), r.e)) IN Short(hash(h, n.child, batch))
        ELSE LET Full(es, v) == Got(v, Branch(es, v.e))
                 Value(r) == Full(r.e, IF n.value = Nil THEN [r EXCEPT !.e = Null]
                                       ELSE hash(r.h, n.value, r.batch))
             IN  Value(hashChildren(h, batch, n, Children, [k \in Children |-> Null]))
hashChildren(h, batch, n, left, es) ==
    LET k == CHOOSE i \in left : TRUE
        Rest(r) == hashChildren(r.h, r.batch, n, left \ {k}, (k :> r.e) @@ es)
    IN  IF left = {} THEN [h |-> h, e |-> es, batch |-> batch]
        ELSE Rest(IF n.children[k] = Nil THEN [h |-> h, e |-> Null, batch |-> batch]
                  ELSE hash(h, n.children[k], batch))

(* Txn.Hash: the root is hashed and written whatever its length. *)
RootHash(h, root, batch) ==
    LET Top(r) == IF r.e[1] = "hash" THEN r ELSE [r EXCEPT !.e = Hash(r.e), !.batch = @ \cup {r.e}]
    IN  IF root = Nil THEN [h |-> h, e |-> EmptyRoot, batch |-> batch] ELSE Top(hash(h, root, batch))

-----------------------------------------------------------------------------
(* Txn.lookup: a reference that was followed is replaced by its node, in place. *)

Missing == <<>>
Followed(r, id, n) ==
    [h |-> IF r.new = Nil THEN r.h ELSE [r.h EXCEPT ![id] = n], new |-> Nil, res |-> r.res]

RECURSIVE lookup(_, _, _)
lookup(h, id, key) ==
    LET n == h[id]
        No == [h |-> h, new |-> Nil, res |-> Missing]
    IN  IF id = Nil THEN No
        ELSE IF n.type = "ref"
        THEN IF ~Stored(n.hash) THEN No
             ELSE LET Fetched(c) == [lookup(c.h, c.id, key) EXCEPT !.new = c.id] IN Fetched(GetNode(h, n.hash))
        ELSE IF n.type = "value"
        THEN [No EXCEPT !.res = IF key = <<>> THEN n.buf ELSE Missing]
        ELSE IF n.type = "short"
        THEN IF ~IsPrefix(n.key, key) THEN No
             ELSE LET Below(r) == Followed(r, id, [n EXCEPT !.child = r.new])
                  IN  Below(lookup(h, n.child, From(key, Len(n.key))))
        ELSE IF key = <<>> THEN lookup(h, n.value, key)
        ELSE LET Below(r) == Followed(r, id, set(n, key[1], r.new))
             IN  Below(lookup(h, get(n, key[1]), Tail(key)))

-----------------------------------------------------------------------------
(* Txn.insert and Txn.delete.  A branch made in this epoch is changed in place,
   any other is copied. *)

(* Mutant: a branch is always changed in place. *)
writeNodeInPlace(h, id, epoch) == Is(h, id)

writeNode(h, id, epoch) ==
    IF h[id].epoch = epoch THEN Is(h, id)
    ELSE New(h, [h[id] EXCEPT !.epoch = epoch, !.hash = NoHash])

RECURSIVE insert(_, _, _, _, _)
insert(h, id, search, v, epoch) ==
    LET n == h[id]
        Into(c, key) == insert(c.h, c.id, key, v, epoch)
        Child(b, k, c) == Is([c.h EXCEPT ![b] = set(c.h[b], k, c.id)], b)
        Branched(b, k) == Child(b.id, k, insert(b.h, get(n, k), IF search = <<>> THEN <<>> ELSE Tail(search),
                                                v, epoch))
        Split(p) == LET Under(c) == New(c.h, set(FullNode(epoch), n.key[p + 1], c.id))
                    IN  Into(Under(IF Len(n.key) > p + 1 THEN New(h, ShortNode(From(n.key, p + 1), n.child))
                                   ELSE Is(h, n.child)), From(search, p))
        Short(p) == IF p = Len(n.key) THEN Above(Into(Is(h, n.child), From(search, p)), n.key)
                    ELSE IF p = 0 THEN Split(p) ELSE Above(Split(p), SubSeq(search, 1, p))
    IN  IF id = Nil
        THEN IF search = <<>> THEN New(h, ValueNode(v)) ELSE Above(New(h, ValueNode(v)), search)
        ELSE IF n.type = "ref"
        THEN IF Stored(n.hash) THEN Into(GetNode(h, n.hash), search) ELSE Is(h, Nil)
        ELSE IF n.type = "value"
        THEN IF search = <<>> THEN New(h, ValueNode(v))
             ELSE Into(New(h, [FullNode(epoch) EXCEPT !.value = id]), search)
        ELSE IF n.type = "short" THEN Short(prefixLen(search, n.key))
        ELSE Branched(writeNode(h, id, epoch), IF search = <<>> THEN Terminator ELSE search[1])

(* Mutant: the last child of a branch stays below a key of its own. *)
CollapsedUnmerged(h, n) ==
    LET left == {k \in Children : n.children[k] # Nil}
        only == CHOOSE k \in left : TRUE
    IN  IF Cardinality(left) > 1 \/ (left # {} /\ n.value # Nil) THEN [ok |-> TRUE] @@ New(h, n)
        ELSE IF left = {} /\ n.value = Nil THEN [ok |-> TRUE] @@ Is(h, Nil)
        ELSE [ok |-> TRUE] @@ New(h, ShortNode(<<only>>, n.children[only]))

(* What is left of a branch after a removal: itself, its only value or child
   under a longer key, or nothing.  Merged: a short node below another one. *)
Done(c) == [ok |-> TRUE] @@ c
Merged(c, key) ==
    Done(IF c.h[c.id].type = "short" THEN New(c.h, ShortNode(key \o c.h[c.id].key, c.h[c.id].child))
         ELSE Above(c, key))
Collapsed(h, n) ==
    LET left == {k \in Children : n.children[k] # Nil}
        only == CHOOSE k \in left : TRUE
        c == h[n.children[only]]
    IN  IF Cardinality(left) > 1 \/ (left # {} /\ n.value # Nil) THEN Done(New(h, n))
        ELSE IF left = {}
        THEN Done(IF n.value = Nil THEN Is(h, Nil) ELSE New(h, ShortNode(<<Terminator>>, n.value)))
        ELSE IF c.type # "ref" THEN Merged(Is(h, n.children[only]), <<only>>)
        ELSE IF Stored(c.hash) THEN Merged(GetNode(h, c.hash), <<only>>)
        ELSE [ok |-> FALSE] @@ Is(h, Nil)

(* A short node forgets its hash before it is known whether the key is there;
   only a common prefix is asked of it. *)
RECURSIVE delete(_, _, _)
delete(h, id, search) ==
    LET n == h[id]
        No(g) == [h |-> g, id |-> Nil, ok |-> FALSE]
        Below(r) == IF ~r.ok THEN No(r.h) ELSE IF r.id = Nil THEN r ELSE Merged(r, n.key)
        Short(g, p) == IF p = Len(search) THEN Done(Is(g, Nil))
                       ELSE IF p = 0 THEN No(g)
                       ELSE Below(delete(g, n.child, From(search, p)))
        Full(r) == IF ~r.ok THEN No(r.h)
                   ELSE Collapsed(r.h, set([n EXCEPT !.epoch = 0, !.hash = NoHash], search[1], r.id))
        Fetched(c) == delete(c.h, c.id, search)
    IN  IF id = Nil THEN No(h)
        ELSE IF n.type = "short" THEN Short([h EXCEPT ![id].hash = NoHash], prefixLen(search, n.key))
        ELSE IF n.type = "ref" THEN IF Stored(n.hash) THEN Fetched(GetNode(h, n.hash)) ELSE No(h)
        ELSE IF n.type = "value" THEN [h |-> h, id |-> Nil, ok |-> search = <<>>]
        ELSE Full(delete(h, get(n, search[1]), Tail(search)))

-----------------------------------------------------------------------------
(* Trie.Commit: the accounts of a block, each after its storage. *)

Key(x) == Path(x) \o <<Terminator>>

(* NewSnapshotAt.  A trie that is not in the cache is read, and not cached. *)
CanOpen(c, x) == x \in {EmptyRoot} \cup DOMAIN c \cup {Hash(e) : e \in storage}
NewSnapshotAt(h, c, x) ==
    IF x = EmptyRoot THEN [h |-> h, root |-> Nil, epoch |-> 0]
    ELSE IF x \in DOMAIN c THEN [h |-> h] @@ c[x]
    ELSE LET Fetched(n) == [h |-> n.h, root |-> n.id, epoch |-> 0] IN Fetched(GetNode(h, x))

(* Insert and Delete of a Txn: a failed removal leaves the root. *)
TxnInsert(h, root, key, v, epoch) ==
    LET Rooted(r) == [h |-> r.h, root |-> IF r.id = Nil THEN root ELSE r.id]
    IN  Rooted(insert(h, root, key, v, epoch))
TxnDelete(h, root, key) ==
    LET Rooted(r) == [h |-> r.h, root |-> IF r.ok THEN r.id ELSE root]
    IN  Rooted(delete(h, root, key))

RECURSIVE PutSlots(_, _, _, _)
PutSlots(h, root, entries, epoch) ==
    IF entries = <<>> THEN [h |-> h, root |-> root]
    ELSE LET e == Head(entries)
             Rest(r) == PutSlots(r.h, r.root, Tail(entries), epoch)
         IN  Rest(IF e.val = 0 THEN TxnDelete(h, root, Key(e.slot))
                  ELSE TxnInsert(h, root, Key(e.slot), <<e.val>>, epoch))

(* One object: m holds the heap, the account trie's root, the cache and the
   batch; was is the storage root the object was read with. *)
CommitObject(m, obj, was, epoch) ==
    LET Kept(r) == [m EXCEPT !.h = r.h, !.root = r.root]
        Account(h, root) == TxnInsert(h, m.root, Key(obj.addr), <<obj.nonce, root>>, epoch)
        Updated(t, r) == [Kept(Account(r.h, r.e)) EXCEPT
                              !.batch = r.batch,
                              !.cache = (r.e :> [root |-> t.root, epoch |-> t.epoch]) @@ m.cache]
        Encoded(t) == Updated(t, RootHash(t.h, t.root, m.batch))
        Written(s) == Encoded([epoch |-> s.epoch + 1] @@ PutSlots(s.h, s.root, obj.entries, s.epoch + 1))
    IN  IF obj.deleted THEN Kept(TxnDelete(m.h, m.root, Key(obj.addr)))
        ELSE IF obj.entries = <<>> THEN Kept(Account(m.h, was))
        ELSE Written(NewSnapshotAt(m.h, m.cache, was))

RECURSIVE CommitObjects(_, _, _, _)
CommitObjects(m, objs, roots, epoch) ==
    IF objs = <<>> THEN m
    ELSE CommitObjects(CommitObject(m, Head(objs), Head(roots), epoch), Tail(objs), Tail(roots), epoch)

(* Reading the accounts of the objects: the storage root of each, a new
   account's when it is not there or is created again. *)
RECURSIVE ReadObjects(_, _, _)
ReadObjects(h, objs, roots) ==
    IF objs = <<>> THEN [h |-> h, roots |-> roots]
    ELSE LET Rest(r) ==
                 ReadObjects(r.h, Tail(objs),
                             Append(roots, IF r.res = Missing \/ Head(objs).fresh THEN EmptyRoot ELSE r.res[2]))
         IN  Rest(lookup(h, snap.root, Key(Head(objs).addr)))

-----------------------------------------------------------------------------
(* What the tries stand for. *)

View(h, c, t) ==
    LET In(s, k) == lookup(s.h, s.root, Key(k)).res
        SlotsIn(s) == LET Got == [k \in Slots |-> In(s, k)] IN
                      [k \in {i \in Slots : Got[i] # Missing} |-> Got[k][1]]
        Account(x) == [nonce |-> x[1],
                       slots |-> IF CanOpen(c, x[2]) THEN SlotsIn(NewSnapshotAt(h, c, x[2])) ELSE <<>>]
        All(got) == [a \in {x \in Addresses : got[x] # Missing} |-> Account(got[a])]
    IN  All([a \in Addresses |-> lookup(h, t.root, Key(a)).res])

(* The same changes to a plain map of accounts. *)
Wrote(slots, entries) ==
    FoldLeft(LAMBDA s, e : IF e.val = 0 THEN [k \in DOMAIN s \ {e.slot} |-> s[k]]
                           ELSE (e.slot :> e.val) @@ s, slots, entries)
Applied(accounts, objs) ==
    FoldLeft(LAMBDA m, o :
                IF o.deleted THEN [a \in DOMAIN m \ {o.addr} |-> m[a]]
                ELSE (o.addr :> [nonce |-> o.nonce,
                                 slots |-> Wrote(IF o.addr \in DOMAIN m /\ ~o.fresh
                                                 THEN m[o.addr].slots ELSE <<>>, o.entries)]) @@ m,
             accounts, objs)

-----------------------------------------------------------------------------
Init ==
    /\ heap = <<>> /\ cache = <<>> /\ storage = {}
    /\ snap = [at |-> EmptyRoot, root |-> Nil, epoch |-> 0]
    /\ content = (EmptyRoot :> <<>>)
    /\ commits = 0 /\ steps = 0

(* A transition begins at the state of some block. *)
Opened(x, s) == heap' = s.h /\ snap' = [at |-> x, root |-> s.root, epoch |-> s.epoch]
Open(x) ==
    /\ x # snap.at
    /\ CanOpen(cache, x)
    /\ Opened(x, NewSnapshotAt(heap, cache, x))
    /\ UNCHANGED <<cache, storage, content, commits>>

(* It reads an account and one of its slots. *)
SlotRead(s, k) == lookup(s.h, s.root, Key(k)).h
AccountRead(r, k) ==
    IF r.res = Missing THEN r.h
    ELSE IF CanOpen(cache, r.res[2]) THEN SlotRead(NewSnapshotAt(r.h, cache, r.res[2]), k) ELSE r.h
Read(a, k) ==
    /\ heap' = AccountRead(lookup(heap, snap.root, Key(a)), k)
    /\ UNCHANGED <<cache, storage, snap, content, commits>>

(* A block's changes; the first commit is the genesis block's. *)
Installed(r, m, epoch, objs) ==
    /\ heap' = r.h
    /\ storage' = storage \cup r.batch
    /\ cache' = (r.e :> [root |-> m.root, epoch |-> epoch]) @@ m.cache
    /\ snap' = [at |-> r.e, root |-> m.root, epoch |-> epoch]
    /\ content' = (r.e :> Applied(content[snap.at], objs)) @@ content
Hashed(m, epoch, objs) == Installed(RootHash(m.h, m.root, m.batch), m, epoch, objs)
(* Commit panics when the storage trie of an object that has entries cannot be
   opened, which ContentKept rules out: every slot of every committed state can
   be read. *)
Opens(o, objs) == \A i \in 1 .. Len(objs) : objs[i].entries # <<>> => CanOpen(cache, o.roots[i])
Write(o, objs) ==
    /\ Opens(o, objs)
    /\ Hashed(CommitObjects([h |-> o.h, root |-> snap.root, cache |-> cache, batch |-> {}],
                            objs, o.roots, snap.epoch + 1), snap.epoch + 1, objs)
Commit(objs) ==
    /\ commits < MaxCommits
    /\ (commits = 0) <=> (objs = Genesis)
    /\ Write(ReadObjects(heap, objs, <<>>), objs)
    /\ commits' = commits + 1
    /\ UNCHANGED steps

(* The cache holds a bounded number of tries. *)
Evict(x) ==
    /\ cache' = [y \in DOMAIN cache \ {x} |-> cache[y]]
    /\ UNCHANGED <<heap, storage, snap, content, commits>>

(* After a restart only the database is left. *)
Restart ==
    /\ heap' = <<>> /\ cache' = <<>>
    /\ snap' = [at |-> EmptyRoot, root |-> Nil, epoch |-> 0]
    /\ UNCHANGED <<storage, content, commits>>

Next ==
    \/ \E objs \in Blocks \cup {Genesis} : Commit(objs)
    \/ /\ steps < MaxSteps
       /\ steps' = steps + 1
       /\ \/ \E x \in DOMAIN content : Open(x)
          \/ \E a \in Addresses, k \in Slots : Read(a, k)
          \/ \E x \in DOMAIN cache : Evict(x)
          \/ Restart

Spec == Init /\ [][Next]_vars

-----------------------------------------------------------------------------
(* Properties. *)

(* A committed trie never changes, although tries share nodes, lookups replace
   nodes in place and later transactions write to branches in place: every
   cached trie and the snapshot in use still hold what was committed. *)
ContentKept ==
    /\ \A x \in DOMAIN cache \cap DOMAIN content : View(heap, cache, cache[x]) = content[x]
    /\ View(heap, cache, snap) = content[snap.at]

(* The root depends on the accounts only, not on the insertions, removals and
   reloads that led to them: nodes that execute the same blocks agree. *)
SameContentSameRoot ==
    \A x, y \in DOMAIN content : content[x] = content[y] => x = y
======================================================================
