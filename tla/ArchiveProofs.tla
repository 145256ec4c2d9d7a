---------------------------- MODULE ArchiveProofs ---------------------------
(***************************************************************************)
(* Proofs about Archive: for every range, every size of the blocks and any *)
(* number of restores, a restore goes on where the chain ends, and its     *)
(* progress is there while it is updated.                                  *)
(***************************************************************************)
EXTENDS Archive, TLAPS

-----------------------------------------------------------------------------
(* What is backed up is a run of numbers without a hole, on its way in pieces. *)

Run(s) == s \in Seq(Nat) /\ \A i \in 1 .. Len(s) - 1 : s[i + 1] = s[i] + 1
Follows(s, t) == s # <<>> /\ t # <<>> => t[1] = s[Len(s)] + 1

LEMMA EmptyRun == Run(<<>>) /\ \A s : Follows(<<>>, s) /\ Follows(s, <<>>)
BY DEF Run, Follows

LEMMA OneRun == ASSUME NEW i \in Nat PROVE Run(<<i>>)
BY DEF Run

LEMMA RunsJoin ==
  ASSUME NEW s, NEW t, Run(s), Run(t), Follows(s, t)
  PROVE  Run(s \o t)
<1> DEFINE u == s \o t
<1>1. /\ s \in Seq(Nat) /\ t \in Seq(Nat) /\ u \in Seq(Nat)
      /\ Len(s) \in Nat /\ Len(t) \in Nat /\ Len(u) = Len(s) + Len(t)
  BY DEF Run
<1>2. /\ \A k \in 1 .. Len(s) : u[k] = s[k]
      /\ \A k \in 1 .. Len(t) : u[Len(s) + k] = t[k]
  BY SMT, Z3, <1>1
<1>3. ASSUME NEW i \in 1 .. Len(u) - 1 PROVE u[i + 1] = u[i] + 1
  <2>1. CASE i < Len(s)
    <3>1. i \in 1 .. Len(s) - 1 /\ i + 1 \in 1 .. Len(s) /\ i \in 1 .. Len(s)
      BY SMT, Z3, <1>1, <2>1
    <3>2. s[i + 1] = s[i] + 1
      BY <3>1 DEF Run
    <3>3. QED
      BY <1>2, <3>1, <3>2
  <2>2. CASE i = Len(s)
    <3>1. i \in 1 .. Len(s) /\ 1 \in 1 .. Len(t) /\ s # <<>> /\ t # <<>>
      BY SMT, Z3, <1>1, <2>2
    <3>2. u[i] = s[Len(s)] /\ u[i + 1] = t[1]
      BY <1>2, <2>2, <3>1
    <3>3. QED
      BY <3>1, <3>2 DEF Follows
  <2>3. CASE i > Len(s)
    <3>1. PICK j \in Int : j = i - Len(s)
      <4>1. i - Len(s) \in Int
        BY SMT, Z3, <1>1
      <4>2. QED
        BY Zenon, <4>1
    <3>2. j \in 1 .. Len(t) - 1 /\ j \in 1 .. Len(t) /\ j + 1 \in 1 .. Len(t)
      BY SMT, Z3, <1>1, <2>3, <3>1
    <3>3. t[j + 1] = t[j] + 1
      BY <3>2 DEF Run
    <3>4. u[i] = t[j] /\ u[i + 1] = t[j + 1]
      <4>1. i = Len(s) + j /\ i + 1 = Len(s) + (j + 1)
        BY SMT, Z3, <1>1, <3>1
      <4>2. QED
        BY <1>2, <3>2, <4>1
    <3>5. QED
      BY <3>3, <3>4
  <2>4. QED
    BY SMT, Z3, <1>1, <2>1, <2>2, <2>3
<1>4. QED
  BY <1>1, <1>3 DEF Run

\* The last of a sequence that ends with t, and the first of one that begins with s.
LEMMA JoinEnds ==
  ASSUME NEW s \in Seq(Nat), NEW t \in Seq(Nat)
  PROVE  /\ t # <<>> => s \o t # <<>> /\ (s \o t)[Len(s \o t)] = t[Len(t)]
         /\ s # <<>> => s \o t # <<>> /\ (s \o t)[1] = s[1]
<1>1. /\ Len(s) \in Nat /\ Len(t) \in Nat /\ Len(s \o t) = Len(s) + Len(t)
      /\ s # <<>> => Len(s) >= 1
      /\ t # <<>> => Len(t) >= 1
  BY SMT, Z3
<1>2. ASSUME t # <<>> PROVE s \o t # <<>> /\ (s \o t)[Len(s \o t)] = t[Len(t)]
  BY SMT, Z3, <1>1, <1>2
<1>3. ASSUME s # <<>> PROVE s \o t # <<>> /\ (s \o t)[1] = s[1]
  BY SMT, Z3, <1>1, <1>3
<1>4. QED
  BY <1>2, <1>3

LEMMA RunBegins ==
  ASSUME NEW s, Run(s), NEW n \in 1 .. Len(s)
  PROVE  Run(SubSeq(s, 1, n)) /\ SubSeq(s, 1, n)[1] = s[1]
<1>1. /\ s \in Seq(Nat) /\ Len(s) \in Nat /\ n \in Nat
      /\ SubSeq(s, 1, n) \in Seq(Nat) /\ Len(SubSeq(s, 1, n)) = n
  BY SMT, Z3 DEF Run
<1>2. \A k \in 1 .. n : SubSeq(s, 1, n)[k] = s[k]
  BY SMT, Z3, <1>1
<1>3. QED
  BY SMT, Z3, <1>1, <1>2 DEF Run

-----------------------------------------------------------------------------
(* The invariant of a backup *)

Torn == {"no", "size", "payload"}

BackupTyped ==
  /\ src \in Nat
  /\ file \in [latest : Int, blocks : Seq(Nat), torn : Torn]
  /\ stream \in Seq(Seq(Nat))
  /\ export \in [on : BOOLEAN, i : Nat, to : Nat, buf : Seq(Nat)]

\* The file, the events of the stream and the buffer follow each other.
Pieces ==
  /\ Run(file.blocks)
  /\ \A k \in 1 .. Len(stream) : Run(stream[k]) /\ stream[k] # <<>>
  /\ Run(export.buf)
  /\ stream # <<>> => Follows(file.blocks, stream[1]) /\ Follows(stream[Len(stream)], export.buf)
  /\ \A k \in 1 .. Len(stream) - 1 : Follows(stream[k], stream[k + 1])
  /\ stream = <<>> => Follows(file.blocks, export.buf)
  /\ export.buf # <<>> => export.i = export.buf[Len(export.buf)] + 1
  /\ export.on /\ export.buf = <<>> => stream = <<>> /\ file.blocks = <<>>

BackupInv ==
  /\ BackupTyped
  /\ Pieces
  /\ backup = "idle" => file = NoFile /\ stream = <<>> /\ export = NoExport

LEMMA NoPieces ==
  ASSUME BackupTyped, Pieces, file' = file \/ file' = NoFile, stream' = <<>>, export' = NoExport,
         src' = src
  PROVE  BackupTyped' /\ Pieces'
<1>1. /\ NoFile \in [latest : Int, blocks : Seq(Nat), torn : Torn]
      /\ NoExport \in [on : BOOLEAN, i : Nat, to : Nat, buf : Seq(Nat)]
      /\ <<>> \in Seq(Seq(Nat))
      /\ NoFile.blocks = <<>> /\ NoExport.buf = <<>> /\ NoExport.on = FALSE /\ Len(<<>>) = 0
  BY SMT, Z3 DEF NoFile, NoExport, None, Torn
<1>2. BackupTyped'
  BY <1>1 DEF BackupTyped
<1>3. Run(file'.blocks)
  BY <1>1, EmptyRun DEF Pieces
<1>4. Pieces'
  BY SMT, Z3, <1>1, <1>3, EmptyRun DEF Pieces
<1>5. QED
  BY <1>2, <1>4

LEMMA InitBackup == ArchiveInit => BackupInv
<1> SUFFICES ASSUME ArchiveInit PROVE BackupInv
  OBVIOUS
<1>1. /\ NoFile \in [latest : Int, blocks : Seq(Nat), torn : Torn]
      /\ NoExport \in [on : BOOLEAN, i : Nat, to : Nat, buf : Seq(Nat)]
      /\ <<>> \in Seq(Seq(Nat))
      /\ NoFile.blocks = <<>> /\ NoExport.buf = <<>> /\ NoExport.on = FALSE /\ Len(<<>>) = 0
  BY SMT, Z3 DEF NoFile, NoExport, None, Torn
<1>2. BackupTyped
  BY SMT, Z3, <1>1, HeightsAssumption DEF ArchiveInit, BackupTyped
<1>3. Pieces
  BY SMT, Z3, <1>1, EmptyRun DEF ArchiveInit, Pieces
<1>4. QED
  BY <1>2, <1>3 DEF BackupInv, ArchiveInit

\* A flush puts what is buffered at the end of the stream.
LEMMA FlushKeeps ==
  ASSUME BackupTyped, Pieces, NEW s, s = stream \o Flushed(export.buf)
  PROVE  /\ s \in Seq(Seq(Nat))
         /\ \A k \in 1 .. Len(s) : Run(s[k]) /\ s[k] # <<>>
         /\ s # <<>> => Follows(file.blocks, s[1])
         /\ \A k \in 1 .. Len(s) - 1 : Follows(s[k], s[k + 1])
         /\ s = <<>> => stream = <<>> /\ export.buf = <<>>
         /\ export.buf # <<>> => s # <<>> /\ s[Len(s)] = export.buf
<1>1. stream \in Seq(Seq(Nat)) /\ export.buf \in Seq(Nat) /\ Len(stream) \in Nat
  BY SMT, Z3 DEF BackupTyped
<1>2. CASE export.buf = <<>>
  <2>1. s = stream
    BY SMT, Z3, <1>1, <1>2 DEF Flushed
  <2>2. QED
    BY Zenon, <1>1, <1>2, <2>1 DEF Pieces
<1>3. CASE export.buf # <<>>
  <2>1. s = Append(stream, export.buf)
    BY SMT, Z3, <1>1, <1>3 DEF Flushed
  <2>2. /\ s \in Seq(Seq(Nat)) /\ Len(s) = Len(stream) + 1 /\ s # <<>>
        /\ s[Len(s)] = export.buf
        /\ \A k \in 1 .. Len(stream) : s[k] = stream[k]
    BY SMT, Z3, <1>1, <2>1
  <2>3. ASSUME NEW k \in 1 .. Len(s) PROVE Run(s[k]) /\ s[k] # <<>>
    <3>1. CASE k = Len(s)
      BY Zenon, <1>3, <2>2, <3>1 DEF Pieces
    <3>2. CASE k # Len(s)
      <4>1. k \in 1 .. Len(stream)
        BY SMT, Z3, <1>1, <2>2, <3>2
      <4>2. QED
        BY Zenon, <2>2, <4>1 DEF Pieces
    <3>3. QED
      BY <3>1, <3>2
  <2>4. Follows(file.blocks, s[1])
    <3>1. CASE stream = <<>>
      <4>1. s[1] = export.buf
        BY SMT, Z3, <2>2, <3>1
      <4>2. QED
        BY Zenon, <3>1, <4>1 DEF Pieces
    <3>2. CASE stream # <<>>
      <4>1. s[1] = stream[1]
        BY SMT, Z3, <1>1, <2>2, <3>2
      <4>2. QED
        BY Zenon, <3>2, <4>1 DEF Pieces
    <3>3. QED
      BY Zenon, <3>1, <3>2
  <2>5. ASSUME NEW k \in 1 .. Len(s) - 1 PROVE Follows(s[k], s[k + 1])
    <3>1. CASE k = Len(stream)
      <4>1. stream # <<>> /\ s[k] = stream[Len(stream)] /\ s[k + 1] = export.buf
        BY SMT, Z3, <1>1, <2>2, <3>1
      <4>2. QED
        BY Zenon, <4>1 DEF Pieces
    <3>2. CASE k # Len(stream)
      <4>1. k \in 1 .. Len(stream) - 1 /\ s[k] = stream[k] /\ s[k + 1] = stream[k + 1]
        BY SMT, Z3, <1>1, <2>2, <3>2
      <4>2. QED
        BY Zenon, <4>1 DEF Pieces
    <3>3. QED
      BY <3>1, <3>2
  <2>6. QED
    BY Zenon, <1>3, <2>2, <2>3, <2>4, <2>5
<1>4. QED
  BY Zenon, <1>2, <1>3

LEMMA AppendBackup == BackupInv /\ appendBlock => BackupInv'
<1> SUFFICES ASSUME BackupInv, appendBlock PROVE BackupInv'
  OBVIOUS
<1> DEFINE buf == export.buf
<1>1. /\ BackupTyped /\ Pieces /\ export.on
      /\ src' = src /\ file' = file /\ backup' = backup
  BY DEF BackupInv, appendBlock
<1>2. /\ stream \in Seq(Seq(Nat)) /\ buf \in Seq(Nat) /\ export.i \in Nat /\ Len(buf) \in Nat
      /\ Run(buf)
      /\ buf # <<>> => export.i = buf[Len(buf)] + 1
      /\ buf = <<>> => stream = <<>> /\ file.blocks = <<>>
  BY SMT, Z3, <1>1 DEF BackupTyped, Pieces
<1>3. \/ /\ stream' = stream \o Flushed(buf)
         /\ export' = [export EXCEPT !.i = @ + 1, !.buf = <<export.i>>]
      \/ /\ stream' = stream
         /\ export' = [export EXCEPT !.i = @ + 1, !.buf = Append(@, export.i)]
  BY Zenon DEF appendBlock
<1>4. ~(backup = "idle")
  BY SMT, Z3, <1>1 DEF BackupInv, NoExport
<1>5. CASE /\ stream' = stream \o Flushed(buf)
           /\ export' = [export EXCEPT !.i = @ + 1, !.buf = <<export.i>>]
  <2>1. /\ export' \in [on : BOOLEAN, i : Nat, to : Nat, buf : Seq(Nat)]
        /\ export'.buf = <<export.i>> /\ export'.i = export.i + 1 /\ export'.buf # <<>>
        /\ Len(export'.buf) = 1 /\ export'.buf[1] = export.i
    <3>1. /\ <<export.i>> \in Seq(Nat) /\ <<export.i>> # <<>>
          /\ Len(<<export.i>>) = 1 /\ <<export.i>>[1] = export.i
      BY SMT, Z3, <1>2
    <3>2. /\ export' \in [on : BOOLEAN, i : Nat, to : Nat, buf : Seq(Nat)]
          /\ export'.buf = <<export.i>> /\ export'.i = export.i + 1
      <4>1. export \in [on : BOOLEAN, i : Nat, to : Nat, buf : Seq(Nat)]
        BY Zenon, <1>1 DEF BackupTyped
      <4> DEFINE one == <<export.i>>
      <4>2. export' = [export EXCEPT !.i = export.i + 1, !.buf = one] /\ one \in Seq(Nat)
        BY Zenon, <1>5, <3>1
      <4> HIDE DEF one
      <4>3. export' \in [on : BOOLEAN, i : Nat, to : Nat, buf : Seq(Nat)]
            /\ export'.buf = one /\ export'.i = export.i + 1
        <5>1. export.i + 1 \in Nat
          BY SMT, Z3, <1>2
        <5>2. QED
          BY Zenon, <4>1, <4>2, <5>1
      <4>4. QED
        BY Zenon, <4>3 DEF one
    <3>3. QED
      BY Zenon, <3>1, <3>2
  <2>2. Run(export'.buf)
    BY Zenon, <1>2, <2>1, OneRun
  <2>3. /\ stream' \in Seq(Seq(Nat))
        /\ \A k \in 1 .. Len(stream') : Run(stream'[k]) /\ stream'[k] # <<>>
        /\ stream' # <<>> => Follows(file.blocks, stream'[1])
        /\ \A k \in 1 .. Len(stream') - 1 : Follows(stream'[k], stream'[k + 1])
        /\ stream' = <<>> => stream = <<>> /\ buf = <<>>
        /\ buf # <<>> => stream' # <<>> /\ stream'[Len(stream')] = buf
    BY Zenon, <1>1, <1>5, FlushKeeps
  <2>4. stream' # <<>> => Follows(stream'[Len(stream')], export'.buf)
    <3>1. CASE buf # <<>>
      BY <1>2, <2>1, <2>3, <3>1 DEF Follows
    <3>2. CASE buf = <<>>
      <4>1. stream' = <<>>
        BY SMT, Z3, <1>2, <1>5, <3>2 DEF Flushed
      <4>2. QED
        BY <4>1
    <3>3. QED
      BY <3>1, <3>2
  <2>5. stream' = <<>> => Follows(file.blocks, export'.buf)
    BY Zenon, <1>2, <2>3, EmptyRun
  <2>6. BackupTyped'
    BY Zenon, <1>1, <2>1, <2>3 DEF BackupTyped
  <2>7. Pieces'
    BY <1>1, <2>1, <2>2, <2>3, <2>4, <2>5 DEF Pieces
  <2>8. QED
    BY Zenon, <1>1, <1>4, <2>6, <2>7 DEF BackupInv
<1>6. CASE /\ stream' = stream
           /\ export' = [export EXCEPT !.i = @ + 1, !.buf = Append(@, export.i)]
  <2>1. /\ export' \in [on : BOOLEAN, i : Nat, to : Nat, buf : Seq(Nat)]
        /\ export'.buf = buf \o <<export.i>> /\ export'.i = export.i + 1 /\ export'.buf # <<>>
        /\ export'.buf[Len(export'.buf)] = export.i
    <3> DEFINE more == Append(buf, export.i)
    <3>1. /\ more \in Seq(Nat) /\ more # <<>> /\ more[Len(more)] = export.i
          /\ more = buf \o <<export.i>>
      <4>1. Len(more) = Len(buf) + 1 /\ more \in Seq(Nat) /\ more[Len(buf) + 1] = export.i
        BY SMT, Z3, <1>2
      <4>2. more = buf \o <<export.i>>
        <5>1. ASSUME NEW b \in Seq(Nat), NEW x \in Nat PROVE Append(b, x) = b \o <<x>>
          BY SMT, Z3
        <5>2. QED
          BY Zenon, <1>2, <5>1
      <4>3. more # <<>>
        <5>1. Len(more) # 0
          BY SMT, Z3, <1>2, <4>1
        <5>2. QED
          BY SMT, Z3, <5>1
      <4>4. QED
        BY Zenon, <4>1, <4>2, <4>3
    <3> HIDE DEF more
    <3>2. /\ export' \in [on : BOOLEAN, i : Nat, to : Nat, buf : Seq(Nat)]
          /\ export'.buf = more /\ export'.i = export.i + 1
      <4>1. export \in [on : BOOLEAN, i : Nat, to : Nat, buf : Seq(Nat)]
        BY Zenon, <1>1 DEF BackupTyped
      <4>2. export' = [export EXCEPT !.i = export.i + 1, !.buf = more]
        BY Zenon, <1>6 DEF more
      <4>3. export.i + 1 \in Nat
        BY SMT, Z3, <1>2
      <4>4. QED
        BY Zenon, <3>1, <4>1, <4>2, <4>3
    <3>3. QED
      BY Zenon, <3>1, <3>2
  <2>2. Follows(buf, <<export.i>>)
    BY <1>2 DEF Follows
  <2>3. Run(export'.buf)
    BY Zenon, <1>2, <2>1, <2>2, OneRun, RunsJoin
  <2>4. buf # <<>> => export'.buf[1] = buf[1]
    BY SMT, Z3, <1>2, <2>1
  <2>5. stream' # <<>> => Follows(stream'[Len(stream')], export'.buf)
    <3>1. ASSUME stream # <<>> PROVE buf # <<>> /\ Follows(stream[Len(stream)], buf)
      BY Zenon, <1>1, <1>2, <3>1 DEF Pieces
    <3>2. QED
      BY Zenon, <1>6, <2>4, <3>1 DEF Follows
  <2>6. stream' = <<>> => Follows(file.blocks, export'.buf)
    <3>1. ASSUME stream = <<>> PROVE Follows(file.blocks, buf)
      BY Zenon, <1>1, <3>1 DEF Pieces
    <3>2. QED
      BY Zenon, <1>2, <1>6, <2>4, <3>1, EmptyRun DEF Follows
  <2>7. BackupTyped'
    BY Zenon, <1>1, <1>6, <2>1 DEF BackupTyped
  <2>8. Pieces'
    BY Zenon, <1>1, <1>6, <2>1, <2>3, <2>5, <2>6 DEF Pieces
  <2>9. QED
    BY Zenon, <1>1, <1>4, <2>7, <2>8 DEF BackupInv
<1>7. QED
  BY Zenon, <1>3, <1>5, <1>6

LEMMA EndsBackup == BackupInv /\ ExportEnds => BackupInv'
<1> SUFFICES ASSUME BackupInv, ExportEnds PROVE BackupInv'
  OBVIOUS
<1>1. /\ BackupTyped /\ Pieces /\ export.on
      /\ src' = src /\ file' = file /\ backup' = backup
      /\ stream' = stream \o Flushed(export.buf) /\ export' = NoExport
  BY DEF BackupInv, ExportEnds
<1>2. ~(backup = "idle")
  BY SMT, Z3, <1>1 DEF BackupInv, NoExport
<1>3. /\ stream' \in Seq(Seq(Nat))
      /\ \A k \in 1 .. Len(stream') : Run(stream'[k]) /\ stream'[k] # <<>>
      /\ stream' # <<>> => Follows(file.blocks, stream'[1])
      /\ \A k \in 1 .. Len(stream') - 1 : Follows(stream'[k], stream'[k + 1])
  BY Zenon, <1>1, FlushKeeps
<1>4. /\ NoExport \in [on : BOOLEAN, i : Nat, to : Nat, buf : Seq(Nat)]
      /\ NoExport.buf = <<>> /\ NoExport.on = FALSE
  BY SMT, Z3 DEF NoExport
<1>5. BackupTyped'
  BY Zenon, <1>1, <1>3, <1>4 DEF BackupTyped
<1>6. Run(file.blocks)
  BY Zenon, <1>1 DEF Pieces
<1>7. Pieces'
  BY Zenon, <1>1, <1>3, <1>4, <1>6, EmptyRun DEF Pieces
<1>8. QED
  BY Zenon, <1>1, <1>2, <1>5, <1>7 DEF BackupInv

LEMMA ReceiveBackup == BackupInv /\ Receive => BackupInv'
<1> SUFFICES ASSUME BackupInv, Receive PROVE BackupInv'
  OBVIOUS
<1> DEFINE h == Head(stream)
<1> DEFINE u == file.blocks \o h
<1>1. /\ BackupTyped /\ Pieces /\ stream # <<>> /\ backup = "reading"
      /\ src' = src /\ export' = export /\ backup' = backup
      /\ file' = [file EXCEPT !.blocks = u] /\ stream' = Tail(stream)
  BY DEF BackupInv, Receive
<1>2. /\ stream \in Seq(Seq(Nat)) /\ Len(stream) \in Nat /\ Len(stream) >= 1 /\ h = stream[1]
      /\ stream' \in Seq(Seq(Nat)) /\ Len(stream') = Len(stream) - 1
      /\ \A k \in 1 .. Len(stream') : stream'[k] = stream[k + 1]
  BY SMT, Z3, <1>1 DEF BackupTyped
<1>3. /\ h # <<>> /\ Run(h) /\ Run(file.blocks) /\ Follows(file.blocks, h)
  <2>1. 1 \in 1 .. Len(stream)
    BY SMT, Z3, <1>2
  <2>2. QED
    BY Zenon, <1>1, <1>2, <2>1 DEF Pieces
<1>4. Run(u) /\ u \in Seq(Nat) /\ u # <<>> /\ u[Len(u)] = h[Len(h)]
  <2>1. Run(u)
    BY Zenon, <1>3, RunsJoin
  <2>2. file.blocks \in Seq(Nat) /\ h \in Seq(Nat)
    BY Zenon, <1>3 DEF Run
  <2>3. QED
    BY Zenon, <1>3, <2>1, <2>2, JoinEnds DEF Run
<1>5. /\ file' \in [latest : Int, blocks : Seq(Nat), torn : Torn]
      /\ file'.blocks = u
  BY Zenon, <1>1, <1>4 DEF BackupTyped
<1>6. \A k \in 1 .. Len(stream') : Run(stream'[k]) /\ stream'[k] # <<>>
  <2>1. \A k \in 1 .. Len(stream') : k + 1 \in 1 .. Len(stream)
    BY SMT, Z3, <1>2
  <2>2. QED
    BY Zenon, <1>1, <1>2, <2>1 DEF Pieces
<1>7. \A k \in 1 .. Len(stream') - 1 : Follows(stream'[k], stream'[k + 1])
  <2>1. \A k \in 1 .. Len(stream') - 1 :
          /\ k \in 1 .. Len(stream') /\ k + 1 \in 1 .. Len(stream') /\ k + 1 \in 1 .. Len(stream) - 1
    BY SMT, Z3, <1>2
  <2>2. QED
    BY Zenon, <1>1, <1>2, <2>1 DEF Pieces
<1>8. ASSUME stream' # <<>>
      PROVE  Follows(u, stream'[1]) /\ Follows(stream'[Len(stream')], export.buf)
  <2>1. /\ 1 \in 1 .. Len(stream) - 1 /\ stream'[1] = stream[1 + 1]
        /\ stream'[Len(stream')] = stream[Len(stream)]
    BY SMT, Z3, <1>2, <1>8
  <2>2. Follows(h, stream'[1])
    BY Zenon, <1>1, <1>2, <2>1 DEF Pieces
  <2>3. Follows(stream[Len(stream)], export.buf)
    BY Zenon, <1>1 DEF Pieces
  <2>4. QED
    BY Zenon, <1>3, <1>4, <2>1, <2>2, <2>3 DEF Follows
<1>9. ASSUME stream' = <<>> PROVE Follows(u, export.buf)
  <2>1. h = stream[Len(stream)]
    <3>1. Len(stream') = 0
      BY <1>9
    <3>2. Len(stream) = 1
      BY SMT, Z3, <1>2, <3>1
    <3>3. QED
      BY Zenon, <1>2, <3>2
  <2>2. Follows(h, export.buf)
    BY Zenon, <1>1, <2>1 DEF Pieces
  <2>3. QED
    BY Zenon, <1>3, <1>4, <2>2 DEF Follows
<1>10. BackupTyped'
  BY Zenon, <1>1, <1>2, <1>5 DEF BackupTyped
<1>11. Pieces'
  BY Zenon, <1>1, <1>4, <1>5, <1>6, <1>7, <1>8, <1>9 DEF Pieces
<1>12. QED
  BY <1>1, <1>10, <1>11 DEF BackupInv

LEMMA CrashBackupInv ==
  ASSUME BackupInv, NEW n \in Nat, NEW torn \in Torn, CrashBackup(n, torn)
  PROVE  BackupInv'
<1> DEFINE more == IF n = 0 THEN <<>> ELSE SubSeq(Head(stream), 1, n)
<1> DEFINE u == file.blocks \o more
<1>1. /\ BackupTyped /\ Pieces
      /\ n # 0 => stream # <<>> /\ n \in 1 .. Len(Head(stream))
      /\ src' = src /\ backup' = "ended" /\ export' = NoExport /\ stream' = <<>>
      /\ file' = [file EXCEPT !.blocks = u, !.torn = torn]
  BY DEF BackupInv, CrashBackup
<1>2. Run(file.blocks) /\ Run(more) /\ Follows(file.blocks, more)
  <2>1. Run(file.blocks)
    BY Zenon, <1>1 DEF Pieces
  <2>2. CASE n = 0
    BY Zenon, <2>1, <2>2, EmptyRun
  <2>3. CASE n # 0
    <3>1. /\ stream \in Seq(Seq(Nat)) /\ 1 \in 1 .. Len(stream) /\ Head(stream) = stream[1]
      BY SMT, Z3, <1>1, <2>3 DEF BackupTyped
    <3>2. /\ Run(stream[1]) /\ stream[1] # <<>> /\ Follows(file.blocks, stream[1])
      BY Zenon, <1>1, <2>3, <3>1 DEF Pieces
    <3>3. more = SubSeq(stream[1], 1, n) /\ n \in 1 .. Len(stream[1])
      BY Zenon, <1>1, <2>3, <3>1
    <3>4. Run(more) /\ more[1] = stream[1][1]
      BY Zenon, <3>2, <3>3, RunBegins
    <3>5. QED
      BY Zenon, <2>1, <3>2, <3>4 DEF Follows
  <2>4. QED
    BY Zenon, <2>2, <2>3
<1>3. Run(u) /\ u \in Seq(Nat)
  <2>1. Run(u)
    BY Zenon, <1>2, RunsJoin
  <2>2. QED
    BY Zenon, <2>1 DEF Run
<1>4. /\ file' \in [latest : Int, blocks : Seq(Nat), torn : Torn]
      /\ file'.blocks = u
  BY Zenon, <1>1, <1>3 DEF BackupTyped
<1>5. /\ NoExport \in [on : BOOLEAN, i : Nat, to : Nat, buf : Seq(Nat)]
      /\ <<>> \in Seq(Seq(Nat))
      /\ NoExport.buf = <<>> /\ NoExport.on = FALSE
      /\ \A k \in 1 .. Len(<<>>) : FALSE
      /\ \A k \in 1 .. Len(<<>>) - 1 : FALSE
  BY SMT, Z3 DEF NoExport
<1>6. BackupTyped'
  BY Zenon, <1>1, <1>4, <1>5 DEF BackupTyped
<1>7. Pieces'
  BY Zenon, <1>1, <1>3, <1>4, <1>5, EmptyRun DEF Pieces
<1>8. QED
  BY <1>1, <1>6, <1>7 DEF BackupInv

LEMMA CreateBackupInv ==
  ASSUME BackupInv, NEW from \in Nat, NEW to \in Nat \cup {None}, CreateBackup(from, to)
  PROVE  BackupInv'
<1>1. /\ BackupTyped /\ Pieces /\ backup = "idle" /\ backup' # "idle"
      /\ file = NoFile /\ stream = <<>> /\ export = NoExport
      /\ src' = src /\ stream' = stream
  BY DEF BackupInv, CreateBackup
<1>2. \/ file' = NoFile /\ export' = NoExport
      \/ /\ file' = [NoFile EXCEPT !.latest = determineTo(to)]
         /\ export' = [on |-> TRUE, i |-> from, to |-> determineTo(to), buf |-> <<>>]
  BY Zenon DEF CreateBackup
<1>3. determineTo(to) \in Nat
  BY <1>1 DEF determineTo, BackupTyped, None
<1>4. CASE file' = NoFile /\ export' = NoExport
  BY Zenon, <1>1, <1>4, NoPieces DEF BackupInv
<1>5. CASE /\ file' = [NoFile EXCEPT !.latest = determineTo(to)]
           /\ export' = [on |-> TRUE, i |-> from, to |-> determineTo(to), buf |-> <<>>]
  <2>1. /\ file' \in [latest : Int, blocks : Seq(Nat), torn : Torn]
        /\ export' \in [on : BOOLEAN, i : Nat, to : Nat, buf : Seq(Nat)]
        /\ file'.blocks = <<>> /\ export'.buf = <<>>
        /\ \A k \in 1 .. Len(<<>>) : FALSE
        /\ \A k \in 1 .. Len(<<>>) - 1 : FALSE
    <3>1. <<>> \in Seq(Nat) /\ Len(<<>>) = 0
      BY SMT, Z3
    <3>2. /\ file' = [latest |-> determineTo(to), blocks |-> <<>>, torn |-> "no"]
      BY <1>5 DEF NoFile
    <3>3. /\ file' \in [latest : Int, blocks : Seq(Nat), torn : Torn]
          /\ file'.blocks = <<>>
      BY SMT, Z3, <1>3, <3>1, <3>2 DEF Torn
    <3>4. /\ export' \in [on : BOOLEAN, i : Nat, to : Nat, buf : Seq(Nat)]
          /\ export'.buf = <<>>
      BY <1>3, <1>5, <3>1
    <3>5. QED
      BY SMT, Z3, <3>1, <3>3, <3>4
  <2>2. BackupTyped'
    BY Zenon, <1>1, <2>1 DEF BackupTyped
  <2>3. Pieces'
    BY Zenon, <1>1, <2>1, EmptyRun DEF Pieces
  <2>4. QED
    BY Zenon, <1>1, <2>2, <2>3 DEF BackupInv
<1>6. QED
  BY Zenon, <1>2, <1>4, <1>5

-----------------------------------------------------------------------------
(* The invariant of the restores *)

\* The blocks before pos are in the chain, or are the ones just taken; a restore
\* without a gap meets the block after the head.  The snapshot is stale at the end
\* of an epoch only.
RestoreInv ==
  /\ local \in Nat /\ pos \in Nat /\ events \in Nat
  /\ restore \in {"off", "common", "write", "stopping"}
  /\ restore # "off" \/ outcome # "none" => backup = "ended"
  /\ restore = "common" =>
       /\ outcome = "none"
       /\ pos \in 1 .. Len(file.blocks) + 1
       /\ \A k \in 1 .. pos - 1 : file.blocks[k] <= local
       /\ ~gap /\ file.blocks # <<>> => file.blocks[1] <= local + 1
  /\ restore = "write" =>
       /\ outcome = "none"
       /\ pos \in 2 .. Len(file.blocks) + 1
       /\ cur = file.blocks[pos - 1] \/ (cur = Mixed /\ file.torn # "no")
       /\ same /\ ~gap /\ file.torn = "no" => cur = local + 1
  /\ loop = "on" <=> restore \in {"write", "stopping"}
  /\ loop = "on" => progression \in Nat /\ events <= local
  /\ ~panic
  /\ stale => local \in Changes
  /\ RestoreResumes

ArchiveInv == BackupInv /\ RestoreInv

LEMMA InitRestore == ArchiveInit => RestoreInv
BY SMT, Z3, HeightsAssumption DEF ArchiveInit, RestoreInv, RestoreResumes, NoFile

\* As long as the backup runs there was no restore.
LEMMA BeforeRestore ==
  ASSUME RestoreInv, backup # "ended", UNCHANGED restoreVars
  PROVE  RestoreInv'
BY DEF RestoreInv, RestoreResumes, restoreVars

LEMMA FileKept ==
  ASSUME RestoreInv, UNCHANGED <<backup, file, restoreVars>>
  PROVE  RestoreInv'
BY Zenon DEF RestoreInv, RestoreResumes, restoreVars

\* What nextBlock gives for a place in a file of numbers.
LEMMA NextBlocks ==
  ASSUME BackupTyped, NEW p \in Nat \ {0}, NEW b, b \in nextBlock(p)
  PROVE  /\ b = End <=> p > Len(file.blocks)
         /\ b = Failure => file.torn # "no"
         /\ b # End /\ b # Failure =>
              /\ p \in 1 .. Len(file.blocks)
              /\ (b = file.blocks[p] \/ (b = Mixed /\ file.torn # "no"))
BY SMT, Z3 DEF BackupTyped, nextBlock, End, Failure, Mixed

LEMMA StartRestore ==
  ASSUME BackupInv, RestoreInv, NEW saved \in BOOLEAN, RestoreChain(saved)
  PROVE  RestoreInv'
<1>1. /\ file \in [latest : Int, blocks : Seq(Nat), torn : Torn]
      /\ file' = file /\ backup' = backup /\ same' = same /\ local' = local
  BY DEF BackupInv, BackupTyped, RestoreChain, exportVars
<1>0. stale' => local' \in Changes
  BY Zenon, <1>1 DEF RestoreChain, RestoreInv
<1>2. CASE same /\ file.latest <= local
  BY <1>0, <1>1, <1>2 DEF RestoreChain, RestoreInv, RestoreResumes, Finish
<1>3. CASE ~(same /\ file.latest <= local)
  <2>1. /\ restore' = "common" /\ outcome' = "none" /\ pos' = 1 /\ restore = "off"
        /\ gap' = (file.blocks # <<>> /\ file.blocks[1] > local + 1)
        /\ UNCHANGED <<local, loop, events, progression, panic>>
        /\ backup = "ended"
    BY <1>3 DEF RestoreChain
  <2>2. /\ local \in Nat /\ events \in Nat /\ loop # "on" /\ ~panic
    BY <2>1 DEF RestoreInv
  <2>3. ASSUME ~gap', file.blocks # <<>> PROVE file.blocks[1] <= local + 1
    <3>1. ~(file.blocks[1] > local + 1)
      BY Zenon, <2>1, <2>3
    <3>2. file.blocks[1] \in Nat
      BY SMT, Z3, <1>1, <2>3
    <3>3. QED
      BY SMT, Z3, <2>2, <3>1, <3>2
  <2>4. pos' \in Nat /\ pos' \in 1 .. Len(file.blocks) + 1 /\ ~(\E k \in 1 .. pos' - 1 : TRUE)
    BY SMT, Z3, <1>1, <2>1
  <2>5. QED
    BY <1>0, <1>1, <2>1, <2>2, <2>3, <2>4 DEF RestoreInv, RestoreResumes
<1>4. QED
  BY <1>2, <1>3

LEMMA ConsumeRestore ==
  ASSUME BackupInv, RestoreInv, NEW b, NEW shutdown, consumeCommonBlocks(b, shutdown)
  PROVE  RestoreInv'
<1>1. /\ BackupTyped /\ file \in [latest : Int, blocks : Seq(Nat), torn : Torn]
      /\ Run(file.blocks)
      /\ file' = file /\ backup' = backup /\ same' = same /\ local' = local /\ gap' = gap
      /\ panic' = panic /\ pos' = pos + 1 /\ stale' = stale
      /\ restore = "common" /\ b \in nextBlock(pos)
  BY DEF BackupInv, Pieces, BackupTyped, consumeCommonBlocks, exportVars
<1>2. /\ backup = "ended" /\ outcome = "none" /\ pos \in Nat \ {0} /\ local \in Nat
      /\ pos \in 1 .. Len(file.blocks) + 1 /\ Len(file.blocks) \in Nat
      /\ \A k \in 1 .. pos - 1 : file.blocks[k] <= local
      /\ ~gap /\ file.blocks # <<>> => file.blocks[1] <= local + 1
      /\ loop # "on" /\ ~panic
  BY SMT, Z3, <1>1 DEF RestoreInv
<1>3. /\ b = End <=> pos > Len(file.blocks)
      /\ b = Failure => file.torn # "no"
      /\ b # End /\ b # Failure =>
           /\ pos \in 1 .. Len(file.blocks)
           /\ (b = file.blocks[pos] \/ (b = Mixed /\ file.torn # "no"))
  BY Zenon, <1>1, <1>2, NextBlocks
<1>4. CASE b = End
  <2>1. /\ restore' = "off" /\ outcome' = "ok" /\ loop' = loop /\ events' = events
        /\ progression' = progression
    BY <1>4 DEF consumeCommonBlocks, Finish
  <2>2. file.blocks # <<>> => file.blocks[Len(file.blocks)] <= local
    BY SMT, Z3, <1>1, <1>2, <1>3, <1>4
  <2>3. QED
    BY SMT, Z3, <1>1, <1>2, <2>1, <2>2 DEF RestoreInv, RestoreResumes
<1>5. CASE b # End /\ (b = Failure \/ (b = 0 /\ ~same))
  <2>1. /\ restore' = "off" /\ outcome' = "error" /\ loop' = loop /\ events' = events
        /\ progression' = progression
    BY <1>5 DEF consumeCommonBlocks, Finish
  <2>2. QED
    BY SMT, Z3, <1>1, <1>2, <1>3, <1>5, <2>1 DEF RestoreInv, RestoreResumes
<1>6. CASE /\ b # End /\ ~(b = Failure \/ (b = 0 /\ ~same))
           /\ b # 0 /\ (b = Mixed \/ b > local \/ ~same)
  <2>1. /\ restore' = "write" /\ cur' = b /\ outcome' = "none" /\ loop' = "on" /\ events' = 0
        /\ progression' = 0
    BY <1>6 DEF consumeCommonBlocks, StartProgression
  <2>2. ASSUME same, ~gap, file.torn = "no" PROVE b = local + 1
    <3>1. b = file.blocks[pos] /\ pos \in 1 .. Len(file.blocks) /\ b \in Nat
      BY SMT, Z3, <1>1, <1>3, <1>6, <2>2
    <3>2. b > local
      BY SMT, Z3, <1>6, <2>2, <3>1 DEF Mixed
    <3>3. CASE pos = 1
      BY SMT, Z3, <1>2, <2>2, <3>1, <3>2, <3>3
    <3>4. CASE pos # 1
      <4>1. pos - 1 \in 1 .. Len(file.blocks) - 1 /\ pos - 1 \in 1 .. pos - 1 /\ (pos - 1) + 1 = pos
        BY SMT, Z3, <1>2, <3>1, <3>4
      <4>2. file.blocks[pos] = file.blocks[pos - 1] + 1 /\ file.blocks[pos - 1] <= local
        BY <1>1, <1>2, <4>1 DEF Run
      <4>3. file.blocks[pos - 1] \in Nat
        BY SMT, Z3, <1>1, <3>1, <4>1
      <4>4. QED
        BY SMT, Z3, <1>2, <3>1, <3>2, <4>2, <4>3
    <3>5. QED
      BY <3>3, <3>4
  <2>3. pos' \in 2 .. Len(file.blocks) + 1 /\ pos' - 1 = pos
    BY SMT, Z3, <1>1, <1>2, <1>3, <1>6
  <2>4. QED
    BY SMT, Z3, <1>1, <1>2, <1>3, <1>6, <2>1, <2>2, <2>3 DEF RestoreInv, RestoreResumes
<1>7. CASE /\ b # End /\ ~(b = Failure \/ (b = 0 /\ ~same))
           /\ ~(b # 0 /\ (b = Mixed \/ b > local \/ ~same))
  <2>1. /\ \/ restore' = "off" /\ outcome' = "shutdown"
           \/ restore' = restore /\ outcome' = outcome
        /\ loop' = loop /\ events' = events /\ progression' = progression
    BY <1>7 DEF consumeCommonBlocks, Finish
  <2>2. b = file.blocks[pos] /\ pos \in 1 .. Len(file.blocks) /\ b <= local
    BY SMT, Z3, <1>1, <1>2, <1>3, <1>7 DEF Mixed
  <2>3. pos' \in 1 .. Len(file.blocks) + 1 /\ \A k \in 1 .. pos' - 1 : file.blocks[k] <= local
    BY SMT, Z3, <1>1, <1>2, <2>2
  <2>4. QED
    BY SMT, Z3, <1>1, <1>2, <2>1, <2>3 DEF RestoreInv, RestoreResumes
<1>8. QED
  BY Zenon, <1>4, <1>5, <1>6, <1>7

LEMMA ImportRestore ==
  ASSUME BackupInv, RestoreInv, NEW b, NEW shutdown, ImportBlock(b, shutdown)
  PROVE  RestoreInv'
<1>1. /\ BackupTyped /\ file \in [latest : Int, blocks : Seq(Nat), torn : Torn]
      /\ Run(file.blocks)
      /\ file' = file /\ backup' = backup /\ same' = same /\ gap' = gap
      /\ panic' = panic /\ loop' = loop /\ restore = "write"
  BY DEF BackupInv, Pieces, BackupTyped, ImportBlock, exportVars
<1>2. /\ backup = "ended" /\ outcome = "none" /\ pos \in Nat \ {0} /\ local \in Nat
      /\ pos \in 2 .. Len(file.blocks) + 1 /\ Len(file.blocks) \in Nat
      /\ cur = file.blocks[pos - 1] \/ (cur = Mixed /\ file.torn # "no")
      /\ same /\ ~gap /\ file.torn = "no" => cur = local + 1
      /\ loop = "on" /\ ~panic /\ events \in Nat /\ progression \in Nat /\ events <= local
  BY SMT, Z3, <1>1 DEF RestoreInv
<1>3. CASE ~Writes(cur)
  <2>1. /\ restore' = "stopping" /\ outcome' = "error" /\ local' = local /\ stale' = stale /\ pos' = pos
        /\ cur' = cur /\ progression' = progression /\ events' = events
    BY <1>3 DEF ImportBlock, Return
  <2>2. file.torn # "no" \/ gap \/ ~same \/ (stale /\ local \in Changes)
    BY <1>2, <1>3 DEF Writes, RestoreInv
  <2>3. QED
    BY <1>1, <1>2, <2>1, <2>2 DEF RestoreInv, RestoreResumes
<1>4. CASE Writes(cur)
  <2>0. stale' => local' \in Changes
    BY Zenon, <1>4 DEF ImportBlock
  <2>1. /\ b \in nextBlock(pos) /\ local' = cur /\ events' = events + 1 /\ progression' = cur
        /\ pos' = pos + 1 /\ cur' = b
        /\ IF b = Failure THEN Return("error")
           ELSE IF b = End THEN Return("ok")
           ELSE IF shutdown THEN Return("shutdown")
           ELSE UNCHANGED <<restore, outcome>>
    BY <1>4 DEF ImportBlock
  <2>2. /\ same /\ cur = local + 1 /\ cur = file.blocks[pos - 1] /\ cur \in Nat
    BY SMT, Z3, <1>2, <1>4 DEF Writes, Mixed
  <2>3. /\ b = End <=> pos > Len(file.blocks)
        /\ b = Failure => file.torn # "no"
        /\ b # End /\ b # Failure =>
             /\ pos \in 1 .. Len(file.blocks)
             /\ (b = file.blocks[pos] \/ (b = Mixed /\ file.torn # "no"))
    BY Zenon, <1>1, <1>2, <2>1, NextBlocks
  <2>4. /\ local' \in Nat /\ events' \in Nat /\ pos' \in Nat /\ progression' \in Nat
        /\ events' <= local'
    BY SMT, Z3, <1>2, <2>1, <2>2
  <2>5. CASE b = Failure
    <3>1. restore' = "stopping" /\ outcome' = "error"
      BY <2>1, <2>5 DEF Return
    <3>2. QED
      BY <1>1, <1>2, <2>0, <2>3, <2>4, <2>5, <3>1 DEF RestoreInv, RestoreResumes
  <2>6. CASE b = End
    <3>1. restore' = "stopping" /\ outcome' = "ok"
      BY SMT, Z3, <2>1, <2>6 DEF Return, End, Failure
    <3>2. pos - 1 = Len(file.blocks)
      BY SMT, Z3, <1>2, <2>3, <2>6
    <3>3. QED
      BY SMT, Z3, <1>1, <1>2, <2>0, <2>1, <2>2, <2>4, <3>1, <3>2 DEF RestoreInv, RestoreResumes
  <2>7. CASE b # Failure /\ b # End /\ shutdown
    <3>1. restore' = "stopping" /\ outcome' = "shutdown"
      BY <2>1, <2>7 DEF Return
    <3>2. QED
      BY <1>1, <1>2, <2>0, <2>4, <3>1 DEF RestoreInv, RestoreResumes
  <2>8. CASE b # Failure /\ b # End /\ ~shutdown
    <3>1. restore' = "write" /\ outcome' = "none"
      BY <1>1, <1>2, <2>1, <2>8
    <3>2. ASSUME file.torn = "no" PROVE b = local' + 1
      <4>1. pos - 1 \in 1 .. Len(file.blocks) - 1 /\ (pos - 1) + 1 = pos /\ b = file.blocks[pos]
        BY SMT, Z3, <1>2, <2>3, <2>8, <3>2
      <4>2. file.blocks[pos] = file.blocks[pos - 1] + 1
        BY Zenon, <1>1, <4>1 DEF Run
      <4>3. QED
        BY <2>1, <2>2, <4>1, <4>2
    <3>3. pos' \in 2 .. Len(file.blocks) + 1 /\ pos' - 1 = pos
      BY SMT, Z3, <1>2, <2>1, <2>3, <2>8
    <3>4. QED
      BY <1>1, <1>2, <2>0, <2>1, <2>3, <2>4, <2>8, <3>1, <3>2, <3>3 DEF RestoreInv, RestoreResumes
  <2>9. QED
    BY <2>5, <2>6, <2>7, <2>8
<1>5. QED
  BY <1>3, <1>4

LEMMA UpdateRestore == RestoreInv /\ UpdateLoop => RestoreInv'
<1> SUFFICES ASSUME RestoreInv, UpdateLoop PROVE RestoreInv'
  OBVIOUS
<1>1. /\ file' = file /\ backup' = backup
      /\ UNCHANGED <<same, local, stale, restore, pos, cur, outcome, gap, loop>>
      /\ loop = "on" /\ events > 0 /\ events' = events - 1
      /\ local \in Nat /\ events \in Nat /\ progression \in Nat /\ events <= local
  BY DEF UpdateLoop, RestoreInv, exportVars
<1>2. ~panic' /\ progression' \in Nat /\ events' \in Nat /\ events' <= local
  <2>1. progression # None
    BY SMT, Z3, <1>1 DEF None
  <2>2. ~panic'
    BY Zenon, <2>1 DEF UpdateLoop, RestoreInv
  <2>3. progression' = local - events + 1
    BY Zenon, <2>1 DEF UpdateLoop
  <2>4. QED
    BY SMT, Z3, <1>1, <2>2, <2>3
<1>3. QED
  BY Zenon, <1>1, <1>2 DEF RestoreInv, RestoreResumes

LEMMA StopRestore == RestoreInv /\ StopProgression => RestoreInv'
<1> SUFFICES ASSUME RestoreInv, StopProgression PROVE RestoreInv'
  OBVIOUS
<1>1. /\ file' = file /\ backup' = backup
      /\ UNCHANGED <<same, local, stale, pos, cur, outcome, gap, panic>>
      /\ restore = "stopping" /\ restore' = "off" /\ loop' = "off" /\ events' = 0
  BY DEF StopProgression, exportVars
<1>2. QED
  BY <1>1 DEF RestoreInv, RestoreResumes

LEMMA FollowRestore == ArchiveInv /\ Follow => RestoreInv'
<1> SUFFICES ASSUME BackupInv, RestoreInv, Follow PROVE RestoreInv'
  BY DEF ArchiveInv
<1>1. /\ file' = file /\ backup' = backup /\ file \in [latest : Int, blocks : Seq(Nat), torn : Torn]
      /\ UNCHANGED <<same, restore, pos, cur, outcome, gap, progression, loop, events, panic>>
      /\ restore = "off" /\ local' = local + 1 /\ local \in Nat /\ ~stale /\ stale' = stale
  BY DEF Follow, exportVars, BackupInv, BackupTyped, RestoreInv
<1>2. file.blocks # <<>> => file.blocks[Len(file.blocks)] \in Nat
  BY SMT, Z3, <1>1
<1>3. QED
  BY SMT, Z3, <1>1, <1>2 DEF RestoreInv, RestoreResumes

-----------------------------------------------------------------------------
(* The theorems *)

LEMMA ArchiveNextInv == ArchiveInv /\ [ArchiveNext]_archiveVars => ArchiveInv'
<1> SUFFICES ASSUME ArchiveInv, [ArchiveNext]_archiveVars PROVE ArchiveInv'
  OBVIOUS
<1> USE DEF ArchiveInv
<1>1. ASSUME UNCHANGED exportVars PROVE BackupInv'
  BY Zenon, <1>1 DEF exportVars, BackupInv, BackupTyped, Pieces
<1>2. CASE Grow
  <2>1. BackupInv'
    BY SMT, Z3, <1>2 DEF Grow, BackupInv, BackupTyped, Pieces
  <2>2. QED
    BY <1>2, <2>1, FileKept DEF Grow
<1>3. ASSUME NEW from \in 0 .. MaxSource, NEW to \in None .. MaxSource, CreateBackup(from, to)
      PROVE  ArchiveInv'
  <2>1. from \in Nat /\ to \in Nat \cup {None}
    BY SMT, Z3, HeightsAssumption DEF None
  <2>2. QED
    BY <1>3, <2>1, CreateBackupInv, BeforeRestore DEF CreateBackup
<1>4. CASE appendBlock
  BY <1>4, AppendBackup, FileKept DEF appendBlock
<1>5. CASE ExportEnds
  BY <1>5, EndsBackup, FileKept DEF ExportEnds
<1>6. CASE Receive
  BY <1>6, ReceiveBackup, BeforeRestore DEF Receive
<1>7. ASSUME backup = "reading", StreamEnds \/ Canceled \/ StreamFails PROVE ArchiveInv'
  <2>1. /\ file' = file \/ file' = NoFile
        /\ stream' = <<>> /\ export' = NoExport /\ src' = src /\ backup' = "ended"
        /\ UNCHANGED restoreVars
    BY <1>7 DEF StreamEnds, Canceled, StreamFails, Result
  <2>2. BackupTyped' /\ Pieces'
    BY <2>1, NoPieces DEF BackupInv
  <2>3. QED
    BY <1>7, <2>1, <2>2, BeforeRestore DEF BackupInv
<1>8. ASSUME NEW n \in 0 .. MaxSource + 1, NEW torn \in {"no", "size", "payload"}, CrashBackup(n, torn)
      PROVE  ArchiveInv'
  <2>1. n \in Nat /\ torn \in Torn
    BY SMT, Z3, HeightsAssumption DEF Torn
  <2>2. QED
    BY Zenon, <1>8, <2>1, CrashBackupInv, BeforeRestore DEF CrashBackup
<1>9. ASSUME NEW saved \in BOOLEAN, RestoreChain(saved) PROVE ArchiveInv'
  BY <1>1, <1>9, StartRestore DEF RestoreChain
<1>10. ASSUME NEW b, NEW shutdown, consumeCommonBlocks(b, shutdown) PROVE ArchiveInv'
  BY <1>1, <1>10, ConsumeRestore DEF consumeCommonBlocks
<1>11. ASSUME NEW b, NEW shutdown, ImportBlock(b, shutdown) PROVE ArchiveInv'
  BY <1>1, <1>11, ImportRestore DEF ImportBlock
<1>12. CASE UpdateLoop
  BY <1>1, <1>12, UpdateRestore DEF UpdateLoop
<1>13. CASE StopProgression
  BY <1>1, <1>13, StopRestore DEF StopProgression
<1>14. CASE Follow
  BY <1>1, <1>14, FollowRestore DEF Follow
<1>15. CASE UNCHANGED archiveVars
  BY <1>1, <1>15, FileKept DEF archiveVars, exportVars
<1>16. QED
  BY Zenon, <1>2, <1>3, <1>4, <1>5, <1>6, <1>7, <1>8, <1>9, <1>10, <1>11, <1>12, <1>13, <1>14, <1>15
  DEF ArchiveNext, StreamEnds, Canceled, StreamFails

LEMMA ArchiveInvHolds == ArchiveSpec => []ArchiveInv
<1>1. ArchiveInit => ArchiveInv
  BY InitBackup, InitRestore DEF ArchiveInv
<1>2. QED
  BY <1>1, ArchiveNextInv, PTL DEF ArchiveSpec

\* A restore that was not stopped (archive/restore.go, importBlocks) brings the
\* chain up to the last block of the file, and fails only for a file that is
\* torn, begins above the chain, or is of another chain, or after the last block of
\* an epoch that changes the set: for any range, any sizes of the blocks and any
\* epochs, and however often it was stopped before.
THEOREM RestoreResumesHolds == ArchiveSpec => []RestoreResumes
<1>1. ArchiveInv => RestoreResumes
  BY DEF ArchiveInv, RestoreInv
<1>2. QED
  BY <1>1, ArchiveInvHolds, PTL

\* RunUpdateLoop (common/progress/chain.go) never meets the progression that
\* StopProgression dropped.
THEOREM ProgressNotNilHolds == ArchiveSpec => []ProgressNotNil
<1>1. ArchiveInv => ProgressNotNil
  BY DEF ArchiveInv, RestoreInv, ProgressNotNil
<1>2. QED
  BY <1>1, ArchiveInvHolds, PTL
=============================================================================
