------------------------------ MODULE Archive -------------------------------
(***************************************************************************)
(* Backup and restore of a chain (archive, the Export service of           *)
(* server/system_service.go, common/progress): a client asks a node for a  *)
(* range of blocks and writes what it streams to a file; another node      *)
(* starts from that file, as often as it takes.                            *)
(*                                                                         *)
(* The blocks of the exporting node are their numbers; its chain grows and *)
(* is final.  The process that writes the file may be stopped by a signal, *)
(* lose the stream, or crash in the middle of a write.                     *)
(***************************************************************************)
EXTENDS Integers, Sequences, FiniteSets, FiniteSetsExt

CONSTANTS
  MaxSource,     \* bound: height of the exporting node
  Sizes,         \* encoded size of a block, by number
  maxPayload,    \* defaultMaxGRPCPayloadSize
  Changes,       \* the last blocks of epochs after which a set seals that the one before would not accept
  MaxRestores    \* bound: starts with the file

ASSUME HeightsAssumption == MaxSource \in Nat

VARIABLES
  src,           \* height of the exporting node
  export,        \* the handler of Export: next block, end of the range, buffer
  stream,        \* events sent and not received
  backup,        \* the client: "idle", "reading", "ended"
  received,      \* numbers received, first and last
  file,          \* metadata, blocks, and how the last of them is torn
  report,        \* what CreateBackup returned
  same,          \* the restoring node has the genesis of the exporting one
  local,         \* height of the restoring node
  stale,         \* its snapshot has not the set that seals the next block
  restore,       \* "off", "common", "write", "stopping"
  pos, cur,      \* place in the file, block to be written
  outcome,       \* of the last restore
  gap,           \* the file began above the chain when the restore started
  progression, loop, events,   \* ProgressionWrapper, its goroutine, its subscription
  panic,
  imports        \* starts with the file

exportVars == <<src, export, stream, backup, received, file, report>>
restoreVars == <<same, local, stale, restore, pos, cur, outcome, gap, progression, loop, events, panic, imports>>
archiveVars == <<exportVars, restoreVars>>

None == -1
NoFile == [latest |-> None, blocks |-> <<>>, torn |-> "no"]
Mixed == -2       \* a block of the first bytes of one and the last of another

-----------------------------------------------------------------------------
(* The exporting node *)

NoExport == [on |-> FALSE, i |-> 0, to |-> 0, buf |-> <<>>]
Grow ==
  /\ src < MaxSource
  /\ src' = src + 1
  /\ UNCHANGED <<export, stream, backup, received, file, report, restoreVars>>

BufLen(buf) == MapThenSumSet(LAMBDA k : Sizes[buf[k]], DOMAIN buf)
canLoop(e) == IF e.to = 0 THEN e.i <= src ELSE e.i <= e.to

\* The events of a flush: none for an empty buffer.
Flushed(buf) == IF buf = <<>> THEN <<>> ELSE <<buf>>

\* The body of the loop of Export: what is buffered is sent first if the block
\* does not fit.
appendBlock ==
  /\ export.on /\ canLoop(export) /\ export.i <= src
  /\ LET full == BufLen(export.buf) + Sizes[export.i] >= maxPayload
     IN /\ stream' = IF full THEN stream \o Flushed(export.buf) ELSE stream
        /\ export' = [export EXCEPT !.i = @ + 1,
                                    !.buf = IF full THEN <<export.i>> ELSE Append(@, export.i)]
  /\ UNCHANGED <<src, backup, received, file, report, restoreVars>>

ExportEnds ==
  /\ export.on /\ ~(canLoop(export) /\ export.i <= src)
  /\ stream' = stream \o Flushed(export.buf)
  /\ export' = NoExport
  /\ UNCHANGED <<src, backup, received, file, report, restoreVars>>

-----------------------------------------------------------------------------
(* CreateBackup *)

NoReport == [ok |-> FALSE, from |-> None, to |-> None, whole |-> FALSE]

\* determineTo: the block asked for if it is below the head, else the head.
determineTo(to) == IF to # None /\ to < src THEN to ELSE src

\* The file is new, and begins with the metadata.  A range the handler refuses
\* ends the stream at once with an error, and the file is removed.
CreateBackup(from, to) ==
  LET reqTo == determineTo(to)
      refused == reqTo # 0 /\ from >= reqTo
  IN /\ backup = "idle"
     /\ backup' = IF refused THEN "ended" ELSE "reading"
     /\ file' = IF refused THEN NoFile ELSE [NoFile EXCEPT !.latest = reqTo]
     /\ export' = IF refused THEN NoExport ELSE [on |-> TRUE, i |-> from, to |-> reqTo, buf |-> <<>>]
     /\ UNCHANGED <<src, stream, received, report, restoreVars>>

\* processExportStream: an event, and the ends of the stream.
Receive ==
  /\ backup = "reading" /\ stream # <<>>
  /\ file' = [file EXCEPT !.blocks = @ \o Head(stream)]
  /\ received' = [first |-> IF received.first = None THEN Head(Head(stream)) ELSE received.first,
                  last |-> Head(stream)[Len(Head(stream))]]
  /\ stream' = Tail(stream)
  /\ UNCHANGED <<src, export, backup, report, restoreVars>>

\* getResult, and what CreateBackup does with it.
Result(whole) ==
  /\ backup' = "ended"
  /\ report' = IF received.first = None THEN NoReport
               ELSE [ok |-> TRUE, from |-> received.first, to |-> received.last, whole |-> whole]
  /\ file' = IF received.first = None THEN NoFile ELSE file
  /\ stream' = <<>> /\ export' = NoExport
  /\ UNCHANGED <<src, received, restoreVars>>

StreamEnds == backup = "reading" /\ stream = <<>> /\ ~export.on /\ Result(TRUE)
Canceled == backup = "reading" /\ Result(FALSE)

StreamFails ==
  /\ backup = "reading"
  /\ backup' = "ended" /\ file' = NoFile /\ stream' = <<>> /\ export' = NoExport
  /\ UNCHANGED <<src, received, report, restoreVars>>

\* The client crashes while it writes an event: the file ends anywhere in it.
CrashBackup(n, torn) ==
  /\ backup = "reading"
  /\ IF torn = "no" THEN n = 0 ELSE stream # <<>> /\ n \in 1 .. Len(Head(stream))
  /\ file' = [file EXCEPT !.blocks = @ \o (IF n = 0 THEN <<>> ELSE SubSeq(Head(stream), 1, n)), !.torn = torn]
  /\ backup' = "ended" /\ stream' = <<>> /\ export' = NoExport
  /\ UNCHANGED <<src, received, report, restoreVars>>

-----------------------------------------------------------------------------
(* The restoring node *)

\* nextBlock: the blocks one after the other, then nothing.  A block whose size
\* is cut off is an error; one whose payload is cut off is filled up with what
\* the buffer held before, and may parse.
End == -3
Failure == -4
nextBlock(p) ==
  IF p > Len(file.blocks) THEN {End}
  ELSE IF p < Len(file.blocks) \/ file.torn = "no" THEN {file.blocks[p]}
  ELSE IF file.torn = "size" THEN {Failure}
  ELSE {Failure, Mixed}

Finish(o) == restore' = "off" /\ outcome' = o

\* A start with the file, and importBlocks up to the first block; there is nothing
\* to do if the chain has the latest block of the file.  Where the snapshots were
\* not saved they are made again from the head, which names the set it was sealed
\* by.
RestoreChain(saved) ==
  /\ backup = "ended" /\ file # NoFile /\ restore = "off" /\ imports < MaxRestores
  /\ imports' = imports + 1
  /\ stale' = IF saved THEN stale ELSE local \in Changes
  /\ IF same /\ file.latest <= local
     THEN Finish("ok") /\ UNCHANGED <<pos, gap>>
     ELSE /\ restore' = "common" /\ outcome' = "none" /\ pos' = 1
          /\ gap' = (file.blocks # <<>> /\ file.blocks[1] > local + 1)
  /\ UNCHANGED <<exportVars, same, local, cur, progression, loop, events, panic>>

StartProgression == progression' = 0 /\ loop' = "on" /\ events' = 0

\* Mutant: the first block of the file is written, whatever the chain has.
consumeNothing(b, shutdown) ==
  /\ restore = "common" /\ b \in nextBlock(pos)
  /\ pos' = pos + 1
  /\ IF b = End THEN Finish("ok") /\ UNCHANGED <<cur, progression, loop, events>>
     ELSE IF b = Failure \/ (b = 0 /\ ~same) THEN Finish("error") /\ UNCHANGED <<cur, progression, loop, events>>
     ELSE restore' = "write" /\ cur' = b /\ outcome' = "none" /\ StartProgression
  /\ UNCHANGED <<exportVars, same, local, stale, gap, panic, imports>>

\* One round of consumeCommonBlocks.
consumeCommonBlocks(b, shutdown) ==
  /\ restore = "common" /\ b \in nextBlock(pos)
  /\ pos' = pos + 1
  /\ IF b = End THEN Finish("ok") /\ UNCHANGED <<cur, progression, loop, events>>
     ELSE IF b = Failure \/ (b = 0 /\ ~same) THEN Finish("error") /\ UNCHANGED <<cur, progression, loop, events>>
     ELSE IF b # 0 /\ (b = Mixed \/ b > local \/ ~same)
     THEN restore' = "write" /\ cur' = b /\ outcome' = "none" /\ StartProgression
     ELSE /\ IF b # 0 /\ shutdown THEN Finish("shutdown") ELSE UNCHANGED <<restore, outcome>>
          /\ UNCHANGED <<cur, progression, loop, events>>
  /\ UNCHANGED <<exportVars, same, local, stale, gap, panic, imports>>

\* The return of importBlocks, with the deferred StopProgression to come.
Return(o) == restore' = "stopping" /\ outcome' = o

\* WriteBlock: the next block of this chain, and no other, if the snapshot of its
\* parent has the set that sealed it.
Writes(b) == same /\ b = local + 1 /\ ~stale

\* One round of the loop of importBlocks; b is the block after this one.  The hook
\* that reads the next set from the staking contract is not run.
ImportBlock(b, shutdown) ==
  /\ restore = "write"
  /\ IF ~Writes(cur)
     THEN Return("error") /\ UNCHANGED <<local, stale, pos, cur, progression, events>>
     ELSE /\ b \in nextBlock(pos)
          /\ local' = cur /\ stale' = (cur \in Changes) /\ events' = events + 1
          /\ progression' = cur
          /\ pos' = pos + 1 /\ cur' = b
          /\ IF b = Failure THEN Return("error")
             ELSE IF b = End THEN Return("ok")
             ELSE IF shutdown THEN Return("shutdown")
             ELSE UNCHANGED <<restore, outcome>>
  /\ UNCHANGED <<exportVars, same, gap, loop, panic, imports>>

\* The goroutine of the progression takes an event.
UpdateLoop ==
  /\ loop = "on" /\ events > 0
  /\ events' = events - 1
  /\ panic' = (panic \/ progression = None)
  /\ progression' = IF progression = None THEN None ELSE local - events + 1
  /\ UNCHANGED <<exportVars, same, local, stale, restore, pos, cur, outcome, gap, loop, imports>>

\* Mutant: the goroutine is told to stop and not waited for.
StopProgressionAsync ==
  /\ restore = "stopping"
  /\ restore' = "off" /\ progression' = None
  /\ UNCHANGED <<exportVars, same, local, stale, pos, cur, outcome, gap, loop, events, panic, imports>>

\* The goroutine has to take the stop before the progression is dropped.
StopProgression ==
  /\ restore = "stopping" /\ loop = "on"
  /\ restore' = "off" /\ loop' = "off" /\ progression' = None /\ events' = 0
  /\ UNCHANGED <<exportVars, same, local, stale, pos, cur, outcome, gap, panic, imports>>

\* Between two restores the node follows the chain, and runs the hook.
Follow ==
  /\ restore = "off" /\ same /\ local < src /\ ~stale
  /\ local' = local + 1
  /\ UNCHANGED <<exportVars, same, stale, restore, pos, cur, outcome, gap, progression, loop, events, panic, imports>>

-----------------------------------------------------------------------------
ArchiveInit ==
  /\ src \in 0 .. MaxSource /\ export = NoExport /\ stream = <<>> /\ backup = "idle"
  /\ received = [first |-> None, last |-> None] /\ file = NoFile /\ report = NoReport
  /\ same \in BOOLEAN /\ local \in 0 .. (IF same THEN src ELSE 0) /\ stale = FALSE /\ restore = "off"
  /\ pos = 1 /\ cur = None /\ outcome = "none" /\ gap = FALSE
  /\ progression = None /\ loop = "off" /\ events = 0 /\ panic = FALSE /\ imports = 0

ArchiveNext ==
  \/ Grow
  \/ \E from \in 0 .. MaxSource, to \in None .. MaxSource : CreateBackup(from, to)
  \/ appendBlock \/ ExportEnds \/ Receive \/ StreamEnds \/ Canceled \/ StreamFails
  \/ \E n \in 0 .. MaxSource + 1, torn \in {"no", "size", "payload"} : CrashBackup(n, torn)
  \/ \E saved \in BOOLEAN : RestoreChain(saved)
  \/ \E b \in Failure .. MaxSource, shutdown \in BOOLEAN : consumeCommonBlocks(b, shutdown)
  \/ \E b \in Failure .. MaxSource, shutdown \in BOOLEAN : ImportBlock(b, shutdown)
  \/ UpdateLoop \/ StopProgression \/ Follow

ArchiveSpec == ArchiveInit /\ [][ArchiveNext]_archiveVars

-----------------------------------------------------------------------------
(* Properties *)

\* A restore that was not stopped brings the chain up to the last whole block of
\* the file, whatever an earlier one that was stopped has written.  It fails only
\* for a file that is torn, begins above the chain, or is of another chain, and at
\* the end of an epoch that changes the set, when the hook of that block was not
\* run because a restore wrote it, or what it had left was not saved.
RestoreResumes ==
  /\ outcome = "ok" /\ file.blocks # <<>> =>
       file.latest <= local \/ file.blocks[Len(file.blocks)] <= local
  /\ outcome = "error" => file.torn # "no" \/ gap \/ ~same \/ (stale /\ local \in Changes)

\* The goroutine that follows the progress of a restore never meets a progress
\* that was dropped.
ProgressNotNil == ~panic
=============================================================================
