--------------------------- MODULE FileTransmit ---------------------------
(***************************************************************************)
(* The file service (722device/filetransmit): a VSOA subscription delivers *)
(* files block by block; the work thread writes each block to disk, reads  *)
(* the file back at its own pace, and publishes what it reads over TLS.    *)
(*                                                                         *)
(* Grain: one action per critical section of the two block lists, per read *)
(* or write of a shared flag, and, in the work thread, per call of         *)
(* file_entry_write_handle and file_entry_read_handle.  The unit of file   *)
(* size is a block: all blocks of a file but the last carry FILE_DATA_MTU  *)
(* bytes, which is also what one read takes.  A block with a bad header is *)
(* treated as the code treats one of a file it does not know.              *)
(***************************************************************************)
EXTENDS Integers, Sequences, FiniteSets, SequencesExt

CONSTANTS
  File,         \* the names of the files
  BlockCount,   \* how many blocks each has
  Block,        \* the block structures there is memory for
  NoBlock,      \* the NULL block
  InitPool,     \* the preallocated ones, file_block_count_
  MaxTrouble    \* bound: how often a sender starts a file over, or an
                \* open, a write or a publish fails

ASSUME BlockAssumption == NoBlock \notin Block /\ InitPool \subseteq Block
ASSUME CountAssumption == File # {} /\ BlockCount \in [File -> Nat \ {0}]
ASSUME BoundAssumption == MaxTrouble \in Nat

VARIABLES
  next, restarts,   \* the senders: next block of each file; restarts so far
  content,          \* what a block carries: a file and a position in it
  pool, heap,       \* queue_alloc_block_; not allocated yet
  queue,            \* queue_file_block_: received, not handled
  evt,              \* evt_thread_loop_ is signalled
  run,              \* thread_run_
  rpc, rbuf,        \* the subscription's callback, and its block
  wpc, wbuf, idx,   \* the work thread, its block, the entry it is at
  entries,          \* queue_file_entry_
  disk,             \* the file under each name: the blocks at its positions
  fds,              \* how many descriptors of files are open
  spc,              \* the thread that stops the service
  fails,            \* failures so far
  hurt,             \* history: files something went wrong with
  late              \* history: blocks pushed since the worker's last pop

srcVars  == <<next, restarts>>
memVars  == <<pool, heap, content>>
rxVars   == <<rpc, rbuf>>
workVars == <<wpc, wbuf, idx>>
fileVars == <<entries, disk, fds>>
vars     == <<srcVars, memVars, queue, evt, run, rxVars, workVars, fileVars, spc,
              fails, hurt, late>>

Hole == -1      \* a position of a file nobody wrote

(* The data of a free block is forgotten.                                  *)
Blank == [file |-> CHOOSE f \in File : TRUE, seq |-> 0]
Blanked(b) == [content EXCEPT ![b] = Blank]

(* file_transmit_start_work_thread and file_transmit_start_subscribe.      *)
Init ==
  /\ next = [f \in File |-> 0] /\ restarts = 0
  /\ content = [b \in Block |-> Blank]
  /\ pool = InitPool /\ heap = Block \ InitPool
  /\ queue = << >> /\ evt = TRUE /\ run = TRUE
  /\ rpc = "idle" /\ rbuf = NoBlock
  /\ wpc = "loop" /\ wbuf = NoBlock /\ idx = 1
  /\ entries = << >> /\ disk = [f \in File |-> << >>] /\ fds = 0
  /\ spc = "running"
  /\ fails = 0 /\ hurt = {} /\ late = {}

(* Something of the file is still on its way.                              *)
Carried(b, f) == b # NoBlock /\ content[b].file = f
Busy(f) == \/ Carried(rbuf, f) \/ Carried(wbuf, f)
           \/ \E i \in 1 .. Len(queue) : Carried(queue[i], f)
           \/ \E i \in 1 .. Len(entries) : entries[i].file = f

-----------------------------------------------------------------------------
(* on_file_transmit_receive_file_data: a block from the pool, or a new     *)
(* one, or none and the data is dropped.                                   *)

(* Slip: the callback does not keep the block it filled.                   *)
FillForgets(f, b) ==
  /\ content' = [content EXCEPT ![b] = [file |-> f, seq |-> next[f]]]
  /\ rpc' = "push"
  /\ UNCHANGED <<rbuf, hurt>>

Fill(f, b) ==
  /\ content' = [content EXCEPT ![b] = [file |-> f, seq |-> next[f]]]
  /\ rbuf' = b /\ rpc' = "push"
  /\ UNCHANGED hurt

(* The pool without the block it gave (slip: its head is only read).       *)
PoolPeeked(b) == pool
PoolLess(b)   == pool \ {b}

GrabBlock(f) ==
  /\ rpc = "idle" /\ spc = "running" /\ next[f] < BlockCount[f]
  /\ next' = [next EXCEPT ![f] = @ + 1]
  /\ \/ \E b \in pool : Fill(f, b) /\ pool' = PoolLess(b) /\ UNCHANGED heap
     \/ /\ pool = {}
        /\ \E b \in heap : Fill(f, b) /\ heap' = heap \ {b} /\ UNCHANGED pool
     \/ /\ pool = {} /\ heap = {}
        /\ hurt' = hurt \cup {f}
        /\ UNCHANGED <<pool, heap, content, rxVars>>
  /\ UNCHANGED <<restarts, queue, evt, run, workVars, fileVars, spc, fails, late>>

PushBlock ==
  /\ rpc = "push"
  /\ queue' = Append(queue, rbuf) /\ late' = late \cup {rbuf}
  /\ rbuf' = NoBlock /\ rpc' = "active"
  /\ UNCHANGED <<srcVars, memVars, evt, run, workVars, fileVars, spc, fails, hurt>>

ActiveWork ==
  /\ rpc = "active"
  /\ evt' = TRUE /\ rpc' = "idle"
  /\ UNCHANGED <<srcVars, memVars, queue, run, rbuf, workVars, fileVars, spc, fails, hurt, late>>

(* The sender sends the file again from its first block.                   *)
Restart(f) ==
  /\ restarts + fails < MaxTrouble /\ next[f] > 0
  /\ restarts' = restarts + 1
  /\ next' = [next EXCEPT ![f] = 0]
  /\ hurt' = IF Busy(f) \/ next[f] < BlockCount[f] THEN hurt \cup {f} ELSE hurt
  /\ UNCHANGED <<memVars, queue, evt, run, rxVars, workVars, fileVars, spc, fails, late>>

-----------------------------------------------------------------------------
(* file_transmit_thread_work, file_transmit_thread_poll.                   *)

Goto(l) == wpc' = l

WorkLoop ==
  /\ wpc = "loop"
  /\ IF run THEN Goto("wait") /\ UNCHANGED evt ELSE Goto("exit") /\ evt' = TRUE
  /\ UNCHANGED <<srcVars, memVars, queue, run, rxVars, wbuf, idx, fileVars, spc, fails, hurt, late>>

WorkWake ==
  /\ wpc = "wait" /\ evt
  /\ Goto(IF run THEN "pop" ELSE "exit")
  /\ UNCHANGED <<srcVars, memVars, queue, evt, run, rxVars, wbuf, idx, fileVars, spc, fails, hurt, late>>

(* The end of the entry list has been reached, or not.                     *)
AtEntry(i, n) == /\ idx' = i
                 /\ Goto(IF i <= n THEN "write" ELSE "sweep")

PopBlock ==
  /\ wpc = "pop"
  /\ late' = {}
  /\ IF queue = << >>
     THEN AtEntry(1, Len(entries)) /\ UNCHANGED <<queue, wbuf>>
     ELSE /\ wbuf' = Head(queue) /\ queue' = Tail(queue)
          /\ Goto("block") /\ UNCHANGED idx
  /\ UNCHANGED <<srcVars, memVars, evt, run, rxVars, fileVars, spc, fails, hurt>>

NewEntry(b) ==
  [file |-> content[b].file, pending |-> <<b>>, wopen |-> FALSE, wpos |-> 0, wsize |-> 0,
   ropen |-> "no", rpos |-> 0, sent |-> << >>, complete |-> FALSE]

EntriesOf(f) == {i \in 1 .. Len(entries) : entries[i].file = f}
FirstOf(f)   == CHOOSE i \in EntriesOf(f) : \A j \in EntriesOf(f) : i <= j

(* file_transmit_handle_file_block: a file's first block makes an entry,   *)
(* the others join the first entry of that name; without one the block is  *)
(* dropped.                                                                *)
HandleBlock ==
  /\ wpc = "block"
  /\ LET f == content[wbuf].file
     IN \/ /\ content[wbuf].seq = 0
           /\ entries' = Append(entries, NewEntry(wbuf))
           /\ UNCHANGED <<pool, content>>
        \/ /\ content[wbuf].seq > 0 /\ EntriesOf(f) # {}
           /\ entries' = [entries EXCEPT ![FirstOf(f)].pending = Append(@, wbuf)]
           /\ UNCHANGED <<pool, content>>
        \/ /\ content[wbuf].seq > 0 /\ EntriesOf(f) = {}
           /\ pool' = pool \cup {wbuf} /\ content' = Blanked(wbuf)
           /\ UNCHANGED entries
  /\ wbuf' = NoBlock
  /\ AtEntry(1, Len(entries'))
  /\ UNCHANGED <<srcVars, heap, queue, evt, run, rxVars, disk, fds, spc, fails, hurt, late>>

-----------------------------------------------------------------------------
(* file_entry_write_handle.                                                *)

Entry == entries[idx]
Size  == BlockCount[Entry.file]
Fail  == /\ restarts + fails < MaxTrouble /\ fails' = fails + 1
         /\ hurt' = hurt \cup {Entry.file}
NoFail == UNCHANGED <<fails, hurt>>

Written == Entry.wsize = Size /\ Entry.pending = << >>

(* Slip: the end of the file is not noticed, and the file stays open.      *)
WriteLeft ==
  /\ wpc = "write" /\ Written
  /\ Goto("read")
  /\ UNCHANGED <<srcVars, memVars, queue, evt, run, rxVars, wbuf, idx, fileVars, spc, fails, hurt, late>>

WriteClose ==
  /\ wpc = "write" /\ Written
  /\ entries' = [entries EXCEPT ![idx].wopen = FALSE]
  /\ fds' = IF Entry.wopen THEN fds - 1 ELSE fds
  /\ Goto("read")
  /\ UNCHANGED <<srcVars, memVars, queue, evt, run, rxVars, wbuf, idx, disk, spc, fails, hurt, late>>

(* open, O_TRUNC.  Failing, the entry is given up.                         *)
WriteOpen ==
  /\ wpc = "write" /\ ~Written /\ ~Entry.wopen
  /\ \/ /\ entries' = [entries EXCEPT ![idx].wopen = TRUE, ![idx].wpos = 0]
        /\ disk' = [disk EXCEPT ![Entry.file] = << >>]
        /\ fds' = fds + 1
        /\ NoFail /\ UNCHANGED wpc
     \/ /\ entries' = [entries EXCEPT ![idx].complete = TRUE]
        /\ Goto("read")
        /\ Fail /\ UNCHANGED <<disk, fds>>
  /\ UNCHANGED <<srcVars, memVars, queue, evt, run, rxVars, wbuf, idx, spc, late>>

WriteNone ==
  /\ wpc = "write" /\ ~Written /\ Entry.wopen /\ Entry.pending = << >>
  /\ Goto("read")
  /\ UNCHANGED <<srcVars, memVars, queue, evt, run, rxVars, wbuf, idx, fileVars, spc, fails, hurt, late>>

(* A file after a write at a position: up to there it may have holes.      *)
Put(s, p, x) == [i \in 1 .. IF Len(s) > p THEN Len(s) ELSE p + 1 |->
                   IF i = p + 1 THEN x ELSE IF i <= Len(s) THEN s[i] ELSE Hole]

WriteBlock ==
  /\ wpc = "write" /\ ~Written /\ Entry.wopen /\ Entry.pending # << >>
  /\ \/ /\ entries' = [entries EXCEPT ![idx].pending = Tail(@), ![idx].wpos = @ + 1, ![idx].wsize = @ + 1]
        /\ disk' = [disk EXCEPT ![Entry.file] = Put(@, Entry.wpos, content[Head(Entry.pending)].seq)]
        /\ pool' = pool \cup {Head(Entry.pending)}
        /\ NoFail
     \/ /\ entries' = [entries EXCEPT ![idx].pending = Tail(@)]
        /\ pool' = pool \cup {Head(Entry.pending)}
        /\ Fail /\ UNCHANGED disk
  /\ content' = Blanked(Head(Entry.pending))
  /\ Goto("read")
  /\ UNCHANGED <<srcVars, heap, queue, evt, run, rxVars, wbuf, idx, fds, spc, late>>

-----------------------------------------------------------------------------
(* file_entry_read_handle.                                                 *)

RSize == Len(Entry.sent)        \* file_read_size_, file_read_count_

(* The whole file has been read: close, and (the code's slip in            *)
(* file_entry_r_file_close) clear the write descriptor.  Slip: what was    *)
(* read is compared with what was written so far.                          *)
ReadEndWritten == Entry.ropen = "open" /\ RSize = Entry.wsize
ReadEnd == Entry.ropen = "open" /\ RSize = Size

ReadComplete ==
  /\ wpc = "read" /\ ReadEnd
  /\ entries' = [entries EXCEPT ![idx].complete = TRUE, ![idx].wopen = FALSE]
  /\ fds' = fds - 1
  /\ AtEntry(idx + 1, Len(entries))
  /\ UNCHANGED <<srcVars, memVars, queue, evt, run, rxVars, wbuf, disk, spc, fails, hurt, late>>

(* First call: open, and start the clock.                                  *)
ReadOpen ==
  /\ wpc = "read" /\ Entry.ropen = "no"
  /\ \/ /\ disk[Entry.file] # << >> \/ Entry.wopen \/ Entry.wsize > 0
        /\ entries' = [entries EXCEPT ![idx].ropen = "open"]
        /\ fds' = fds + 1 /\ NoFail
     \/ /\ entries' = [entries EXCEPT ![idx].ropen = "bad"]
        /\ Fail /\ UNCHANGED fds
     \/ /\ Entry.complete                 \* the write open failed: no file
        /\ entries' = [entries EXCEPT ![idx].ropen = "bad"]
        /\ NoFail /\ UNCHANGED fds
  /\ AtEntry(idx + 1, Len(entries))
  /\ UNCHANGED <<srcVars, memVars, queue, evt, run, rxVars, wbuf, disk, spc, late>>

(* The interval has not elapsed.                                           *)
ReadWait ==
  /\ wpc = "read" /\ ~ReadEnd /\ Entry.ropen # "no"
  /\ AtEntry(idx + 1, Len(entries))
  /\ UNCHANGED <<srcVars, memVars, queue, evt, run, rxVars, wbuf, fileVars, spc, fails, hurt, late>>

(* The interval has elapsed: read one block's worth and publish it; when   *)
(* the publish fails the data is not read again.                           *)
ReadData(f) ==
  /\ wpc = "read" /\ Entry.file = f /\ ~ReadEnd /\ Entry.ropen # "no"
  /\ \/ /\ Entry.ropen = "bad" \/ Entry.rpos >= Len(disk[f])
        /\ UNCHANGED entries /\ NoFail
     \/ /\ Entry.ropen = "open" /\ Entry.rpos < Len(disk[f])
        /\ entries' = [entries EXCEPT ![idx].rpos = @ + 1,
                                      ![idx].sent = Append(@, disk[f][Entry.rpos + 1])]
        /\ NoFail
     \/ /\ Entry.ropen = "open" /\ Entry.rpos < Len(disk[f])
        /\ entries' = [entries EXCEPT ![idx].rpos = @ + 1]
        /\ Fail
  /\ AtEntry(idx + 1, Len(entries))
  /\ UNCHANGED <<srcVars, memVars, queue, evt, run, rxVars, wbuf, disk, fds, spc, late>>

-----------------------------------------------------------------------------
(* The end of file_transmit_file_entry_poll: complete entries are freed,   *)
(* as they are, and the others keep their order; no entry left means there *)
(* is nothing to do.                                                       *)
Ahead(S, i)    == {j \in S : j <= i}
Incomplete(es) ==
  LET S == {i \in 1 .. Len(es) : ~es[i].complete}
  IN  [k \in 1 .. Cardinality(S) |-> es[CHOOSE i \in S : Cardinality(Ahead(S, i)) = k]]

(* Slip: the event is cleared after every poll.                            *)
IdleAlways(es) == TRUE
Idle(es)       == es = << >>

Sweep ==
  /\ wpc = "sweep"
  /\ entries' = Incomplete(entries)
  /\ Goto(IF Idle(entries') THEN "deactive" ELSE "loop")
  /\ UNCHANGED <<srcVars, memVars, queue, evt, run, rxVars, wbuf, idx, disk, fds, spc, fails, hurt, late>>

DeactiveWork ==
  /\ wpc = "deactive"
  /\ evt' = FALSE
  /\ Goto("loop")
  /\ UNCHANGED <<srcVars, memVars, queue, run, rxVars, wbuf, idx, fileVars, spc, fails, hurt, late>>

-----------------------------------------------------------------------------
(* file_transmit_stop_service: the subscription ends, then the thread,     *)
(* whose evt_thread_stop_ never comes: it is joined after the time-out, or *)
(* cancelled inside a call of the file system.                             *)

StopSubscribe ==
  /\ spc = "running" /\ rpc = "idle"
  /\ spc' = "flag"
  /\ UNCHANGED <<srcVars, memVars, queue, evt, run, rxVars, workVars, fileVars, fails, hurt, late>>

StopFlag ==
  /\ spc = "flag"
  /\ run' = FALSE /\ spc' = "signal"
  /\ UNCHANGED <<srcVars, memVars, queue, evt, rxVars, workVars, fileVars, fails, hurt, late>>

StopSignal ==
  /\ spc = "signal"
  /\ evt' = TRUE /\ spc' = "join"
  /\ UNCHANGED <<srcVars, memVars, queue, run, rxVars, workVars, fileVars, fails, hurt, late>>

StopJoin ==
  /\ spc = "join"
  /\ \/ wpc = "exit" /\ UNCHANGED wpc
     \/ wpc \in {"write", "read"} /\ Goto("dead")
  /\ spc' = "stopped"
  /\ UNCHANGED <<srcVars, memVars, queue, evt, run, rxVars, wbuf, idx, fileVars, fails, hurt, late>>

-----------------------------------------------------------------------------
Callback == (\E f \in File : GrabBlock(f)) \/ PushBlock \/ ActiveWork

Work == \/ WorkLoop \/ WorkWake \/ PopBlock \/ HandleBlock
        \/ WriteClose \/ WriteOpen \/ WriteNone \/ WriteBlock
        \/ ReadComplete \/ ReadOpen \/ ReadWait \/ (\E f \in File : ReadData(f))
        \/ Sweep \/ DeactiveWork

Stop == StopSubscribe \/ StopFlag \/ StopSignal \/ StopJoin

Next == Callback \/ Work \/ Stop \/ \E f \in File : Restart(f)

Spec == Init /\ [][Next]_vars

(* The senders send what they began; the work thread runs, and time passes *)
(* while it does, so that a file's interval keeps elapsing.                *)
Fairness == /\ WF_vars(Work)
            /\ \A f \in File : SF_vars(ReadData(f)) /\ WF_vars(GrabBlock(f))
            /\ WF_vars(PushBlock) /\ WF_vars(ActiveWork)

FairSpec == Spec /\ Fairness

-----------------------------------------------------------------------------
EntryType ==
  [file : File, pending : Seq(Block), wopen : BOOLEAN, wpos : Nat, wsize : Nat,
   ropen : {"no", "open", "bad"}, rpos : Nat, sent : Seq(Nat \cup {Hole}), complete : BOOLEAN]

(* The types of the variables; a thread that uses a block has one. *)
TypeOK ==
  /\ next \in [File -> Nat] /\ restarts \in Nat /\ fails \in Nat /\ restarts + fails <= MaxTrouble
  /\ content \in [Block -> [file : File, seq : Nat]]
  /\ pool \in SUBSET Block /\ heap \in SUBSET Block /\ queue \in Seq(Block)
  /\ evt \in BOOLEAN /\ run \in BOOLEAN
  /\ rpc \in {"idle", "push", "active"}
  /\ rbuf \in (IF rpc = "push" THEN Block ELSE {NoBlock})
  /\ wpc \in {"loop", "wait", "pop", "block", "write", "read", "sweep", "deactive", "exit", "dead"}
  /\ wbuf \in (IF wpc = "block" THEN Block ELSE {NoBlock})
  /\ idx \in Nat /\ (wpc \in {"write", "read"} => idx \in 1 .. Len(entries))
  /\ entries \in Seq(EntryType)
  /\ DOMAIN disk = File /\ fds \in Nat
  /\ spc \in {"running", "flag", "signal", "join", "stopped"}
  /\ hurt \in SUBSET File /\ late \in SUBSET Block

-----------------------------------------------------------------------------
In(s, b) == Cardinality({i \in 1 .. Len(s) : s[i] = b})

Places(b) == (IF b \in pool THEN 1 ELSE 0) + (IF b \in heap THEN 1 ELSE 0)
             + (IF rbuf = b THEN 1 ELSE 0) + (IF wbuf = b THEN 1 ELSE 0) + In(queue, b)
             + Cardinality({i \in 1 .. Len(entries) : In(entries[i].pending, b) = 1})
             + 2 * Cardinality({i \in 1 .. Len(entries) : In(entries[i].pending, b) > 1})

(* No block is ever in two lists, and none is lost as long as no file was  *)
(* given up half way: only freeing an entry can lose one.                  *)
BlockOwned == \A b \in Block : Places(b) <= 1 /\ (Places(b) = 0 => hurt # {})

(* What is published of a file that was not disturbed is its beginning,    *)
(* every block once and in its place, and never more than was written; the *)
(* complete file has been published whole and is freed with nothing in it. *)
PublishedWhole ==
  \A i \in 1 .. Len(entries) : LET e == entries[i] IN
    e.file \notin hurt =>
      /\ e.sent = [k \in 1 .. Len(e.sent) |-> k - 1] /\ Len(e.sent) <= e.wsize
      /\ e.complete => Len(e.sent) = BlockCount[e.file] /\ e.pending = << >>

(* The descriptors that are open are those of the entries, as long as      *)
(* nothing went wrong: no complete file leaves one behind.                 *)
DescriptorsKept ==
  hurt = {} => fds = Cardinality({i \in 1 .. Len(entries) : entries[i].wopen})
                   + Cardinality({i \in 1 .. Len(entries) : entries[i].ropen = "open" /\ ~entries[i].complete})

(* Blocks and descriptors are kept, each where the threads say it is.      *)
BlocksKept == TypeOK /\ BlockOwned /\ DescriptorsKept

Asleep == wpc = "wait" /\ ~evt

(* The worker goes to sleep on blocks only if they came after its last     *)
(* look at the queue, as long as it never had to drop or give up anything, *)
(* and never on the signal to stop.                                        *)
AsleepOnlyLate ==
  /\ (Asleep /\ rpc # "active" /\ hurt = {}) => ToSet(queue) \subseteq late
  /\ spc = "join" => ~Asleep

(* Every file that was begun and not disturbed is finished, unless the     *)
(* service stops or the worker sleeps with a block of it in the queue.     *)
LeftInQueue(f) == Asleep /\ rpc = "idle" /\ \E b \in ToSet(queue) : Carried(b, f)

FilesFinish ==
  \A f \in File : Busy(f) ~> (~Busy(f) \/ f \in hurt \/ spc # "running" \/ LeftInQueue(f))
=============================================================================
