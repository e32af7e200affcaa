----------------------------- MODULE LogSpool ------------------------------
(***************************************************************************)
(* One output stream of a managed process: the pipe, the drain task of     *)
(* spawn_drain_task, the bounded spool (SpoolState) and the bounded join   *)
(* of the teardown (join_drains), in crates/eggbench-runner/src/session.rs.*)
(*                                                                         *)
(* Bytes are counted, not represented.  The write end is held by the       *)
(* process and by every descendant that inherited it, so it may stay open  *)
(* after the process was reaped.  Names that begin with Spool keep this    *)
(* specification apart from that of Session, beside which it is proved.    *)
(***************************************************************************)
EXTENDS Integers

CONSTANTS
  Output,     \* bytes the writers want to write
  PipeSize,   \* capacity of the pipe
  Chunk,      \* DRAIN_CHUNK_BYTES
  Cap         \* log_limit_bytes

ASSUME SizeAssumption ==
  /\ Output \in Nat
  /\ Cap \in Nat
  /\ PipeSize \in Nat \ {0}
  /\ Chunk \in Nat \ {0}

VARIABLES
  written,    \* bytes written to the pipe
  open,       \* some process holds the write end
  pipe,       \* bytes in the pipe
  task,       \* the drain task
  spool,      \* SpoolState
  join        \* join_drains on this task

spoolVars == <<written, open, pipe, task, spool, join>>

Smaller(a, b) == IF a <= b THEN a ELSE b

(* Mutant of Push: a chunk is retained whole or not at all. *)
PushWhole(s, n) ==
  [total |-> s.total + n,
   retained |-> IF s.retained >= Cap THEN s.retained ELSE s.retained + n,
   dropped |-> IF s.retained >= Cap THEN s.dropped + n ELSE s.dropped]

(* SpoolState::push of a chunk of n bytes. *)
Push(s, n) ==
  LET room == Cap - s.retained
      kept == IF s.retained >= Cap THEN 0 ELSE Smaller(n, room)
  IN  [total |-> s.total + n, retained |-> s.retained + kept, dropped |-> s.dropped + (n - kept)]

Truncated == spool.dropped > 0

SpoolInit ==
  /\ written = 0 /\ open = TRUE /\ pipe = 0
  /\ task = "reading"
  /\ spool = [total |-> 0, retained |-> 0, dropped |-> 0]
  /\ join = "none"

(* A write takes what fits; a full pipe blocks the writer. *)
Write ==
  /\ open /\ task # "failed"
  /\ \E n \in 1 .. Smaller(Output - written, PipeSize - pipe) :
       written' = written + n /\ pipe' = pipe + n
  /\ UNCHANGED <<open, task, spool, join>>

(* The last holder of the write end exits. *)
Close ==
  /\ open
  /\ open' = FALSE
  /\ UNCHANGED <<written, pipe, task, spool, join>>

(* Mutant of ReadChunk: a whole chunk is counted, however much was there. *)
ReadChunkBlind ==
  /\ task = "reading" /\ pipe > 0
  /\ pipe' = pipe - Chunk /\ spool' = Push(spool, Chunk)
  /\ UNCHANGED <<written, open, task, join>>

(* Mutant of ReadChunk: a full spool ends the draining. *)
ReadChunkUntilFull ==
  /\ task = "reading" /\ spool.retained < Cap
  /\ \E n \in 1 .. Smaller(Chunk, pipe) : pipe' = pipe - n /\ spool' = Push(spool, n)
  /\ UNCHANGED <<written, open, task, join>>

ReadChunk ==
  /\ task = "reading"
  /\ \E n \in 1 .. Smaller(Chunk, pipe) : pipe' = pipe - n /\ spool' = Push(spool, n)
  /\ UNCHANGED <<written, open, task, join>>

(* Mutant of ReadEof: a pipe that is empty for now is taken for its end. *)
ReadEofEarly ==
  /\ task = "reading" /\ pipe = 0
  /\ task' = "ended"
  /\ UNCHANGED <<written, open, pipe, spool, join>>

ReadEof ==
  /\ task = "reading" /\ pipe = 0 /\ ~open
  /\ task' = "ended"
  /\ UNCHANGED <<written, open, pipe, spool, join>>

(* A read error ends the task and closes the read end: the writers' next   *)
(* write is refused, and what was in the pipe is gone.                     *)
ReadFails ==
  /\ task = "reading"
  /\ task' = "failed"
  /\ UNCHANGED <<written, open, pipe, spool, join>>

(* Teardown comes to join_drains, at any time: the task has ended, or the  *)
(* join is given up after DRAIN_JOIN_LIMIT and the task goes on detached.  *)
JoinBegin ==
  /\ join = "none"
  /\ join' = "waiting"
  /\ UNCHANGED <<written, open, pipe, task, spool>>

JoinEnd ==
  /\ join = "waiting"
  /\ \/ task # "reading" /\ join' = "joined"
     \/ join' = "abandoned"
  /\ UNCHANGED <<written, open, pipe, task, spool>>

SpoolNext ==
  \/ Write \/ Close \/ ReadChunk \/ ReadEof \/ ReadFails \/ JoinBegin \/ JoinEnd

(* Writers that can write do, the drain task is scheduled and the join is  *)
(* bounded; nothing says that the writers ever exit or the reads ever fail.*)
SpoolFairness ==
  /\ WF_spoolVars(Write) /\ WF_spoolVars(ReadChunk) /\ WF_spoolVars(ReadEof) /\ WF_spoolVars(JoinEnd)

SpoolSpec == SpoolInit /\ [][SpoolNext]_spoolVars /\ SpoolFairness

----------------------------------------------------------------------------
SpoolTypeOK ==
  /\ written \in 0 .. Output
  /\ open \in BOOLEAN
  /\ pipe \in 0 .. PipeSize
  /\ task \in {"reading", "ended", "failed"}
  /\ spool \in [total : Nat, retained : Nat, dropped : Nat]
  /\ join \in {"none", "waiting", "joined", "abandoned"}

(* A snapshot's counters agree, whatever chunks the stream came in: what   *)
(* was drained was retained up to the cap and counted as dropped beyond,   *)
(* and "truncated" says exactly whether the cap was exceeded.              *)
Accounting ==
  /\ spool.total = spool.retained + spool.dropped
  /\ spool.retained = Smaller(spool.total, Cap)
  /\ Truncated <=> spool.total > Cap

(* No byte is lost between the writers and the spool, and a task that came *)
(* to its end has drained all that was ever written: logs of a process     *)
(* whose drains ended are complete.                                        *)
NothingLost ==
  /\ written = spool.total + pipe
  /\ task = "ended" => spool.total = written

(* A verbose process is never blocked for good on a full pipe, however     *)
(* small the cap: unless all writers exit or a read fails, all is written. *)
NeverBlocked == <>(written = Output \/ ~open \/ task = "failed")
=============================================================================
