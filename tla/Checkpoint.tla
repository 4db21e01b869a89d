----------------------------- MODULE Checkpoint -----------------------------
(***************************************************************************)
(* Checkpoint and restore of one replica: the handshake of checkpoint_flag *)
(* and restore_flag in RDMA/src/ev_mgr/ev_mgr.c between the replica thread *)
(* and the threads that check_point_thread.c starts, one for each command, *)
(* and guard.py (checkpoint/demo/guard_dev), which sends the commands,     *)
(* dumps the process with criu and restores it.                            *)
(*                                                                         *)
(* The process is a record, because a checkpoint is a copy of all of it:   *)
(* the flags, the threads and where each of them stands.                   *)
(***************************************************************************)
EXTENDS Naturals, FiniteSets

CONSTANTS
  Cmd,         \* command threads, enough that a command never lacks one
  Guard,       \* activities of guard.py that run side by side
  NoImage,     \* no checkpoint file yet
  MaxRound,    \* bound: checkpoints and restores begun
  Prompt,      \* whether every thread that can move has moved within a second
  Faults       \* the calls that can fail, of "shutdown", "launch", "dump", "restore"

ASSUME RoundAssumption == MaxRound \in Nat

\* A round leaves at most one thread waiting for an approval; "reconnect" takes one more.
ASSUME CmdAssumption == IsFiniteSet(Cmd) /\ Cardinality(Cmd) > MaxRound
ASSUME PromptAssumption == Prompt \in BOOLEAN
ASSUME FaultsAssumption == Faults \subseteq {"shutdown", "launch", "dump", "restore"}

VARIABLES
  proc,       \* the replica process
  alive,      \* whether it runs
  image,      \* the newest checkpoint_[N].zip
  gpc,        \* where each activity of the guard is
  unpacked,   \* the image an activity has unzipped
  rounds      \* commands begun so far

vars == <<proc, alive, image, gpc, unpacked, rounds>>

Process ==
  [flag    : {"none", "request", "approve"},   \* checkpoint_flag
   restore : BOOLEAN,                          \* restore_flag
   conn    : BOOLEAN,                          \* HASH_COUNT(replica_tcp_map) # 0
   rep     : {"check", "entry", "busy", "wait", "launch", "clear"},
   cmd     : [Cmd -> {"idle", "set", "check", "request", "spin", "test", "shutdown", "clear"}],
   rdma    : {"up", "down", "broken"}]         \* the queue pairs, memory and device

Init ==
  /\ proc = [flag |-> "none", restore |-> FALSE, conn |-> FALSE, rep |-> "check",
             cmd |-> [c \in Cmd |-> "idle"], rdma |-> "up"]
  /\ alive = TRUE
  /\ image = NoImage
  /\ gpc = [g \in Guard |-> "idle"]
  /\ unpacked = [g \in Guard |-> NoImage]
  /\ rounds = 0

Becomes(p) == alive /\ proc' = p /\ UNCHANGED <<alive, image, gpc, unpacked, rounds>>
Dies == alive /\ alive' = FALSE /\ UNCHANGED <<proc, image, gpc, unpacked, rounds>>

-----------------------------------------------------------------------------
(* The replica thread: each turn of handle_accept_req calls                  *)
(* check_point_condtion and then looks for an entry, which it executes.      *)

\* Mutant: the connections are not counted.
ApproveAlways ==
  /\ proc.rep = "check"
  /\ Becomes(IF proc.flag = "request"
               THEN [proc EXCEPT !.rep = "wait", !.flag = "approve"]
               ELSE [proc EXCEPT !.rep = "entry"])

check_point_condtion ==
  /\ proc.rep = "check"
  /\ \/ /\ proc.flag # "request"
        /\ Becomes([proc EXCEPT !.rep = "entry"])
     \/ /\ proc.flag = "request" /\ proc.conn
        /\ Becomes([proc EXCEPT !.rep = "entry", !.flag = "none"])
     \/ /\ proc.flag = "request" /\ ~proc.conn
        /\ Becomes([proc EXCEPT !.rep = "wait", !.flag = "approve"])

HasLog == proc.rdma # "broken"
NoEntry == proc.rep = "entry" /\ HasLog /\ Becomes([proc EXCEPT !.rep = "check"])
BeginEntry == proc.rep = "entry" /\ HasLog /\ Becomes([proc EXCEPT !.rep = "busy"])

\* log_get_entry dereferences the log that init_server_data did not allocate.
ReadsNoLog == proc.rep = "entry" /\ ~HasLog /\ Dies

\* Executing requests opens and closes connections to the application.
EndEntry ==
  /\ proc.rep = "busy"
  /\ \E b \in BOOLEAN : Becomes([proc EXCEPT !.rep = "check", !.conn = b])

\* The spin on restore_flag.
Restored == proc.rep = "wait" /\ proc.restore /\ Becomes([proc EXCEPT !.rep = "launch"])

\* reconnect_inner: launch_rdma, and then restore_flag = 0.
LaunchRdma ==
  /\ proc.rep = "launch"
  /\ Becomes([proc EXCEPT !.rep = "clear", !.rdma = "up"])
\* When init_server_data fails the error is printed and no more; when
\* init_network_cb fails dare_server_shutdown ends the process.
LaunchFails ==
  /\ "launch" \in Faults
  /\ proc.rep = "launch"
  /\ Becomes([proc EXCEPT !.rep = "clear", !.rdma = "broken"]) \/ Dies

\* Mutant: restore_flag stays set, and the next approval does not wait.
KeepRestore ==
  /\ proc.rep = "clear"
  /\ Becomes([proc EXCEPT !.rep = "entry"])

ClearRestore ==
  /\ proc.rep = "clear"
  /\ Becomes([proc EXCEPT !.rep = "entry", !.restore = FALSE])

-----------------------------------------------------------------------------
(* The command threads: disconnct_inner and reconnect_inner_set_flag.        *)

At(c, here) == proc.cmd[c] = here
Move(c, there) == [proc EXCEPT !.cmd[c] = there]

\* reconnect_inner_set_flag
SetRestore(c) == At(c, "set") /\ Becomes([Move(c, "idle") EXCEPT !.restore = TRUE])

\* disconnct_inner: the test of checkpoint_flag and its assignment are two steps.
CheckFlag(c) ==
  /\ At(c, "check")
  /\ Becomes(Move(c, IF proc.flag = "none" THEN "request" ELSE "idle"))
Request(c) == At(c, "request") /\ Becomes([Move(c, "spin") EXCEPT !.flag = "request"])
Answered(c) == At(c, "spin") /\ proc.flag # "request" /\ Becomes(Move(c, "test"))
TestApproved(c) ==
  /\ At(c, "test")
  /\ Becomes(Move(c, IF proc.flag = "approve" THEN "shutdown" ELSE "idle"))
Shutdown(c) == At(c, "shutdown") /\ Becomes([Move(c, "clear") EXCEPT !.rdma = "down"])
ShutdownFails(c) == "shutdown" \in Faults /\ At(c, "shutdown") /\ Becomes(Move(c, "idle"))
ClearFlag(c) == At(c, "clear") /\ Becomes([Move(c, "idle") EXCEPT !.flag = "none"])

-----------------------------------------------------------------------------
(* guard.py *)

\* The command reaches a new thread of the process; "OK" is answered at once.
Send(command) ==
  IF alive
    THEN \E c \in Cmd : At(c, "idle") /\ proc' = Move(c, command)
    ELSE UNCHANGED proc

\* No thread can move, except that the replica thread may be executing requests.
Quiet ==
  /\ \/ proc.rep = "busy"
     \/ (proc.rep \in {"check", "entry"} /\ proc.flag # "request" /\ HasLog)
     \/ (proc.rep = "wait" /\ ~proc.restore)
  /\ \A c \in Cmd : At(c, "idle") \/ (At(c, "spin") /\ proc.flag = "request")
Slept == Prompt /\ alive => Quiet

Goto(g, there) == gpc' = [gpc EXCEPT ![g] = there]
Begin(g) ==
  /\ gpc[g] = "idle"
  /\ rounds < MaxRound
  /\ rounds' = rounds + 1

\* inner_checkpoint: send "disconnect", and sleep one second.
StartCheckpoint(g) ==
  /\ Begin(g)
  /\ Send("check")
  /\ Goto(g, "sleep")
  /\ UNCHANGED <<alive, image, unpacked>>

\* criu dump writes the image and ends the process.  It cannot dump a process
\* that holds an InfiniBand device.
Dump(g) ==
  /\ gpc[g] = "sleep"
  /\ Slept
  /\ alive
  /\ proc.rdma = "down"
  /\ image' = proc
  /\ alive' = FALSE
  /\ Goto(g, "restore")
  /\ UNCHANGED <<proc, unpacked, rounds>>

\* The checkpoint ends there; no "reconnect" is sent.
DumpFails(g) ==
  /\ gpc[g] = "sleep"
  /\ Slept
  /\ "dump" \in Faults \/ ~alive \/ proc.rdma # "down"
  /\ Goto(g, "idle")
  /\ UNCHANGED <<proc, alive, image, unpacked, rounds>>

\* A restore command, which takes the same way as the end of a checkpoint.
StartRestore(g) ==
  /\ Begin(g)
  /\ Goto(g, "restore")
  /\ UNCHANGED <<proc, alive, image, unpacked>>

\* Mutant: the file is not looked for.
UnpackMissing(g) ==
  /\ gpc[g] = "restore"
  /\ Goto(g, "kill")
  /\ unpacked' = [unpacked EXCEPT ![g] = image]
  /\ UNCHANGED <<proc, alive, image, rounds>>

\* inner_restore: unzip the newest checkpoint, if there is one.
Unpack(g) ==
  /\ gpc[g] = "restore"
  /\ IF image = NoImage
       THEN Goto(g, "idle") /\ UNCHANGED unpacked
       ELSE Goto(g, "kill") /\ unpacked' = [unpacked EXCEPT ![g] = image]
  /\ UNCHANGED <<proc, alive, image, rounds>>

Kill(g) ==
  /\ gpc[g] = "kill"
  /\ alive' = FALSE
  /\ Goto(g, "criu")
  /\ UNCHANGED <<proc, image, unpacked, rounds>>

CriuRestore(g) ==
  /\ gpc[g] = "criu"
  /\ ~alive
  /\ alive' = TRUE
  /\ proc' = unpacked[g]
  /\ Goto(g, "reconnect")
  /\ UNCHANGED <<image, unpacked, rounds>>

\* "reconnect" is sent all the same.
CriuRestoreFails(g) ==
  /\ gpc[g] = "criu"
  /\ "restore" \in Faults \/ alive
  /\ Goto(g, "reconnect")
  /\ UNCHANGED <<proc, alive, image, unpacked, rounds>>

\* Mutant: nothing is sent after the restore.
EndSilently(g) ==
  /\ gpc[g] = "reconnect"
  /\ Goto(g, "idle")
  /\ unpacked' = [unpacked EXCEPT ![g] = NoImage]
  /\ UNCHANGED <<proc, alive, image, rounds>>

SendReconnect(g) ==
  /\ gpc[g] = "reconnect"
  /\ Send("set")
  /\ Goto(g, "idle")
  /\ unpacked' = [unpacked EXCEPT ![g] = NoImage]
  /\ UNCHANGED <<alive, image, rounds>>

-----------------------------------------------------------------------------
ReplicaThread ==
  \/ check_point_condtion \/ NoEntry \/ ReadsNoLog \/ EndEntry
  \/ Restored \/ LaunchRdma \/ LaunchFails \/ ClearRestore
CommandThread(c) ==
  \/ SetRestore(c)
  \/ CheckFlag(c) \/ Request(c) \/ Answered(c) \/ TestApproved(c)
  \/ Shutdown(c) \/ ShutdownFails(c) \/ ClearFlag(c)
GuardStep(g) ==
  \/ Dump(g) \/ DumpFails(g)
  \/ Unpack(g) \/ Kill(g) \/ CriuRestore(g) \/ CriuRestoreFails(g) \/ SendReconnect(g)

Next ==
  \/ BeginEntry \/ ReplicaThread
  \/ \E c \in Cmd : CommandThread(c)
  \/ \E g \in Guard : StartCheckpoint(g) \/ StartRestore(g) \/ GuardStep(g)

Spec == Init /\ [][Next]_vars

\* Threads run, criu and the guard finish.  Commands come as they come.
Fairness ==
  /\ WF_vars(ReplicaThread)
  /\ \A c \in Cmd : WF_vars(CommandThread(c))
  /\ \A g \in Guard : WF_vars(GuardStep(g))
LiveSpec == Spec /\ Fairness

-----------------------------------------------------------------------------
TypeOK ==
  /\ proc \in Process
  /\ alive \in BOOLEAN
  /\ image \in Process \cup {NoImage}
  /\ gpc \in [Guard -> {"idle", "sleep", "restore", "kill", "criu", "reconnect"}]
  /\ unpacked \in [Guard -> Process \cup {NoImage}]
  /\ rounds \in 0..MaxRound

\* handle_accept_req reads the log in every turn of its loop: it never runs
\* between a dare_rdma_shutdown, which releases the log, and the launch_rdma that
\* follows, however late it approves a request and however many are pending.
UsesOpenRdma == alive /\ proc.rep \in {"check", "entry", "busy"} => proc.rdma # "down"

\* A checkpoint is taken between requests: its replica thread stands in the wait
\* of check_point_condtion, where the "reconnect" sent after every restore finds
\* it, no earlier "reconnect" is pending, and no connection is open.
ImageWaits == image # NoImage => image.rep = "wait" /\ ~image.restore /\ ~image.conn

\* A process that criu has restored goes back to its loop with RDMA launched again,
\* whatever commands were pending in its image, unless it ends before: killed by the
\* next restore, or because launch_rdma failed.
ComesBack ==
  \A g \in Guard : (alive /\ gpc[g] = "reconnect")
                      ~> (~alive \/ (proc.rep = "entry" /\ proc.rdma = "up"))

\* guard.py: "The guard will launch criu to make a checkpoint, then wake up the
\* RDMA program."  A replica thread that waits in check_point_condtion is woken,
\* also when no further command or round of the timer comes.
WakesUp == (proc.rep = "wait") ~> (proc.rep = "entry")
=============================================================================
