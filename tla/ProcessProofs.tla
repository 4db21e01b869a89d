---------------------------- MODULE ProcessProofs ---------------------------
(***************************************************************************)
(* Proofs about the process of a replica.  Startup: for any configuration  *)
(* file and any number of forks, the hooks sort the calls of the first     *)
(* process.  Device: for any number of devices and endpoints, a server     *)
(* that runs has all it needs.  Checkpoint: for any number of command      *)
(* threads and rounds and any calls that fail.                             *)
(***************************************************************************)
EXTENDS Checkpoint, Device, Startup, Integers, TLAPS

\* A leaf is for Zenon unless it names another prover.
USE Zenon

-----------------------------------------------------------------------------
(* The start of the process. *)

\* The first process, with its threads created.
FirstProcess == forks = 0 /\ ~failed

\* Which of the threads run and are listed at each stage, and that the global is
\* set only at the end.
Listed ==
    /\ stage \in {"load", "config", "db", "node", "release", "rdma", "replica"} => running = {}
    /\ stage = "list_replica" => running = {"replica"} /\ created = "replica"
    /\ stage = "checkpoint" => running = {"replica"} /\ "replica" \in excluded
    /\ stage = "list_checkpoint" => created = "checkpoint" /\ "replica" \in excluded
    /\ stage = "return" => Internal \subseteq excluded
    /\ ev_mgr => stage \in {"main", "exited", "crashed"} /\ Internal \subseteq excluded
    /\ Application \notin excluded

ProcessInv == forks \in Nat /\ (FirstProcess => Listed /\ seen \cap Internal = {} /\ ~dropped)

\* The initial states satisfy ProcessInv.
LEMMA InitProcessInv == StartupInit => ProcessInv
  BY SMTT(30) DEF StartupInit, ProcessInv, FirstProcess, Listed, Application

\* Every step of the start-up keeps ProcessInv.
LEMMA ProcessInvStep == ProcessInv /\ [StartupNext]_startupVars => ProcessInv'
<1>. SUFFICES ASSUME ProcessInv, [StartupNext]_startupVars PROVE ProcessInv'
  OBVIOUS
<1>1. CASE libc_start_main
  BY <1>1 DEF libc_start_main, Enter, ProcessInv, FirstProcess, Listed, threadVars, callVars
<1>2. CASE mgr_init \/ initialize_db \/ system_initialize
  BY <1>2, SMTT(30) DEF mgr_init, initialize_db, system_initialize, NodeReady, mgr_exit_error, Enter,
    ProcessInv, FirstProcess, Listed, threadVars, callVars
<1>3. CASE mgr_on_process_init \/ launch_rdma
  BY <1>3, SMTT(30) DEF mgr_on_process_init, launch_rdma, Enter, ProcessInv, FirstProcess, Listed, threadVars, callVars
<1>4. CASE launch_replica_thread
  BY <1>4, SMTT(30) DEF launch_replica_thread, pthread_create, listAddThread, Enter, ProcessInv, FirstProcess, Listed,
    Application, callVars
<1>5. CASE check_point_thread
  BY <1>5, SMTT(30) DEF check_point_thread, pthread_create, listAddThread, Enter, ProcessInv, FirstProcess, Listed,
    Application, Internal, callVars
<1>6. CASE tern_init_func
  BY <1>6 DEF tern_init_func, Enter, ProcessInv, FirstProcess, Listed, threadVars, callVars
<1>7. CASE fork
  BY <1>7, SMTT(30) DEF fork, Enter, ProcessInv, FirstProcess, Listed, callVars
<1>8. CASE RecvfromUnmanaged \/ handle_accept_req
  BY <1>8, SMTT(30) DEF RecvfromUnmanaged, handle_accept_req, Enter, ProcessInv, FirstProcess, Listed, threadVars, callVars
<1>9. ASSUME NEW t \in Internal \cup Helper, InternalCall(t) PROVE ProcessInv'
  BY <1>9, SMTT(30) DEF InternalCall, internal_threads, Internal, Helper, ProcessInv, FirstProcess, Listed, threadVars
<1>10. CASE ApplicationCall
  BY <1>10 DEF ApplicationCall, internal_threads, ProcessInv, FirstProcess, Listed, threadVars
<1>11. CASE UNCHANGED startupVars
  BY <1>11 DEF startupVars, ProcessInv, FirstProcess, Listed
<1>12. CASE unix_read_cb \/ send_restore_cmd
  BY <1>12, SMTT(30) DEF unix_read_cb, send_restore_cmd, ProcessInv, FirstProcess, Listed, callVars
<1>13. ASSUME NEW t \in Helper, HelperReturns(t) PROVE ProcessInv'
  BY <1>13, SMTT(30) DEF HelperReturns, Helper, ProcessInv, FirstProcess, Listed, callVars
<1>. QED
  BY <1>1, <1>2, <1>3, <1>4, <1>5, <1>6, <1>7, <1>8, <1>9, <1>10, <1>11, <1>12, <1>13 DEF StartupNext

\* The hooks of a process that was not forked tell the replica thread and the
\* checkpoint thread from the application, whatever the configuration and whenever
\* they call: tern_init_func sets ev_mgr after mgr_on_process_init has listed both.
\* The short-lived threads of the library (Helper) are never listed.
THEOREM HooksSortCalls == StartupSpec => []SortsCalls
<1>1. ProcessInv => SortsCalls
  BY DEF ProcessInv, FirstProcess, SortsCalls
<1>. QED
  BY <1>1, InitProcessInv, ProcessInvStep, PTL DEF StartupSpec

-----------------------------------------------------------------------------
(* The set-up of the device. *)

Data == {One("servers"), One("log")}
Eps(n) == {Ep(i) : i \in 0 .. n - 1}
Cqs(n) == {Cq(i) : i \in 0 .. n - 1}
Qps(n) == {Qp(i) : i \in 0 .. n - 1}
All == Data \cup Eps(ConfigLen) \cup {One("pd")}

\* Before a device has been chosen: what is held is fixed by the step.
Choosing ==
    /\ ibdev = NULL
    /\ step # "probe" => opened = {}
    /\ step = "server_data" => held = {}
    /\ step = "log" => held = {One("servers")}
    /\ step = "device_list" => held = Data
    /\ step \in {"open", "probe"} => held = Data \cup {One("list")} /\ at \in Nat \ {0}
    /\ step = "probe" => at \in Devs /\ opened = {at}

\* With a device: the loops hold what they obtained for the endpoints below at.
Building ==
    /\ ibdev \in Devs /\ opened = {ibdev}
    /\ step = "ep" => at \in 0 .. ConfigLen /\ held = Data \cup Eps(at)
    /\ step \in {"dummy_cq", "mr"} => held = All
    /\ step = "inline" => held = All \cup {One("dummy_cq")}
    /\ step = "cq" => at \in 0 .. ConfigLen /\ held = All \cup {One("mr")} \cup Cqs(at) \cup Qps(at)
    /\ step = "qp" => at \in Endpoints /\ held = All \cup {One("mr")} \cup Cqs(at + 1) \cup Qps(at)
    /\ step = "running" => held = All \cup {One("mr")} \cup Cqs(ConfigLen) \cup Qps(ConfigLen)

\* The sizes that find_max_inline has passed are not accepted.
Inlining ==
    /\ accepts \subseteq Sizes
    /\ step = "inline" => at \in Sizes \cup {0} /\ \A n \in accepts : n <= at
    /\ step \in {"mr", "cq", "qp", "running"} => inline \in accepts /\ \A n \in accepts : n <= inline

DeviceInv ==
    /\ step \in {"server_data", "log", "device_list", "open", "probe"} => Choosing
    /\ step \in {"ep", "dummy_cq", "inline", "mr", "cq", "qp", "running"} => Building
    /\ step \in {"server_data", "log", "device_list", "open", "probe", "ep", "dummy_cq", "inline", "mr",
                 "cq", "qp", "running", "shutdown", "init_failed", "exit", "crashed"}
    /\ Inlining

-----------------------------------------------------------------------------

\* Ranges of the loops over the endpoints.
LEMMA Ranges ==
  /\ Eps(0) = {} /\ Cqs(0) = {} /\ Qps(0) = {}
  /\ Endpoints = 0 .. ConfigLen - 1
  /\ \A n \in Nat : /\ Eps(n + 1) = Eps(n) \cup {Ep(n)}
                    /\ Cqs(n + 1) = Cqs(n) \cup {Cq(n)}
                    /\ Qps(n + 1) = Qps(n) \cup {Qp(n)}
<1>1. Eps(0) = {} /\ Cqs(0) = {} /\ Qps(0) = {} /\ Endpoints = 0 .. ConfigLen - 1
  BY DeviceAssumption, SMTT(30) DEF Eps, Cqs, Qps, Endpoints
<1>2. ASSUME NEW n \in Nat
      PROVE  /\ Eps(n + 1) = Eps(n) \cup {Ep(n)}
             /\ Cqs(n + 1) = Cqs(n) \cup {Cq(n)}
             /\ Qps(n + 1) = Qps(n) \cup {Qp(n)}
  <2>1. 0 .. (n + 1) - 1 = (0 .. n - 1) \cup {n}
    BY SMTT(30)
  <2>2. QED
    BY <2>1 DEF Eps, Cqs, Qps
<1>3. QED
  BY <1>1, <1>2

\* The device list and the dummy completion queue are given back for themselves.
LEMMA Temporary ==
  /\ One("list") \notin Data
  /\ One("dummy_cq") \notin Data /\ One("dummy_cq") # One("pd") /\ One("dummy_cq") \notin Eps(ConfigLen)
  BY DEF Data, Eps, One, Ep

\* The initial states satisfy DeviceInv.
LEMMA InitDeviceInv == DeviceInit => DeviceInv
  BY DEF DeviceInit, DeviceInv, Choosing, Inlining

\* Every step of the set-up and of its cleanup keeps DeviceInv.
LEMMA DeviceInvStep == DeviceInv /\ [DeviceNext]_deviceVars => DeviceInv'
<1> SUFFICES ASSUME DeviceInv, [DeviceNext]_deviceVars PROVE DeviceInv'
  OBVIOUS
<1> USE DeviceAssumption
<1>1. CASE ServersAllocated
  BY <1>1 DEF ServersAllocated, Obtain, DeviceInv, Choosing, Inlining, Data
<1>2. CASE LogAllocated
  BY <1>2 DEF LogAllocated, Obtain, DeviceInv, Choosing, Inlining, Data
<1>3. CASE ServerDataFails
  BY <1>3 DEF ServerDataFails, DeviceInv, Choosing, Inlining, Data
<1>4. CASE GetDeviceList
  BY <1>4, SMTT(30) DEF GetDeviceList, Obtain, DeviceInv, Choosing, Inlining, Data
<1>5. CASE NoDevices
  BY <1>5 DEF NoDevices, Fail, DeviceInv, Inlining
<1>6. CASE OpenDevice
  BY <1>6 DEF OpenDevice, DeviceInv, Choosing, Inlining
<1>7. CASE NextDevice
  BY <1>7, SMTT(30) DEF NextDevice, DeviceInv, Choosing, Inlining, Devs
<1>8. CASE DeviceFound
  <2>1. /\ step = "probe" /\ step' = "ep" /\ at' = 0 /\ ibdev' = at
        /\ held' = held \ {One("list")} /\ UNCHANGED <<opened, inline, accepts>>
    BY <1>8 DEF DeviceFound
  <2>2. held = Data \cup {One("list")} /\ at \in Devs /\ opened = {at}
    BY <2>1 DEF DeviceInv, Choosing
  <2>3. held' = Data \cup Eps(0)
    BY <2>1, <2>2, Temporary, Ranges
  <2>4. Building'
    BY <2>1, <2>2, <2>3, SMTT(30) DEF Building
  <2>5. QED
    BY <2>1, <2>4 DEF DeviceInv, Inlining
<1>9. CASE NoDevice
  BY <1>9 DEF NoDevice, DeviceInv, Inlining
<1>10. CASE EndpointAllocated
  BY <1>10, Ranges, SMTT(30) DEF EndpointAllocated, Obtain, DeviceInv, Building, Inlining, All
<1>11. CASE EndpointFails
  BY <1>11 DEF EndpointFails, Fail, DeviceInv, Inlining
<1>12. CASE PdAllocated
  BY <1>12, Ranges, SMTT(30) DEF PdAllocated, Obtain, DeviceInv, Building, Inlining, All
<1>13. CASE DummyCqCreated
  BY <1>13, SizesAssumption DEF DummyCqCreated, Obtain, DeviceInv, Building, Inlining, All
<1>14. CASE TryInline
  <2>1. step = "inline" /\ at > 0 /\ UNCHANGED <<opened, ibdev, accepts>>
    BY <1>14 DEF TryInline
  <2>2. /\ Building /\ held = All \cup {One("dummy_cq")} /\ at \in Sizes
        /\ accepts \subseteq Sizes /\ \A n \in accepts : n <= at
    BY <2>1, SMTT(30) DEF DeviceInv, Building, Inlining
  <2>3. CASE at \in accepts
    <3>1. inline' = at /\ held' = held \ {One("dummy_cq")} /\ step' = "mr"
      BY <1>14, <2>3 DEF TryInline
    <3>2. held' = All
      BY <2>2, <3>1, Temporary DEF All
    <3>3. Building'
      BY <2>1, <2>2, <3>1, <3>2 DEF Building
    <3>4. Inlining'
      BY <2>1, <2>2, <2>3, <3>1 DEF Inlining
    <3>5. QED
      BY <3>1, <3>3, <3>4 DEF DeviceInv
  <2>4. CASE at \notin accepts
    <3>1. at' = at \div 2 /\ UNCHANGED <<inline, held, step>>
      BY <1>14, <2>4 DEF TryInline
    <3>2. at' \in Sizes \cup {0}
      BY <2>2, <3>1, SizesAssumption
    <3>3. ASSUME NEW n \in accepts PROVE n <= at'
      <4>1. n \in Sizes /\ n <= at /\ n # at
        BY <2>2, <2>4
      <4>2. n < at
        BY <2>2, <4>1, SizesAssumption, SMTT(30)
      <4>3. QED
        BY <2>2, <3>1, <4>1, <4>2, SizesAssumption
    <3>4. Inlining'
      BY <2>1, <2>2, <3>1, <3>2, <3>3 DEF Inlining
    <3>5. Building'
      BY <2>1, <2>2, <3>1 DEF Building
    <3>6. QED
      BY <2>1, <3>1, <3>4, <3>5 DEF DeviceInv
  <2>5. QED
    BY <2>3, <2>4
<1>15. CASE NoInline
  BY <1>15 DEF NoInline, DeviceInv, Inlining
<1>16. CASE MrRegistered
  BY <1>16, Ranges, SMTT(30) DEF MrRegistered, Obtain, DeviceInv, Building, Inlining, All
<1>17. CASE CqCreated
  BY <1>17, Ranges, SMTT(30) DEF CqCreated, Obtain, DeviceInv, Building, Inlining, All
<1>18. CASE QpCreated
  <2>1. /\ step = "qp" /\ step' = "cq" /\ at' = at + 1 /\ held' = held \cup {Qp(at)}
        /\ UNCHANGED <<opened, ibdev, inline, accepts>>
    BY <1>18 DEF QpCreated, Obtain
  <2>2. /\ at \in Endpoints /\ ibdev \in Devs /\ opened = {ibdev}
        /\ held = All \cup {One("mr")} \cup Cqs(at + 1) \cup Qps(at)
    BY <2>1 DEF DeviceInv, Building
  <2>3. at \in Nat /\ at + 1 \in 0 .. ConfigLen
    BY <2>2, Ranges, SMTT(30)
  <2>4. held' = All \cup {One("mr")} \cup Cqs(at') \cup Qps(at')
    BY <2>1, <2>2, <2>3, Ranges
  <2>5. Building'
    BY <2>1, <2>2, <2>3, <2>4 DEF Building, All
  <2>6. QED
    BY <2>1, <2>5 DEF DeviceInv, Inlining
<1>19. CASE RcFails
  BY <1>19 DEF RcFails, Fail, DeviceInv, Inlining
<1>20. CASE Running
  BY <1>20, Ranges, SMTT(30) DEF Running, DeviceInv, Building, Inlining, All
<1>21. CASE ShutdownCrash
  BY <1>21 DEF ShutdownCrash, DeviceInv, Inlining
<1>22. CASE dare_server_shutdown
  BY <1>22 DEF dare_server_shutdown, DeviceInv, Inlining
<1>23. CASE UNCHANGED deviceVars
  BY <1>23, SMTT(30) DEF deviceVars, DeviceInv, Choosing, Building, Inlining
<1>24. QED
  BY <1>1, <1>2, <1>3, <1>4, <1>5, <1>6, <1>7, <1>8, <1>9, <1>10, <1>11, <1>12, <1>13, <1>14, <1>15, <1>16, <1>17, <1>18, <1>19, <1>20, <1>21, <1>22, <1>23 DEF DeviceNext

\* A server that runs has one open device, the log, its memory region, and for each
\* configured server an endpoint with its queues, and posts inline what the device takes.
THEOREM ServersRunComplete == DeviceSpec => []RunsComplete
<1>1. DeviceInv => RunsComplete
  <2>1. SUFFICES ASSUME DeviceInv, step = "running" PROVE RunsComplete
    BY DEF RunsComplete
  <2>2. /\ ibdev \in Devs /\ opened = {ibdev} /\ inline \in accepts /\ \A n \in accepts : n <= inline
        /\ held = All \cup {One("mr")} \cup Cqs(ConfigLen) \cup Qps(ConfigLen)
    BY <2>1 DEF DeviceInv, Building, Inlining
  <2>3. /\ Eps(ConfigLen) = {"ep"} \X Endpoints
        /\ Cqs(ConfigLen) = {"cq"} \X Endpoints
        /\ Qps(ConfigLen) = {"qp"} \X Endpoints
    BY SMTT(30) DEF Eps, Cqs, Qps, Ep, Cq, Qp, Endpoints
  <2>4. held = Resource \ {One("list"), One("dummy_cq")}
    BY <2>2, <2>3, SMTT(30) DEF All, Data, One, Resource
  <2>5. QED
    BY <2>2, <2>4 DEF RunsComplete
<1>2. QED
  BY <1>1, InitDeviceInv, DeviceInvStep, PTL DEF DeviceSpec

-----------------------------------------------------------------------------
(* Checkpoints.  The types: inner_restore goes on to the kill only with an image unpacked.    *)

ImageInHand == \A g \in Guard : gpc[g] \in {"kill", "criu"} => unpacked[g] # NoImage

\* The initial states have their types.
LEMMA TypeInit == Init => TypeOK /\ ImageInHand
  BY RoundAssumption, SMTT(30) DEF Init, TypeOK, ImageInHand, Process

\* Every step of a thread that does not end the process leaves a process behind.
LEMMA ThreadType ==
  ASSUME TypeOK, BeginEntry \/ ReplicaThread \/ \E c \in Cmd : CommandThread(c), ~Dies
  PROVE  proc' \in Process /\ UNCHANGED <<alive, image, gpc, unpacked, rounds>>
<1>1. CASE BeginEntry \/ ReplicaThread
  <2>. DEFINE Reps == {"check", "entry", "busy", "wait", "launch", "clear"}
  <2>1. \A p \in Process, r \in Reps :
          /\ [p EXCEPT !.rep = r] \in Process
          /\ \A f \in {"none", "approve"} : [p EXCEPT !.rep = r, !.flag = f] \in Process
          /\ \A b \in BOOLEAN : [p EXCEPT !.rep = r, !.conn = b] \in Process
          /\ \A d \in {"up", "broken"} : [p EXCEPT !.rep = r, !.rdma = d] \in Process
          /\ [p EXCEPT !.rep = r, !.restore = FALSE] \in Process
    <3>. SUFFICES ASSUME NEW p \in Process, NEW r \in Reps
                  PROVE  /\ [p EXCEPT !.rep = r] \in Process
                         /\ \A f \in {"none", "approve"} : [p EXCEPT !.rep = r, !.flag = f] \in Process
                         /\ \A b \in BOOLEAN : [p EXCEPT !.rep = r, !.conn = b] \in Process
                         /\ \A d \in {"up", "broken"} : [p EXCEPT !.rep = r, !.rdma = d] \in Process
                         /\ [p EXCEPT !.rep = r, !.restore = FALSE] \in Process
      OBVIOUS
    <3>1. [p EXCEPT !.rep = r] \in Process  BY DEF Process
    <3>2. \A f \in {"none", "approve"} : [p EXCEPT !.rep = r, !.flag = f] \in Process  BY DEF Process
    <3>3. \A b \in BOOLEAN : [p EXCEPT !.rep = r, !.conn = b] \in Process  BY DEF Process
    <3>4. \A d \in {"up", "broken"} : [p EXCEPT !.rep = r, !.rdma = d] \in Process  BY DEF Process
    <3>5. [p EXCEPT !.rep = r, !.restore = FALSE] \in Process  BY DEF Process
    <3>. QED  BY <3>1, <3>2, <3>3, <3>4, <3>5
  <2>2. proc \in Process
    BY DEF TypeOK
  <2>3. CASE check_point_condtion
    <3>1. \/ proc' = [proc EXCEPT !.rep = "entry"]
          \/ proc' = [proc EXCEPT !.rep = "entry", !.flag = "none"]
          \/ proc' = [proc EXCEPT !.rep = "wait", !.flag = "approve"]
      BY <2>3 DEF check_point_condtion, Becomes
    <3>2. UNCHANGED <<alive, image, gpc, unpacked, rounds>>
      BY <2>3 DEF check_point_condtion, Becomes
    <3>3. proc' \in Process
      BY <2>1, <2>2, <3>1
    <3>. QED  BY <3>2, <3>3
  <2>4. CASE EndEntry
    BY <2>1, <2>2, <2>4 DEF EndEntry, Becomes
  <2>5. CASE BeginEntry \/ NoEntry \/ Restored
    BY <2>1, <2>2, <2>5 DEF BeginEntry, NoEntry, Restored, Becomes
  <2>6. CASE LaunchRdma \/ LaunchFails \/ ClearRestore
    BY <2>1, <2>2, <2>6 DEF LaunchRdma, LaunchFails, ClearRestore, Becomes
  <2>. QED
    BY <1>1, <2>3, <2>4, <2>5, <2>6 DEF ReplicaThread, ReadsNoLog
<1>2. CASE \E c \in Cmd : CommandThread(c)
  <2>1. PICK c \in Cmd : CommandThread(c)
    BY <1>2
  <2>2. \A there \in {"idle", "set", "check", "request", "spin", "test", "shutdown", "clear"} :
          Move(c, there) \in Process
    BY <2>1 DEF Move, TypeOK, Process
  <2>3. \A p \in Process :
          /\ [p EXCEPT !.restore = TRUE] \in Process
          /\ \A f \in {"none", "request"} : [p EXCEPT !.flag = f] \in Process
          /\ [p EXCEPT !.rdma = "down"] \in Process
    BY DEF Process
  <2>4. CASE SetRestore(c) \/ Request(c) \/ Shutdown(c) \/ ClearFlag(c)
    BY <2>2, <2>3, <2>4 DEF SetRestore, Request, Shutdown, ClearFlag, Becomes
  <2>5. CASE CheckFlag(c) \/ Answered(c) \/ TestApproved(c) \/ ShutdownFails(c)
    BY <2>2, <2>5 DEF CheckFlag, Answered, TestApproved, ShutdownFails, Becomes
  <2>. QED
    BY <2>1, <2>4, <2>5 DEF CommandThread
<1>. QED  BY <1>1, <1>2

\* Sending a command keeps the type of the process.
LEMMA SendType ==
  ASSUME TypeOK, NEW command \in {"set", "check"}, Send(command)
  PROVE  proc' \in Process
  BY SMTT(30) DEF Send, Move, TypeOK, Process

\* Every step keeps the types.
LEMMA TypeStep == TypeOK /\ ImageInHand /\ [Next]_vars => TypeOK' /\ ImageInHand'
<1>. SUFFICES ASSUME TypeOK, ImageInHand, [Next]_vars PROVE TypeOK' /\ ImageInHand'
  OBVIOUS
<1>0. CASE Dies
  BY <1>0 DEF Dies, TypeOK, ImageInHand
<1>1. CASE (BeginEntry \/ ReplicaThread \/ \E c \in Cmd : CommandThread(c)) /\ ~Dies
  BY <1>1, ThreadType DEF TypeOK, ImageInHand
<1>2. ASSUME NEW g \in Guard, StartCheckpoint(g) \/ StartRestore(g) \/ GuardStep(g)
      PROVE  TypeOK' /\ ImageInHand'
  <2>. USE RoundAssumption
  <2>1. CASE StartCheckpoint(g)
    <3>1. proc' \in Process
      BY <2>1, SendType DEF StartCheckpoint
    <3>. QED
      BY <2>1, <3>1, SMTT(30) DEF StartCheckpoint, Begin, Goto, TypeOK, ImageInHand
  <2>2. CASE StartRestore(g)
    BY <2>2, SMTT(30) DEF StartRestore, Begin, Goto, TypeOK, ImageInHand
  <2>3. CASE Dump(g)
    BY <2>3 DEF Dump, Goto, TypeOK, ImageInHand
  <2>4. CASE DumpFails(g)
    BY <2>4 DEF DumpFails, Goto, TypeOK, ImageInHand
  <2>5. CASE Unpack(g)
    BY <2>5 DEF Unpack, Goto, TypeOK, ImageInHand
  <2>6. CASE Kill(g)
    BY <2>6 DEF Kill, Goto, TypeOK, ImageInHand
  <2>7. CASE CriuRestore(g)
    <3>1. proc' \in Process
      BY <2>7 DEF CriuRestore, TypeOK, ImageInHand
    <3>. QED
      BY <2>7, <3>1 DEF CriuRestore, Goto, TypeOK, ImageInHand
  <2>8. CASE CriuRestoreFails(g)
    BY <2>8 DEF CriuRestoreFails, Goto, TypeOK, ImageInHand
  <2>9. CASE SendReconnect(g)
    <3>1. proc' \in Process
      BY <2>9, SendType DEF SendReconnect
    <3>. QED
      BY <2>9, <3>1 DEF SendReconnect, Goto, TypeOK, ImageInHand
  <2>. QED
    BY <1>2, <2>1, <2>2, <2>3, <2>4, <2>5, <2>6, <2>7, <2>8, <2>9 DEF GuardStep
<1>3. CASE UNCHANGED vars
  BY <1>3 DEF vars, TypeOK, ImageInHand
<1>. QED
  BY <1>0, <1>1, <1>2, <1>3 DEF Next

\* Checkpoint and restore keep every variable in its type: in particular what
\* inner_restore of guard.py starts again is always a process, never a missing
\* checkpoint file.
THEOREM CheckpointTypes == Spec => []TypeOK
  BY TypeInit, TypeStep, PTL DEF Spec

-----------------------------------------------------------------------------
(* The handshake.                                                            *)

\* What a process in an image is like: it stands in the wait of
\* check_point_condtion, and none of its threads can take a step.
Frozen(p) ==
  /\ p.rep = "wait" /\ ~p.restore /\ ~p.conn
  /\ p.rdma = "down" /\ p.flag # "approve"
  /\ \A c \in Cmd : p.cmd[c] = "idle" \/ (p.cmd[c] = "spin" /\ p.flag = "request")

\* Nobody is about to shut RDMA down, and no approval invites anybody to.
NotLeaving(p) == p.flag # "approve" /\ \A c \in Cmd : p.cmd[c] \notin {"shutdown", "clear"}
NoReconnect(p) == ~p.restore /\ \A c \in Cmd : p.cmd[c] # "set"

\* The two phases of the handshake never meet: while the replica thread is in its
\* loop or on its way back there, no thread leaves; while one leaves, no
\* "reconnect" is pending.
SafeProcess(p) ==
  /\ p.rep \in {"check", "entry", "busy"} => p.rdma # "down" /\ NotLeaving(p) /\ NoReconnect(p)
  /\ p.rep = "wait" => ~p.conn /\ (NotLeaving(p) \/ NoReconnect(p))
  /\ p.rep \in {"launch", "clear"} =>
       NotLeaving(p) /\ p.restore /\ \A c \in Cmd : p.cmd[c] # "set"
  /\ p.rep = "clear" => p.rdma # "down"
  /\ \A c, d \in Cmd : p.cmd[c] = "set" => ~p.restore /\ (p.cmd[d] = "set" => c = d)
  /\ p.rdma = "down" /\ p.flag = "approve" => \E c \in Cmd : p.cmd[c] = "clear"

Images ==
  /\ image # NoImage => Frozen(image)
  /\ \A g \in Guard :
       /\ unpacked[g] # NoImage => Frozen(unpacked[g])
       /\ gpc[g] = "criu" => ~alive
       /\ gpc[g] = "reconnect" => ~alive \/ Frozen(proc)

IInv == TypeOK /\ ImageInHand /\ SafeProcess(proc) /\ Images

\* A frozen process is safe.
LEMMA FrozenIsSafe == ASSUME NEW p, Frozen(p) PROVE SafeProcess(p)
  BY DEF Frozen, SafeProcess, NotLeaving, NoReconnect

\* The initial states satisfy the invariant.
LEMMA InitIInv == Init => IInv
  BY TypeInit, SMTT(30) DEF Init, IInv, SafeProcess, NotLeaving, NoReconnect, Images

\* No thread of a frozen process can move.
LEMMA FrozenStays ==
  ASSUME Frozen(proc), BeginEntry \/ ReplicaThread \/ \E c \in Cmd : CommandThread(c)
  PROVE  FALSE
<1>1. ~BeginEntry /\ ~ReplicaThread
  BY DEF Frozen, BeginEntry, ReplicaThread, check_point_condtion, NoEntry, ReadsNoLog, EndEntry,
    Restored, LaunchRdma, LaunchFails, ClearRestore
<1>2. \A c \in Cmd : ~CommandThread(c)
  BY DEF Frozen, CommandThread, SetRestore, CheckFlag, Request, Answered, TestApproved,
    Shutdown, ShutdownFails, ClearFlag, At
<1>. QED  BY <1>1, <1>2

\* A step of the replica thread leaves a safe process.
LEMMA ReplicaSafe ==
  ASSUME TypeOK, SafeProcess(proc), BeginEntry \/ ReplicaThread, ~Dies
  PROVE  SafeProcess(proc')
<1>0. proc \in Process
  BY DEF TypeOK
<1>1. CASE check_point_condtion
  <2>1. CASE proc.flag # "request" \/ proc.conn
    <3>1. proc'.rep = "entry" /\ proc'.flag \in {proc.flag, "none"} /\ proc.rep = "check"
      BY <1>0, <1>1, <2>1 DEF check_point_condtion, Becomes, Process
    <3>2. proc'.cmd = proc.cmd /\ proc'.rdma = proc.rdma /\ proc'.restore = proc.restore
      BY <1>0, <1>1, <2>1 DEF check_point_condtion, Becomes, Process
    <3>. QED  BY <3>1, <3>2 DEF SafeProcess, NotLeaving, NoReconnect
  <2>2. CASE proc.flag = "request" /\ ~proc.conn
    <3>1. proc'.rep = "wait" /\ proc.rep = "check" /\ ~proc'.conn
      BY <1>0, <1>1, <2>2 DEF check_point_condtion, Becomes, Process
    <3>2. proc'.cmd = proc.cmd /\ proc'.rdma = proc.rdma /\ proc'.restore = proc.restore
      BY <1>0, <1>1, <2>2 DEF check_point_condtion, Becomes, Process
    <3>. QED  BY <3>1, <3>2 DEF SafeProcess, NotLeaving, NoReconnect
  <2>. QED  BY <2>1, <2>2
<1>2. CASE BeginEntry \/ NoEntry \/ EndEntry
  <2>1. proc.rep \in {"entry", "busy"} /\ proc'.rep \in {"check", "busy"}
    BY <1>0, <1>2 DEF BeginEntry, NoEntry, EndEntry, Becomes, Process
  <2>2. proc'.cmd = proc.cmd /\ proc'.rdma = proc.rdma /\ proc'.restore = proc.restore /\ proc'.flag = proc.flag
    BY <1>0, <1>2 DEF BeginEntry, NoEntry, EndEntry, Becomes, Process
  <2>. QED  BY <2>1, <2>2 DEF SafeProcess, NotLeaving, NoReconnect
<1>3. CASE Restored
  <2>1. proc.rep = "wait" /\ proc.restore /\ proc'.rep = "launch" /\ proc'.restore
    BY <1>0, <1>3 DEF Restored, Becomes, Process
  <2>2. proc'.cmd = proc.cmd /\ proc'.rdma = proc.rdma /\ proc'.flag = proc.flag
    BY <1>0, <1>3 DEF Restored, Becomes, Process
  <2>. QED  BY <2>1, <2>2 DEF SafeProcess, NotLeaving, NoReconnect
<1>4. CASE LaunchRdma \/ LaunchFails
  <2>1. proc.rep = "launch" /\ proc'.rep = "clear" /\ proc'.rdma # "down"
    BY <1>0, <1>4 DEF LaunchRdma, LaunchFails, Becomes, Process
  <2>2. proc'.cmd = proc.cmd /\ proc'.restore = proc.restore /\ proc'.flag = proc.flag
    BY <1>0, <1>4 DEF LaunchRdma, LaunchFails, Becomes, Process
  <2>. QED  BY <2>1, <2>2 DEF SafeProcess, NotLeaving, NoReconnect
<1>5. CASE ClearRestore
  <2>1. proc.rep = "clear" /\ proc'.rep = "entry" /\ ~proc'.restore
    BY <1>0, <1>5 DEF ClearRestore, Becomes, Process
  <2>2. proc'.cmd = proc.cmd /\ proc'.rdma = proc.rdma /\ proc'.flag = proc.flag
    BY <1>0, <1>5 DEF ClearRestore, Becomes, Process
  <2>. QED  BY <2>1, <2>2 DEF SafeProcess, NotLeaving, NoReconnect
<1>. QED
  BY <1>1, <1>2, <1>3, <1>4, <1>5 DEF ReplicaThread, ReadsNoLog

\* A step of a command thread leaves a safe process.
LEMMA CommandSafe ==
  ASSUME TypeOK, SafeProcess(proc), NEW c \in Cmd, CommandThread(c)
  PROVE  SafeProcess(proc')
<1>0. proc \in Process /\ proc.cmd \in [Cmd -> {"idle", "set", "check", "request", "spin", "test", "shutdown", "clear"}]
  BY DEF TypeOK, Process
<1>1. CASE SetRestore(c)
  <2>1. /\ proc.cmd[c] = "set" /\ proc'.cmd[c] = "idle" /\ \A d \in Cmd \ {c} : proc'.cmd[d] = proc.cmd[d]
        /\ proc'.restore
    BY <1>0, <1>1 DEF SetRestore, At, Move, Becomes, Process
  <2>2. proc'.rep = proc.rep /\ proc'.rdma = proc.rdma /\ proc'.flag = proc.flag /\ proc'.conn = proc.conn
    BY <1>0, <1>1 DEF SetRestore, At, Move, Becomes, Process
  <2>3. proc.rep = "wait" /\ NotLeaving(proc)
    BY <1>0, <2>1 DEF SafeProcess, NoReconnect, Process
  <2>. QED  BY <2>1, <2>2, <2>3 DEF SafeProcess, NotLeaving, NoReconnect
<1>2. CASE CheckFlag(c) \/ Answered(c)
  <2>1. /\ proc.cmd[c] \in {"check", "spin"} /\ proc'.cmd[c] \in {"idle", "request", "test"}
        /\ \A d \in Cmd \ {c} : proc'.cmd[d] = proc.cmd[d]
    BY <1>0, <1>2, SMTT(30) DEF CheckFlag, Answered, At, Move, Becomes, Process
  <2>2. /\ proc'.rep = proc.rep /\ proc'.rdma = proc.rdma /\ proc'.flag = proc.flag /\ proc'.conn = proc.conn
        /\ proc'.restore = proc.restore
    BY <1>0, <1>2 DEF CheckFlag, Answered, At, Move, Becomes, Process
  <2>. QED  BY <2>1, <2>2 DEF SafeProcess, NotLeaving, NoReconnect
<1>3. CASE Request(c)
  <2>1. /\ proc.cmd[c] = "request" /\ proc'.cmd[c] = "spin" /\ proc'.flag = "request"
        /\ \A d \in Cmd \ {c} : proc'.cmd[d] = proc.cmd[d]
    BY <1>0, <1>3 DEF Request, At, Move, Becomes, Process
  <2>2. proc'.rep = proc.rep /\ proc'.rdma = proc.rdma /\ proc'.conn = proc.conn /\ proc'.restore = proc.restore
    BY <1>0, <1>3 DEF Request, At, Move, Becomes, Process
  <2>. QED  BY <2>1, <2>2 DEF SafeProcess, NotLeaving, NoReconnect
<1>4. CASE TestApproved(c)
  <2>1. /\ proc.cmd[c] = "test" /\ (proc'.cmd[c] = "idle" \/ (proc'.cmd[c] = "shutdown" /\ proc.flag = "approve"))
        /\ \A d \in Cmd \ {c} : proc'.cmd[d] = proc.cmd[d]
    BY <1>0, <1>4 DEF TestApproved, At, Move, Becomes, Process
  <2>2. /\ proc'.rep = proc.rep /\ proc'.rdma = proc.rdma /\ proc'.flag = proc.flag /\ proc'.conn = proc.conn
        /\ proc'.restore = proc.restore
    BY <1>0, <1>4 DEF TestApproved, At, Move, Becomes, Process
  <2>. QED  BY <2>1, <2>2 DEF SafeProcess, NotLeaving, NoReconnect
<1>5. CASE Shutdown(c) \/ ShutdownFails(c) \/ ClearFlag(c)
  <2>0. proc.cmd[c] \in {"shutdown", "clear"}
    BY <1>5 DEF Shutdown, ShutdownFails, ClearFlag, At
  <2>1. proc.rep = "wait" /\ NoReconnect(proc) /\ ~proc.conn
    BY <1>0, <2>0 DEF SafeProcess, NotLeaving, Process
  <2>2. \A d \in Cmd \ {c} : proc'.cmd[d] = proc.cmd[d]
    <3>1. CASE Shutdown(c)  BY <1>0, <3>1 DEF Shutdown, At, Move, Becomes, Process
    <3>2. CASE ShutdownFails(c)  BY <1>0, <3>2 DEF ShutdownFails, At, Move, Becomes, Process
    <3>3. CASE ClearFlag(c)  BY <1>0, <3>3 DEF ClearFlag, At, Move, Becomes, Process
    <3>. QED  BY <1>5, <3>1, <3>2, <3>3
  <2>3. proc'.cmd[c] \in {"clear", "idle"} /\ proc'.rep = proc.rep /\ proc'.conn = proc.conn /\ proc'.restore = proc.restore
    <3>1. CASE Shutdown(c)  BY <1>0, <3>1 DEF Shutdown, At, Move, Becomes, Process
    <3>2. CASE ShutdownFails(c)  BY <1>0, <3>2 DEF ShutdownFails, At, Move, Becomes, Process
    <3>3. CASE ClearFlag(c)  BY <1>0, <3>3 DEF ClearFlag, At, Move, Becomes, Process
    <3>. QED  BY <1>5, <3>1, <3>2, <3>3
  <2>4. \/ proc'.cmd[c] = "clear"
        \/ proc'.flag = "none"
        \/ proc.cmd[c] = "shutdown" /\ proc'.rdma = proc.rdma /\ proc'.flag = proc.flag
    <3>1. CASE Shutdown(c)  BY <1>0, <3>1 DEF Shutdown, At, Move, Becomes, Process
    <3>2. CASE ShutdownFails(c)  BY <1>0, <3>2 DEF ShutdownFails, At, Move, Becomes, Process
    <3>3. CASE ClearFlag(c)  BY <1>0, <3>3 DEF ClearFlag, At, Move, Becomes, Process
    <3>. QED  BY <1>5, <3>1, <3>2, <3>3
  <2>5. NoReconnect(proc')
    BY <2>1, <2>2, <2>3 DEF NoReconnect
  <2>6. proc'.rdma = "down" /\ proc'.flag = "approve" => \E d \in Cmd : proc'.cmd[d] = "clear"
    BY <2>2, <2>4 DEF SafeProcess
  <2>. QED  BY <2>1, <2>3, <2>5, <2>6 DEF SafeProcess, NoReconnect
<1>. QED
  BY <1>1, <1>2, <1>3, <1>4, <1>5 DEF CommandThread

\* A thread moves only when no restored process still waits for its "reconnect".
LEMMA ThreadStep ==
  ASSUME IInv, BeginEntry \/ ReplicaThread \/ \E c \in Cmd : CommandThread(c)
  PROVE  SafeProcess(proc') /\ Images'
<1>1. CASE Dies
  BY <1>1 DEF Dies, IInv, Images
<1>2. CASE ~Dies
  <2>1. alive
    BY DEF BeginEntry, ReplicaThread, check_point_condtion, NoEntry, ReadsNoLog, EndEntry, Restored, LaunchRdma,
      LaunchFails, ClearRestore, CommandThread, SetRestore, CheckFlag, Request, Answered, TestApproved,
      Shutdown, ShutdownFails, ClearFlag, Becomes, Dies
  <2>2. UNCHANGED <<alive, image, gpc, unpacked, rounds>>
    BY <1>2, ThreadType DEF IInv
  <2>3. \A g \in Guard : gpc[g] # "reconnect"
    BY <2>1, FrozenStays DEF IInv, Images
  <2>4. SafeProcess(proc')
    BY <1>2, ReplicaSafe, CommandSafe DEF IInv
  <2>. QED
    BY <2>1, <2>2, <2>3, <2>4 DEF IInv, Images
<1>. QED  BY <1>1, <1>2

\* What guard.py finds one second after "disconnect", with RDMA shut down.
LEMMA DumpFrozen ==
  ASSUME Prompt, IInv, NEW g \in Guard, Dump(g)
  PROVE  Frozen(proc)
<1>1. proc \in Process /\ SafeProcess(proc)
  BY DEF IInv, TypeOK
<1>2. Quiet /\ proc.rdma = "down"
  BY DEF Dump, Slept
<1>3. proc.rep = "wait" /\ ~proc.restore /\ ~proc.conn
  BY <1>1, <1>2 DEF Quiet, SafeProcess, Process
<1>4. \A c \in Cmd : proc.cmd[c] = "idle" \/ (proc.cmd[c] = "spin" /\ proc.flag = "request")
  BY <1>2 DEF Quiet, At
<1>5. proc.flag # "approve"
  BY <1>1, <1>2, <1>4 DEF SafeProcess
<1>. QED  BY <1>2, <1>3, <1>4, <1>5 DEF Frozen

\* A command that is sent leaves a safe process.
LEMMA SendSafe ==
  ASSUME TypeOK, SafeProcess(proc), NEW command \in {"set", "check"}, Send(command),
         command = "set" => ~alive \/ Frozen(proc)
  PROVE  SafeProcess(proc')
<1>1. CASE ~alive
  BY <1>1 DEF Send
<1>2. CASE alive
  <2>1. PICK c \in Cmd : At(c, "idle") /\ proc' = Move(c, command)
    BY <1>2 DEF Send
  <2>2. proc \in Process /\ proc.cmd \in [Cmd -> {"idle", "set", "check", "request", "spin", "test", "shutdown", "clear"}]
    BY DEF TypeOK, Process
  <2>3. /\ proc.cmd[c] = "idle" /\ proc'.cmd[c] = command
        /\ \A d \in Cmd \ {c} : proc'.cmd[d] = proc.cmd[d]
    BY <2>1, <2>2 DEF At, Move, Process
  <2>4. /\ proc'.rep = proc.rep /\ proc'.rdma = proc.rdma /\ proc'.flag = proc.flag /\ proc'.conn = proc.conn
        /\ proc'.restore = proc.restore
    BY <2>1, <2>2 DEF Move, Process
  <2>5. CASE command = "check"
    BY <2>3, <2>4, <2>5 DEF SafeProcess, NotLeaving, NoReconnect
  <2>6. CASE command = "set"
    BY <1>2, <2>3, <2>4, <2>6, SMTT(30) DEF Frozen, SafeProcess, NotLeaving, NoReconnect
  <2>. QED  BY <2>5, <2>6
<1>. QED  BY <1>1, <1>2

\* A step of the only guard leaves a safe process and safe images.
LEMMA GuardSafe ==
  ASSUME Prompt, \A g, h \in Guard : g = h,
         IInv, NEW g \in Guard, StartCheckpoint(g) \/ StartRestore(g) \/ GuardStep(g)
  PROVE  SafeProcess(proc') /\ Images'
<1>0. Guard = {g} /\ gpc \in [Guard -> {"idle", "sleep", "restore", "kill", "criu", "reconnect"}]
      /\ unpacked \in [Guard -> Process \cup {NoImage}]
  BY DEF IInv, TypeOK
<1>1. CASE StartCheckpoint(g)
  <2>1. SafeProcess(proc')
    BY <1>1, SendSafe DEF StartCheckpoint, IInv
  <2>. QED
    BY <1>0, <1>1, <2>1 DEF StartCheckpoint, Begin, Goto, IInv, Images
<1>2. CASE StartRestore(g)
  BY <1>0, <1>2 DEF StartRestore, Begin, Goto, IInv, Images
<1>3. CASE Dump(g)
  BY <1>0, <1>3, DumpFrozen DEF Dump, Goto, IInv, Images
<1>4. CASE DumpFails(g)
  BY <1>0, <1>4 DEF DumpFails, Goto, IInv, Images
<1>5. CASE Unpack(g)
  BY <1>0, <1>5 DEF Unpack, Goto, IInv, Images
<1>6. CASE Kill(g)
  BY <1>0, <1>6 DEF Kill, Goto, IInv, Images
<1>7. CASE CriuRestore(g)
  <2>1. Frozen(proc')
    BY <1>7 DEF CriuRestore, IInv, ImageInHand, Images
  <2>. QED
    BY <1>0, <1>7, <2>1, FrozenIsSafe DEF CriuRestore, Goto, IInv, Images
<1>8. CASE CriuRestoreFails(g)
  BY <1>0, <1>8 DEF CriuRestoreFails, Goto, IInv, Images
<1>9. CASE SendReconnect(g)
  <2>1. SafeProcess(proc')
    BY <1>9, SendSafe DEF SendReconnect, IInv, Images
  <2>. QED
    BY <1>0, <1>9, <2>1 DEF SendReconnect, Goto, IInv, Images
<1>. QED
  BY <1>1, <1>2, <1>3, <1>4, <1>5, <1>6, <1>7, <1>8, <1>9 DEF GuardStep

\* Every step keeps the invariant.
LEMMA IInvStep ==
  ASSUME Prompt, \A g, h \in Guard : g = h
  PROVE  IInv /\ [Next]_vars => IInv'
<1>. SUFFICES ASSUME IInv, [Next]_vars PROVE IInv'
  OBVIOUS
<1>1. TypeOK' /\ ImageInHand'
  BY TypeStep DEF IInv
<1>2. CASE BeginEntry \/ ReplicaThread \/ \E c \in Cmd : CommandThread(c)
  BY <1>1, <1>2, ThreadStep DEF IInv
<1>3. CASE \E g \in Guard : StartCheckpoint(g) \/ StartRestore(g) \/ GuardStep(g)
  BY <1>1, <1>3, GuardSafe DEF IInv
<1>4. CASE UNCHANGED vars
  BY <1>1, <1>4 DEF vars, IInv, Images
<1>. QED
  BY <1>2, <1>3, <1>4 DEF Next

-----------------------------------------------------------------------------
\* When the threads that can move do so within the guard's one second of sleep and
\* the guard does one thing at a time, handle_accept_req never turns on a log that
\* dare_rdma_shutdown has released: not with any number of requests and commands
\* pending, and not when shutdown, launch, dump or restore fail.
THEOREM LoopUsesOpenRdma ==
  ASSUME Prompt, \A g, h \in Guard : g = h
  PROVE  Spec => []UsesOpenRdma
<1>1. IInv => UsesOpenRdma
  BY DEF IInv, SafeProcess, UsesOpenRdma
<1>2. IInv /\ [Next]_vars => IInv'
  BY IInvStep
<1>. QED
  BY <1>1, <1>2, InitIInv, PTL DEF Spec

\* Under the same two assumptions every image that criu writes is of a process
\* whose replica thread waits in check_point_condtion with no connection open and
\* no "reconnect" pending.
THEOREM ImagesWait ==
  ASSUME Prompt, \A g, h \in Guard : g = h
  PROVE  Spec => []ImageWaits
<1>1. IInv => ImageWaits
  BY DEF IInv, Images, Frozen, ImageWaits
<1>2. IInv /\ [Next]_vars => IInv'
  BY IInvStep
<1>. QED
  BY <1>1, <1>2, InitIInv, PTL DEF Spec
=============================================================================
