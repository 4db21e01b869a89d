------------------------------ MODULE Startup ------------------------------
(* Start of a process under the preloaded library: __libc_start_main        *)
(* (spec_hooks.cpp) puts tern_init_func in front of the application's main, *)
(* mgr_init (ev_mgr.c) reads the configuration, opens the database and      *)
(* creates the node, and mgr_on_process_init starts the internal threads    *)
(* and lists them in excluded_threads, by which the hooks tell their calls  *)
(* from those of the application.  A forked child runs mgr_on_process_init  *)
(* again, with the global ev_mgr already set.  The threads that the library *)
(* starts later, for a command of the guard (check_point_thread.c) and to   *)
(* send it one (decision.c), are never listed.                              *)
EXTENDS Integers, FiniteSets

CONSTANTS node_id,       \* atoi(getenv("node_id"))
          GroupSizes,    \* values of group_size in the configuration file
          MaxFork        \* bound on the forks followed from parent to child

VARIABLES
    target,      \* argv[0] contains "server"
    file,        \* the configuration file
    start_mode,  \* "s" or another letter
    stage,       \* where the application's thread is
    ev_mgr,      \* the global of spec_hooks.cpp is not NULL
    allocated,   \* the event_manager, the database, the node
    my_role,     \* consensus_component.my_role
    rdma,        \* dare_server_init succeeded in this process
    running,     \* threads of the library that run
    excluded,    \* ev_mgr->excluded_threads
    created,     \* what pthread_create left in its first argument
    failed,      \* a pthread_create failed
    forks,       \* forks between the first process and this one
    seen,        \* threads of the library whose calls were taken for the application's
    dropped      \* a call of the application was taken for an internal one

startupVars == <<target, file, start_mode, stage, ev_mgr, allocated, my_role, rdma, running,
                 excluded, created, failed, forks, seen, dropped>>
inputVars == <<target, file, start_mode>>
threadVars == <<running, excluded, created, failed>>
callVars == <<seen, dropped>>

Missing == -1
Internal == {"replica", "checkpoint"}
Helper == {"command", "restore"}
Application == "application"
NoThread == "none"

\* Nothing is known of a pthread_t that pthread_create did not set.
Garbage == {NoThread, Application}

ConfigFile ==
    [group_size : GroupSizes \cup {Missing}, mgr_config : SUBSET {node_id}, consensus_config : SUBSET {node_id}]

StartupInit ==
    /\ target \in BOOLEAN /\ file \in ConfigFile /\ start_mode \in {"s", "r"}
    /\ stage = "load" /\ ev_mgr = FALSE /\ allocated = {} /\ my_role = "none" /\ rdma = FALSE
    /\ running = {} /\ excluded = {} /\ created = NoThread /\ failed = FALSE
    /\ forks = 0 /\ seen = {} /\ dropped = FALSE

\* Both readers refuse a file without a group size, a node number outside of
\* the group, and a section in which the node's entry is missing or incomplete.
mgr_read_config == file.group_size > node_id /\ node_id \in file.mgr_config
consensus_read_config == file.group_size > node_id /\ node_id \in file.consensus_config

internal_threads(t) == t \in excluded

Enter(s) == stage' = s

\* mgr_exit_error: only the event_manager is freed; main starts with ev_mgr NULL.
mgr_exit_error ==
    /\ Enter("main") /\ allocated' = allocated \ {"event_manager"}
    /\ UNCHANGED <<inputVars, ev_mgr, my_role, rdma, threadVars, forks, callVars>>

libc_start_main ==
    /\ stage = "load"
    /\ Enter(IF target THEN "config" ELSE "main")
    /\ UNCHANGED <<inputVars, ev_mgr, allocated, my_role, rdma, threadVars, forks, callVars>>

\* tern_init_func calls mgr_init, which allocates and reads its part of the file.
mgr_init ==
    /\ stage = "config"
    /\ \/ /\ mgr_read_config
          /\ Enter("db") /\ allocated' = {"event_manager"}
          /\ UNCHANGED <<inputVars, ev_mgr, my_role, rdma, threadVars, forks, callVars>>
       \/ /\ ~mgr_read_config
          /\ mgr_exit_error

initialize_db ==
    /\ stage = "db"
    /\ \/ /\ Enter("node") /\ allocated' = allocated \cup {"db"}
          /\ UNCHANGED <<inputVars, ev_mgr, my_role, rdma, threadVars, forks, callVars>>
       \/ mgr_exit_error

\* system_initialize and initialize_node: the starter in mode "s" leads, the
\* others know no leader (9999); a node that is refused is not freed.
Role == IF start_mode = "s" THEN "LEADER" ELSE "SECONDARY"

\* Mutant: the node sets the global before its threads are listed.
NodeReadyPublished ==
    /\ Enter("release") /\ allocated' = allocated \cup {"node"} /\ my_role' = Role /\ ev_mgr' = TRUE
    /\ UNCHANGED <<inputVars, rdma, threadVars, forks, callVars>>

NodeReady ==
    /\ Enter("release") /\ allocated' = allocated \cup {"node"} /\ my_role' = Role
    /\ UNCHANGED <<inputVars, ev_mgr, rdma, threadVars, forks, callVars>>

system_initialize ==
    /\ stage = "node"
    /\ \/ consensus_read_config /\ NodeReady
       \/ ~consensus_read_config /\ mgr_exit_error

\* mgr_on_process_init: a new empty list, then RDMA, then the two threads.
mgr_on_process_init ==
    /\ stage = "release"
    /\ Enter("rdma") /\ excluded' = {}
    /\ UNCHANGED <<inputVars, ev_mgr, allocated, my_role, rdma, running, created, failed, forks, callVars>>

\* A failure of init_server_data is printed and passed over; one of
\* init_network_cb ends the process (dare_server_shutdown).
launch_rdma ==
    /\ stage = "rdma"
    /\ \/ Enter("replica") /\ rdma' \in BOOLEAN
       \/ Enter("exited") /\ UNCHANGED rdma
    /\ UNCHANGED <<inputVars, ev_mgr, allocated, my_role, threadVars, forks, callVars>>

pthread_create(t, next) ==
    /\ \/ running' = running \cup {t} /\ created' = t /\ UNCHANGED failed
       \/ created' \in Garbage /\ failed' = TRUE /\ UNCHANGED running
    /\ Enter(next)
    /\ UNCHANGED <<inputVars, ev_mgr, allocated, my_role, rdma, excluded, forks, callVars>>

listAddThread(next) ==
    /\ excluded' = excluded \cup {created} /\ Enter(next)
    /\ UNCHANGED <<inputVars, ev_mgr, allocated, my_role, rdma, running, created, failed, forks, callVars>>

\* A thread is listed after it was created, whether or not that failed.
launch_replica_thread ==
    \/ stage = "replica" /\ pthread_create("replica", "list_replica")
    \/ stage = "list_replica" /\ listAddThread("checkpoint")

check_point_thread ==
    \/ stage = "checkpoint" /\ pthread_create("checkpoint", "list_checkpoint")
    \/ stage = "list_checkpoint" /\ listAddThread("return")

\* tern_init_func sets the global; in a child it is already set.
tern_init_func ==
    /\ stage = "return"
    /\ Enter("main") /\ ev_mgr' = TRUE
    /\ UNCHANGED <<inputVars, allocated, my_role, rdma, threadVars, forks, callVars>>

\* Only the forking thread goes on in the child, which starts the internal
\* threads of its own; without an event manager it reads through NULL.
fork ==
    /\ stage = "main" /\ forks < MaxFork
    /\ \/ /\ Enter(IF ev_mgr THEN "release" ELSE "crashed")
          /\ running' = {} /\ forks' = forks + 1
       \/ Enter("exited") /\ UNCHANGED <<running, forks>>
    /\ UNCHANGED <<inputVars, ev_mgr, allocated, my_role, rdma, excluded, created, failed, callVars>>

\* A disconnect or reconnect runs in a thread of its own, and so does the write of a
\* restore command when the leader's application meets a diverged output.
unix_read_cb ==
    /\ "checkpoint" \in running /\ stage \notin {"exited", "crashed"}
    /\ running' = running \cup {"command"}
    /\ UNCHANGED <<inputVars, stage, ev_mgr, allocated, my_role, rdma, excluded, created, failed, forks, callVars>>

send_restore_cmd ==
    /\ stage = "main" /\ ev_mgr /\ my_role = "LEADER"
    /\ running' = running \cup {"restore"}
    /\ UNCHANGED <<inputVars, stage, ev_mgr, allocated, my_role, rdma, excluded, created, failed, forks, callVars>>

HelperReturns(t) ==
    /\ t \in running /\ stage \notin {"exited", "crashed"}
    /\ running' = running \ {t}
    /\ UNCHANGED <<inputVars, stage, ev_mgr, allocated, my_role, rdma, excluded, created, failed, forks, callVars>>

\* recvfrom is the one hook that does not test ev_mgr.
RecvfromUnmanaged ==
    /\ stage = "main" /\ ~ev_mgr
    /\ Enter("crashed")
    /\ UNCHANGED <<inputVars, ev_mgr, allocated, my_role, rdma, threadVars, forks, callVars>>

\* handle_accept_req reads the log of a server that has none.
handle_accept_req ==
    /\ "replica" \in running /\ my_role = "SECONDARY" /\ ~rdma /\ stage \notin {"exited", "crashed"}
    /\ Enter("crashed")
    /\ UNCHANGED <<inputVars, ev_mgr, allocated, my_role, rdma, threadVars, forks, callVars>>

\* A hooked call (close, accept4, write ...) of a library thread that the list lacks.
InternalCall(t) ==
    /\ t \in running /\ ev_mgr /\ ~internal_threads(t) /\ stage \notin {"exited", "crashed"}
    /\ seen' = seen \cup {t}
    /\ UNCHANGED <<inputVars, stage, ev_mgr, allocated, my_role, rdma, threadVars, forks, dropped>>

\* A hooked call of the application that the list takes for an internal one.
ApplicationCall ==
    /\ stage = "main" /\ ev_mgr /\ internal_threads(Application)
    /\ dropped' = TRUE
    /\ UNCHANGED <<inputVars, stage, ev_mgr, allocated, my_role, rdma, threadVars, forks, seen>>

StartupNext ==
    \/ libc_start_main \/ mgr_init \/ initialize_db \/ system_initialize
    \/ mgr_on_process_init \/ launch_rdma \/ launch_replica_thread \/ check_point_thread
    \/ tern_init_func \/ fork \/ RecvfromUnmanaged \/ handle_accept_req
    \/ unix_read_cb \/ send_restore_cmd \/ \E t \in Helper : HelperReturns(t)
    \/ \E t \in Internal \cup Helper : InternalCall(t)
    \/ ApplicationCall

StartupSpec == StartupInit /\ [][StartupNext]_startupVars

-----------------------------------------------------------------------------
(* The hooks sort the calls (internal_threads in ev_mgr.c): in a process    *)
(* that was not forked and could create its threads, no call of the replica *)
(* thread or of the checkpoint thread is taken for the application's and    *)
(* none of the application's is dropped.  The threads run before they are   *)
(* listed; what protects them is that the global ev_mgr is set after both   *)
(* are, which a forked child does not have.  Nothing protects the Helper    *)
(* threads: the restore command goes through mgr_on_check as if the         *)
(* application had written it.                                              *)
SortsCalls ==
    forks = 0 /\ ~failed => seen \cap Internal = {} /\ ~dropped

=============================================================================
