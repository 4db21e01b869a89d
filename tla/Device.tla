------------------------------- MODULE Device -------------------------------
(***************************************************************************)
(* Setting up the server and its InfiniBand resources, and giving them back *)
(* when a step fails: dare_server_init to dare_server_shutdown in           *)
(* rdma/dare_server.c, rdma/dare_ibv.c, and rc_init and rc_free in          *)
(* rdma/dare_ibv_rc.c.  Any call that obtains a resource may fail.          *)
(***************************************************************************)
EXTENDS Naturals, FiniteSets

CONSTANTS NumDevs,         \* devices of the machine
          ConfigLen,       \* config.len, MAX_SERVER_COUNT
          InlineTop        \* find_max_inline starts at 1 << InlineTop

ASSUME DeviceAssumption == NumDevs \in Nat /\ ConfigLen \in Nat /\ InlineTop \in Nat

VARIABLES step,        \* where dare_server_init is
          at,          \* the device, endpoint or size a loop is at
          opened,      \* device contexts that are open
          ibdev,       \* IBDEV: a device, or NULL
          held,        \* what else has been obtained and not given back
          inline,      \* rc_max_inline_data
          accepts      \* the inline sizes for which the device creates a queue pair

deviceVars == <<step, at, opened, ibdev, held, inline, accepts>>

NULL == 0
Devs == 1 .. NumDevs
Endpoints == 0 .. ConfigLen - 1
One(kind) == <<kind, 0>>
Ep(i) == <<"ep", i>>
Cq(i) == <<"cq", i>>
Qp(i) == <<"qp", i>>
Resource == ({"servers", "log", "list", "pd", "mr", "dummy_cq"} \X {0})
            \cup ({"ep", "cq", "qp"} \X Endpoints)

\* The sizes find_max_inline tries: 1 << InlineTop halved until it is 0.
Sizes == {2 ^ e : e \in 0 .. InlineTop}

\* What halving does to powers of two.
ASSUME SizesAssumption ==
    /\ Sizes \subseteq Nat \ {0} /\ 2 ^ InlineTop \in Sizes
    /\ \A n \in Sizes : n <= 2 ^ InlineTop /\ n \div 2 \in Sizes \cup {0}
    /\ \A m, n \in Sizes : m < n => m <= n \div 2

\* A device accepts every size up to its limit.
DeviceInit ==
    /\ step = "server_data" /\ at = 0
    /\ opened = {} /\ ibdev = NULL /\ held = {} /\ inline = 0
    /\ \E limit \in Sizes \cup {0} : accepts = {n \in Sizes : n <= limit}

Obtain(r, next, n) ==
    /\ held' = held \cup {r} /\ step' = next /\ at' = n
    /\ UNCHANGED <<opened, ibdev, inline, accepts>>

\* init_server_data; when it fails, free_server_data and an error to the caller.
ServersAllocated == step = "server_data" /\ Obtain(One("servers"), "log", 0)
LogAllocated == step = "log" /\ Obtain(One("log"), "device_list", 0)

ServerDataFails ==
    /\ step \in {"server_data", "log"}
    /\ step' = "init_failed" /\ held' = held \ {One("servers"), One("log")}
    /\ UNCHANGED <<at, opened, ibdev, inline, accepts>>

Fail ==
    /\ step' = "shutdown"
    /\ UNCHANGED <<at, opened, ibdev, held, inline, accepts>>

\* dare_init_ib_device
GetDeviceList == step = "device_list" /\ NumDevs > 0 /\ Obtain(One("list"), "open", 1)
NoDevices == step = "device_list" /\ Fail

\* init_one_device: a device that cannot be opened, queried or has no active port
\* is closed again, and the next one is tried.
OpenDevice ==
    /\ step = "open" /\ at \in Devs
    /\ opened' = opened \cup {at} /\ step' = "probe"
    /\ UNCHANGED <<at, ibdev, held, inline, accepts>>

NextDevice ==
    /\ \/ step = "open" /\ at \in Devs /\ UNCHANGED opened
       \/ step = "probe" /\ opened' = opened \ {at}
    /\ step' = "open" /\ at' = at + 1
    /\ UNCHANGED <<ibdev, held, inline, accepts>>

DeviceFound ==
    /\ step = "probe"
    /\ ibdev' = at /\ held' = held \ {One("list")} /\ step' = "ep" /\ at' = 0
    /\ UNCHANGED <<opened, inline, accepts>>

NoDevice ==
    /\ step = "open" /\ at \notin Devs
    /\ held' = held \ {One("list")} /\ step' = "shutdown"
    /\ UNCHANGED <<at, opened, ibdev, inline, accepts>>

\* dare_init_ib_srv_data
EndpointAllocated == step = "ep" /\ at \in Endpoints /\ Obtain(Ep(at), "ep", at + 1)
EndpointFails == step = "ep" /\ at \in Endpoints /\ Fail

\* rc_init: the protection domain, find_max_inline, the memory region, and a
\* completion queue and a queue pair for each endpoint.
PdAllocated == step = "ep" /\ at \notin Endpoints /\ Obtain(One("pd"), "dummy_cq", 0)
DummyCqCreated == step = "dummy_cq" /\ Obtain(One("dummy_cq"), "inline", 2 ^ InlineTop)

TryInline ==
    /\ step = "inline" /\ at > 0
    /\ IF at \in accepts
       THEN inline' = at /\ held' = held \ {One("dummy_cq")} /\ step' = "mr" /\ at' = 0
       ELSE at' = at \div 2 /\ UNCHANGED <<inline, held, step>>
    /\ UNCHANGED <<opened, ibdev, accepts>>

NoInline ==
    /\ step = "inline" /\ at = 0
    /\ held' = held \ {One("dummy_cq")} /\ step' = "shutdown"
    /\ UNCHANGED <<at, opened, ibdev, inline, accepts>>

MrRegistered == step = "mr" /\ Obtain(One("mr"), "cq", 0)
CqCreated == step = "cq" /\ at \in Endpoints /\ Obtain(Cq(at), "qp", at)
QpCreated == step = "qp" /\ Obtain(Qp(at), "cq", at + 1)

RcFails ==
    /\ \/ step = "ep" /\ at \notin Endpoints
       \/ step \in {"dummy_cq", "mr", "qp"}
       \/ step = "cq" /\ at \in Endpoints
    /\ Fail

\* Mutant: the loop over the endpoints stops one early.
RunningEarly ==
    /\ step = "cq" /\ at + 1 \notin Endpoints
    /\ step' = "running" /\ UNCHANGED <<at, opened, ibdev, held, inline, accepts>>

Running ==
    /\ step = "cq" /\ at \notin Endpoints
    /\ step' = "running" /\ UNCHANGED <<at, opened, ibdev, held, inline, accepts>>

-----------------------------------------------------------------------------
(* dare_server_shutdown *)

\* rc_free dereferences IBDEV, and gives the queue pair of every endpoint to
\* ibv_destroy_qp, which dereferences it.
NullDereference == ibdev = NULL \/ \E i \in Endpoints : Ep(i) \in held /\ Qp(i) \notin held

ShutdownCrash ==
    /\ step = "shutdown" /\ NullDereference
    /\ step' = "crashed" /\ UNCHANGED <<at, opened, ibdev, held, inline, accepts>>

\* ibv_dealloc_pd is called before the memory region is deregistered and is
\* refused while there is one.
rc_free(r) == r \ ({Qp(i) : i \in Endpoints} \cup {Cq(i) : i \in Endpoints} \cup {One("mr")}
                   \cup IF One("mr") \in r THEN {} ELSE {One("pd")})
free_eps(r) == r \ {Ep(i) : i \in Endpoints}
free_server_data(r) == r \ {One("servers"), One("log")}

dare_server_shutdown ==
    /\ step = "shutdown" /\ ~NullDereference
    /\ held' = free_server_data(free_eps(rc_free(held)))
    /\ opened' = opened \ {ibdev} /\ ibdev' = NULL
    /\ step' = "exit"
    /\ UNCHANGED <<at, inline, accepts>>

DeviceNext ==
    \/ ServersAllocated \/ LogAllocated \/ ServerDataFails
    \/ GetDeviceList \/ NoDevices \/ OpenDevice \/ NextDevice \/ DeviceFound \/ NoDevice
    \/ EndpointAllocated \/ EndpointFails
    \/ PdAllocated \/ DummyCqCreated \/ TryInline \/ NoInline
    \/ MrRegistered \/ CqCreated \/ QpCreated \/ RcFails \/ Running
    \/ ShutdownCrash \/ dare_server_shutdown

DeviceSpec == DeviceInit /\ [][DeviceNext]_deviceVars

-----------------------------------------------------------------------------
(* Properties *)

\* However many devices were opened and given up before, a server that runs has one
\* open device and everything the send functions dereference: the log and its memory
\* region, and for each configured server an endpoint with its queues; and
\* rc_max_inline_data is the largest size the device takes inline, not one that
\* rc_send would be refused with.
RunsComplete ==
    step = "running" =>
        /\ opened = {ibdev} /\ ibdev \in Devs
        /\ held = Resource \ {One("list"), One("dummy_cq")}
        /\ inline \in accepts /\ \A n \in accepts : n <= inline
=============================================================================
