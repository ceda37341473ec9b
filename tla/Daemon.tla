------------------------------- MODULE Daemon -------------------------------
(***************************************************************************)
(* The client's command line: `bibeam up` from its configuration to the    *)
(* tunnel device or the SOCKS5 fallback, its end by a signal, and          *)
(* `bibeam init` on the same configuration file.  down is a stub, and      *)
(* status, config and version only print.  On Unix; --foreground changes   *)
(* nothing yet.                                                            *)
(***************************************************************************)
EXTENDS Naturals, FiniteSets

CONSTANTS
    Daemons,     \* processes running `bibeam up`
    Inits,       \* processes running `bibeam init`
    Clients,     \* applications that connect to the SOCKS5 listener
    Facilities,  \* what the platform may allow a process to catch: "both" signals, only "int", or "none"
    Nobody,      \* the daemon of a client that is not connected
    MaxUps       \* bound on the starts of a daemon

ASSUME FacilitiesAssumption == Facilities \subseteq {"both", "int", "none"} /\ Facilities # {}
ASSUME BoundsAssumption == MaxUps \in Nat
ASSUME NobodyAssumption == Nobody \notin Daemons

VARIABLES
    config,   \* what config.toml holds
    init,     \* per init process, where it is
    daemon,   \* per up process: .at, the settings it .uses, what its shutdown signal can .catch, and
              \* .cancelled; history: .denied, the system refused it a permission, .told, it was sent a
              \* signal, and .ups, its starts
    conn      \* per client, its connection and the daemon it is .with

vars == <<config, init, daemon, conn>>

Over == {"ended", "failed", "killed"}
Live(d) == daemon[d].at \notin Over \cup {"off"}
At(d, where) == daemon[d].at = where
Goes(d, where) == daemon' = [daemon EXCEPT ![d].at = where]

NewDaemon == [at |-> "off", uses |-> "default", catch |-> "off", cancelled |-> FALSE,
              denied |-> FALSE, told |-> FALSE, ups |-> 0]
Free == [at |-> "idle", with |-> Nobody]
Served == {"greeting", "dialing", "proxying"}

\* The end of a process, with its device, its port and all its tasks.
Ends(d, how) ==
    /\ Goes(d, how)
    /\ conn' = [c \in Clients |-> IF conn[c].with = d THEN Free ELSE conn[c]]

-----------------------------------------------------------------------------
(* The configuration.  XMutant is a deliberately wrong X for the mutation  *)
(* runs; nothing else uses it.                                             *)

\* write_default_config looks whether the file exists, and then writes it: truncates, fills.
InitChecks(i) ==
    /\ init[i] = "off"
    /\ init' = [init EXCEPT ![i] = IF config = "absent" THEN "creating" ELSE "refused"]
    /\ UNCHANGED <<config, daemon, conn>>

InitWrites(i) ==
    /\ \/ init[i] = "creating" /\ init' = [init EXCEPT ![i] = "filling"] /\ config' = "torn"
       \/ init[i] = "filling" /\ init' = [init EXCEPT ![i] = "done"] /\ config' = "default"
    /\ UNCHANGED <<daemon, conn>>

\* The operator writes the file: settings of his own, an invalid bind address, no TOML at all.
Edit ==
    /\ config' \in {"custom", "invalid", "broken"} \ {config}
    /\ UNCHANGED <<init, daemon, conn>>

\* figment takes a missing file for an empty one, and every line of the default is a comment.
Resolved(file) == IF file \in {"absent", "torn"} THEN "default" ELSE file

-----------------------------------------------------------------------------
(* bibeam up                                                               *)

\* The invite: the operator's argument, or a line of stdin; at the end of a closed stdin it is
\* the empty line, and no error.
ObtainInvite == {"signed", "garbled", "empty", "unreadable"}
ParseInvite(invite) == IF invite = "signed" THEN "loading" ELSE "failed"

\* main and dispatch.
Up(d) ==
    /\ ~Live(d) /\ daemon[d].ups < MaxUps
    /\ \E invite \in ObtainInvite :
        daemon' = [daemon EXCEPT ![d] = [NewDaemon EXCEPT !.at = ParseInvite(invite), !.ups = daemon[d].ups + 1]]
    /\ UNCHANGED <<config, init, conn>>

LoadConfig(d) ==
    /\ At(d, "loading")
    /\ daemon' = [daemon EXCEPT ![d] = IF config = "broken" THEN [@ EXCEPT !.at = "failed"]
                                       ELSE [@ EXCEPT !.at = "checking", !.uses = Resolved(config)]]
    /\ UNCHANGED <<config, init, conn>>

\* run_up_data_plane: only a refused privilege leads to the fallback.
Branch(outcome) ==
    CASE outcome = "Ok" -> "opened" [] outcome = "NoPrivilege" -> "fallback" [] OTHER -> "failed"

\* check_linux_privilege: the process has CAP_NET_ADMIN or lacks it, or the check itself fails.
CheckPrivilege(d) ==
    /\ At(d, "checking")
    /\ \/ Goes(d, "opening")
       \/ daemon' = [daemon EXCEPT ![d] = [@ EXCEPT !.at = Branch("NoPrivilege"), !.denied = TRUE]]
       \/ Goes(d, Branch("CapCheckFailed"))
    /\ UNCHANGED <<config, init, conn>>

Interface(d) == IF daemon[d].uses = "custom" THEN "custom" ELSE "default"
Holding == {d \in Daemons : daemon[d].at \in {"opened", "parked"}}

\* TunDevice::new: an interface has one holder.
OpenErrors(d) ==
    {"permission", "driver"} \cup (IF \E o \in Holding : Interface(o) = Interface(d) THEN {"busy"} ELSE {})

IsPrivilegeDeniedMutant(error) == error # "driver"
IsPrivilegeDenied(error) == error = "permission"

Classified(error) == IF IsPrivilegeDenied(error) THEN "NoPrivilege" ELSE "OpenFailed"

OpenDevice(d) ==
    /\ At(d, "opening")
    /\ \/ "busy" \notin OpenErrors(d) /\ Goes(d, Branch("Ok"))
       \/ \E error \in OpenErrors(d) :
            daemon' = [daemon EXCEPT ![d] = [@ EXCEPT !.at = Branch(Classified(error)),
                                                      !.denied = (error = "permission")]]
    /\ UNCHANGED <<config, init, conn>>

ResolveBind(d) == IF daemon[d].uses = "invalid" THEN "failed" ELSE "binding"

\* run_socks5_until_shutdown: resolve_bind, then the signal task is spawned.
Fallback(d) ==
    /\ At(d, "fallback")
    /\ Goes(d, ResolveBind(d))
    /\ UNCHANGED <<config, init, conn>>

Bind(d) ==
    /\ At(d, "binding")
    /\ Goes(d, IF \E o \in Daemons : At(o, "listening") /\ daemon[o].uses = daemon[d].uses
               THEN "failed" ELSE "listening")
    /\ UNCHANGED <<config, init, conn>>

-----------------------------------------------------------------------------
(* shutdown_signal                                                         *)

\* The handlers are installed at the first poll: at once when the tunnel is parked, by the
\* spawned task some time later when the fallback runs.
Install(d) ==
    /\ daemon[d].at \in {"opened", "binding", "listening"} /\ daemon[d].catch = "off"
    /\ \E f \in Facilities :
        daemon' = [daemon EXCEPT ![d] = [@ EXCEPT !.catch = f, !.at = IF At(d, "opened") THEN "parked" ELSE daemon[d].at]]
    /\ UNCHANGED <<config, init, conn>>

Catches(d, signal) == daemon[d].catch = "both" \/ daemon[d].catch = signal

\* SIGINT or SIGTERM: caught, or the system ends the process.
Signal(d) ==
    /\ Live(d)
    /\ \E signal \in {"int", "term"} :
        IF Catches(d, signal)
        THEN daemon' = [daemon EXCEPT ![d].told = TRUE] /\ UNCHANGED conn
        ELSE /\ daemon' = [daemon EXCEPT ![d] = [@ EXCEPT !.told = TRUE, !.at = "killed"]]
             /\ conn' = [c \in Clients |-> IF conn[c].with = d THEN Free ELSE conn[c]]
    /\ UNCHANGED <<config, init>>

\* The future is ready: a signal was caught, or not even ctrl_c can be installed.
Resolves(d) == daemon[d].catch = "none" \/ (daemon[d].catch \in {"both", "int"} /\ daemon[d].told)

Unpark(d) == At(d, "parked") /\ Resolves(d) /\ Ends(d, "ended") /\ UNCHANGED <<config, init>>

Cancel(d) ==
    /\ daemon[d].at \in {"binding", "listening"} /\ Resolves(d) /\ ~daemon[d].cancelled
    /\ daemon' = [daemon EXCEPT ![d].cancelled = TRUE]
    /\ UNCHANGED <<config, init, conn>>

-----------------------------------------------------------------------------
(* run_socks5_listener and its connections                                 *)

Waiting(d) == {c \in Clients : conn[c].with = d /\ conn[c].at \in {"waiting", "gone"}}

\* The cancel arm of the biased select.
ReturnsMutant(d) == daemon[d].cancelled /\ Waiting(d) = {}
Returns(d) == daemon[d].cancelled

Listen(d) == At(d, "listening") /\ Returns(d) /\ Ends(d, "ended") /\ UNCHANGED <<config, init>>

AcceptFailsMutant(d) == Ends(d, "ended")
\* An error of accept is logged, and the loop goes on.
AcceptFails(d) == UNCHANGED <<daemon, conn>>

\* handle_accept: a connection that was aborted is an error, and any other one can be when the
\* process is out of descriptors; that one stays in the backlog.
Accept(d) ==
    /\ At(d, "listening") /\ ~Returns(d)
    /\ \E c \in Waiting(d) :
        \/ conn[c].at = "gone" /\ conn' = [conn EXCEPT ![c] = Free] /\ UNCHANGED daemon
        \/ conn[c].at = "waiting" /\ conn' = [conn EXCEPT ![c].at = "greeting"] /\ UNCHANGED daemon
        \/ conn[c].at = "waiting" /\ AcceptFails(d)
    /\ UNCHANGED <<config, init>>

Connect(c) ==
    /\ conn[c].at = "idle"
    /\ \E d \in Daemons : At(d, "listening") /\ conn' = [conn EXCEPT ![c] = [at |-> "waiting", with |-> d]]
    /\ UNCHANGED <<config, init, daemon>>

\* A client in the backlog, or one that is served, hangs up.
HangUp(c) ==
    /\ \/ conn[c].at = "waiting" /\ conn' = [conn EXCEPT ![c].at = "gone"]
       \/ conn[c].at \in Served /\ conn' = [conn EXCEPT ![c] = Free]
    /\ UNCHANGED <<config, init, daemon>>

\* drive_connection: a greeting and a command, however late; a CONNECT dials its target within
\* REQUEST_TIMEOUT and proxies, any other command gets its error.
Drive(c) ==
    /\ \/ conn[c].at = "greeting" /\ conn' \in {[conn EXCEPT ![c].at = "dialing"], [conn EXCEPT ![c] = Free]}
       \/ conn[c].at = "dialing" /\ conn' \in {[conn EXCEPT ![c].at = "proxying"], [conn EXCEPT ![c] = Free]}
    /\ UNCHANGED <<config, init, daemon>>

\* The child token of a connection task.
ConnCancelled(c) ==
    /\ conn[c].at \in Served /\ daemon[conn[c].with].cancelled
    /\ conn' = [conn EXCEPT ![c] = Free]
    /\ UNCHANGED <<config, init, daemon>>

-----------------------------------------------------------------------------

Init ==
    /\ config = "absent" /\ init = [i \in Inits |-> "off"]
    /\ daemon = [d \in Daemons |-> NewDaemon] /\ conn = [c \in Clients |-> Free]

Main(d) ==
    \/ LoadConfig(d) \/ CheckPrivilege(d) \/ OpenDevice(d) \/ Fallback(d) \/ Bind(d)
    \/ Unpark(d) \/ Listen(d) \/ Accept(d)
Watcher(d) == Install(d) \/ Cancel(d)

Next ==
    \/ \E i \in Inits : InitChecks(i) \/ InitWrites(i)
    \/ Edit
    \/ \E d \in Daemons : Up(d) \/ Main(d) \/ Watcher(d) \/ Signal(d)
    \/ \E c \in Clients : Connect(c) \/ HangUp(c) \/ Drive(c) \/ ConnCancelled(c)

\* Tokio polls the main task and the signal task whenever they are ready; nothing is assumed
\* of signals, clients and operators.
Spec == Init /\ [][Next]_vars /\ \A d \in Daemons : WF_vars(Main(d)) /\ WF_vars(Watcher(d))

-----------------------------------------------------------------------------
(* Properties                                                              *)

\* Type invariant; a client is with a daemon only as long as that one listens.
TypeOK ==
    /\ config \in {"absent", "torn", "default", "custom", "invalid", "broken"}
    /\ init \in [Inits -> {"off", "creating", "filling", "done", "refused"}]
    /\ daemon \in [Daemons ->
         [at : Over \cup {"off", "loading", "checking", "opening", "opened", "parked", "fallback", "binding", "listening"},
          uses : {"default", "custom", "invalid"}, catch : Facilities \cup {"off"},
          cancelled : BOOLEAN, denied : BOOLEAN, told : BOOLEAN, ups : 0..MaxUps]]
    /\ conn \in [Clients -> [at : Served \cup {"idle", "waiting", "gone"}, with : Daemons \cup {Nobody}]]
    /\ \A c \in Clients : IF conn[c].at = "idle" THEN conn[c].with = Nobody
                          ELSE conn[c].with \in Daemons /\ At(conn[c].with, "listening")

\* tun_setup.rs, "the caller should bail out rather than fall back": a process serves SOCKS5
\* only if the system refused it the privilege, not when the device is another daemon's.
ProxyOnlyUnprivileged == \A d \in Daemons : At(d, "listening") => daemon[d].denied

\* signal.rs and socks5.rs: a daemon that is up comes to its end only when it is told to, not
\* by a failed accept, whatever its clients do.
EndsOnlyWhenTold == \A d \in Daemons : At(d, "ended") => daemon[d].told

\* cli.rs, "the daemon exits cleanly on SIGINT / SIGTERM": also while clients keep connecting,
\* and with connections that nobody ends.
SignalEnds == \A d \in Daemons : daemon[d].told ~> (daemon[d].at \in Over)

\* config.rs, "init is non-destructive": only the operator changes settings of his own.
SettingsKept == [][\A i \in Inits : init'[i] # init[i] /\ config' # config => config \in {"absent", "torn"}]_vars
=============================================================================
