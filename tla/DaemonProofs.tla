---------------------------- MODULE DaemonProofs ----------------------------
(* Proofs about Daemon, for any processes, clients and bounds: a process    *)
(* is a proxy only if the system refused it a permission, and where ctrl_c  *)
(* at least can be caught a daemon ends only when it is told to.            *)
EXTENDS Daemon, TLAPS

Place == Over \cup {"off", "loading", "checking", "opening", "opened", "parked", "fallback", "binding", "listening"}
DaemonRecord ==
    [at : Place, uses : {"default", "custom", "invalid"}, catch : Facilities \cup {"off"},
     cancelled : BOOLEAN, denied : BOOLEAN, told : BOOLEAN, ups : 0..MaxUps]

\* The way to the listener starts with a denial and keeps it: only the next start forgets it.
DeniedOnTheWay(r) == r.at \in {"fallback", "binding", "listening"} => r.denied

\* The listener ends by its token, and only the signal task cancels that.
ToldBeforeTheEnd(r) == r.cancelled \/ r.at = "ended" => r.told

Files == {"absent", "torn", "default", "custom", "invalid", "broken"}
DaemonInv ==
    /\ daemon \in [Daemons -> DaemonRecord] /\ config \in Files
    /\ \A d \in Daemons : DeniedOnTheWay(daemon[d])

\* r may be the next record of process d.
Allowed(d, r) ==
    /\ r \in DaemonRecord /\ DeniedOnTheWay(r)
    /\ "none" \notin Facilities /\ ToldBeforeTheEnd(daemon[d]) => ToldBeforeTheEnd(r)
Becomes(d, r) == daemon' = [daemon EXCEPT ![d] = r]
Kept(d) == config' = config /\ \E r \in DaemonRecord : Allowed(d, r) /\ Becomes(d, r)

-----------------------------------------------------------------------------
(* What the steps make of the record of their process                      *)

\* Goes, to a place that is neither the end nor on the way to the listener, or that follows one.
LEMMA Going ==
  ASSUME NEW d \in Daemons, DaemonInv, NEW where \in Place, Goes(d, where), UNCHANGED config,
         where \in {"fallback", "binding", "listening"} => daemon[d].denied,
         where = "ended" /\ "none" \notin Facilities /\ ToldBeforeTheEnd(daemon[d]) => daemon[d].told
  PROVE Kept(d)
<1> DEFINE r == [daemon[d] EXCEPT !.at = where]
<1>1. daemon[d] \in DaemonRecord
  BY DEF DaemonInv
<1>2. r \in DaemonRecord
  BY <1>1 DEF DaemonRecord
<1>3. Allowed(d, r)
  BY <1>1, <1>2 DEF Allowed, DeniedOnTheWay, ToldBeforeTheEnd, DaemonRecord
<1>4. Becomes(d, r)
  BY DEF Goes, Becomes
<1>5. QED
  BY <1>2, <1>3, <1>4 DEF Kept

LEMMA Starting ==
  ASSUME NEW d \in Daemons, DaemonInv, Up(d)
  PROVE Kept(d)
<1>1. PICK invite \in ObtainInvite :
          Becomes(d, [NewDaemon EXCEPT !.at = ParseInvite(invite), !.ups = daemon[d].ups + 1])
  BY DEF Up, Becomes
<1> DEFINE r == [NewDaemon EXCEPT !.at = ParseInvite(invite), !.ups = daemon[d].ups + 1]
<1>2. daemon[d].ups + 1 \in 0..MaxUps
  BY BoundsAssumption DEF Up, DaemonInv, DaemonRecord
<1>3. ParseInvite(invite) \in {"loading", "failed"}
  BY DEF ParseInvite
<1>4. NewDaemon \in DaemonRecord /\ ~NewDaemon.cancelled
  BY BoundsAssumption DEF NewDaemon, DaemonRecord, Place
<1>5. r \in DaemonRecord
  BY <1>2, <1>3, <1>4 DEF DaemonRecord, Place, Over
<1>6. Allowed(d, r)
  BY <1>3, <1>4, <1>5 DEF Allowed, DeniedOnTheWay, ToldBeforeTheEnd, DaemonRecord
<1>7. QED
  BY <1>1, <1>5, <1>6 DEF Kept, Up

LEMMA Loading ==
  ASSUME NEW d \in Daemons, DaemonInv, LoadConfig(d)
  PROVE Kept(d)
<1>0. daemon[d] \in DaemonRecord /\ daemon[d].at = "loading"
  BY DEF DaemonInv, LoadConfig, At
<1>1. CASE config = "broken"
  <2>1. Goes(d, "failed")
    BY <1>1 DEF LoadConfig, Goes
  <2>2. QED
    BY <2>1, Going DEF LoadConfig, Place, Over
<1>2. CASE config # "broken"
  <2> DEFINE r == [daemon[d] EXCEPT !.at = "checking", !.uses = Resolved(config)]
  <2>1. Resolved(config) \in {"default", "custom", "invalid"}
    BY <1>2 DEF Resolved, DaemonInv, Files
  <2>2. r \in DaemonRecord
    BY <1>0, <2>1 DEF DaemonRecord, Place
  <2>3. Allowed(d, r)
    BY <1>0, <2>2 DEF Allowed, DeniedOnTheWay, ToldBeforeTheEnd, DaemonRecord
  <2>4. Becomes(d, r)
    BY <1>2 DEF LoadConfig, Becomes
  <2>5. QED
    BY <2>2, <2>3, <2>4 DEF Kept, LoadConfig
<1>3. QED
  BY <1>1, <1>2

\* A failed check or a refused device: the record is denied exactly if the fallback follows.
LEMMA Refusing ==
  ASSUME NEW d \in Daemons, DaemonInv, UNCHANGED config, NEW where \in {"fallback", "failed"},
         Becomes(d, [daemon[d] EXCEPT !.at = where, !.denied = (where = "fallback")])
  PROVE Kept(d)
<1> DEFINE r == [daemon[d] EXCEPT !.at = where, !.denied = (where = "fallback")]
<1>1. daemon[d] \in DaemonRecord
  BY DEF DaemonInv
<1>2. r \in DaemonRecord
  BY <1>1 DEF DaemonRecord, Place, Over
<1>3. Allowed(d, r)
  BY <1>1, <1>2 DEF Allowed, DeniedOnTheWay, ToldBeforeTheEnd, DaemonRecord
<1>4. QED
  BY <1>2, <1>3 DEF Kept

LEMMA Checking ==
  ASSUME NEW d \in Daemons, DaemonInv, CheckPrivilege(d)
  PROVE Kept(d)
<1>1. CASE Goes(d, "opening") \/ Goes(d, Branch("CapCheckFailed"))
  BY <1>1, Going DEF CheckPrivilege, Branch, Place, Over
<1>2. CASE Becomes(d, [daemon[d] EXCEPT !.at = Branch("NoPrivilege"), !.denied = TRUE])
  BY <1>2, Refusing DEF CheckPrivilege, Branch
<1>3. QED
  BY <1>1, <1>2 DEF CheckPrivilege, Becomes

LEMMA Opening ==
  ASSUME NEW d \in Daemons, DaemonInv, OpenDevice(d)
  PROVE Kept(d)
<1>1. CASE Goes(d, Branch("Ok"))
  BY <1>1, Going DEF OpenDevice, Branch, Place
<1>2. CASE \E error \in OpenErrors(d) :
              Becomes(d, [daemon[d] EXCEPT !.at = Branch(Classified(error)), !.denied = (error = "permission")])
  <2>1. PICK error \in OpenErrors(d) :
              Becomes(d, [daemon[d] EXCEPT !.at = Branch(Classified(error)), !.denied = (error = "permission")])
    BY <1>2
  <2>2. Branch(Classified(error)) = IF error = "permission" THEN "fallback" ELSE "failed"
    BY DEF Branch, Classified, IsPrivilegeDenied
  <2>3. QED
    BY <2>1, <2>2, Refusing DEF OpenDevice
<1>3. QED
  BY <1>1, <1>2 DEF OpenDevice, Becomes

LEMMA FallingBack ==
  ASSUME NEW d \in Daemons, DaemonInv, Fallback(d) \/ Bind(d)
  PROVE Kept(d)
<1>1. daemon[d].denied
  BY DEF DaemonInv, DeniedOnTheWay, Fallback, Bind, At
<1>2. CASE Fallback(d)
  BY <1>1, <1>2, Going DEF Fallback, ResolveBind, Place, Over
<1>3. CASE Bind(d)
  BY <1>1, <1>3, Going DEF Bind, Place, Over
<1>4. QED
  BY <1>2, <1>3

\* Unless no facility is left, the signal future is ready only after a signal.
LEMMA Ending ==
  ASSUME NEW d \in Daemons, DaemonInv, Unpark(d) \/ Listen(d)
  PROVE Kept(d)
<1>1. CASE Unpark(d)
  <2>1. "none" \notin Facilities => daemon[d].told
    BY <1>1 DEF Unpark, Resolves, DaemonInv, DaemonRecord
  <2>2. QED
    BY <1>1, <2>1, Going DEF Unpark, Ends, Place, Over
<1>2. CASE Listen(d)
  <2>1. ToldBeforeTheEnd(daemon[d]) => daemon[d].told
    BY <1>2 DEF Listen, Returns, ToldBeforeTheEnd
  <2>2. QED
    BY <1>2, <2>1, Going DEF Listen, Ends, Place, Over
<1>3. QED
  BY <1>1, <1>2

\* Accept changes no process.
LEMMA Accepting ==
  ASSUME NEW d \in Daemons, DaemonInv, Accept(d)
  PROVE Kept(d)
<1>1. daemon[d] \in DaemonRecord /\ UNCHANGED daemon /\ UNCHANGED config
  BY DEF Accept, AcceptFails, DaemonInv
<1>2. Becomes(d, daemon[d])
  BY <1>1 DEF Becomes, DaemonInv
<1>3. Allowed(d, daemon[d])
  BY <1>1 DEF Allowed, DaemonInv
<1>4. QED
  BY <1>1, <1>2, <1>3 DEF Kept

LEMMA Installing ==
  ASSUME NEW d \in Daemons, DaemonInv, Install(d)
  PROVE Kept(d)
<1>1. PICK f \in Facilities :
          Becomes(d, [daemon[d] EXCEPT !.catch = f, !.at = IF At(d, "opened") THEN "parked" ELSE daemon[d].at])
  BY DEF Install, Becomes
<1> DEFINE r == [daemon[d] EXCEPT !.catch = f, !.at = IF At(d, "opened") THEN "parked" ELSE daemon[d].at]
<1>2. daemon[d] \in DaemonRecord
  BY DEF DaemonInv
<1>3. r \in DaemonRecord
  BY <1>2 DEF DaemonRecord, Place
<1>4. Allowed(d, r)
  BY <1>2, <1>3 DEF Allowed, DeniedOnTheWay, At, ToldBeforeTheEnd, DaemonRecord, DaemonInv
<1>5. QED
  BY <1>1, <1>3, <1>4 DEF Kept, Install

LEMMA Cancelling ==
  ASSUME NEW d \in Daemons, DaemonInv, Cancel(d)
  PROVE Kept(d)
<1> DEFINE r == [daemon[d] EXCEPT !.cancelled = TRUE]
<1>1. daemon[d] \in DaemonRecord /\ ("none" \notin Facilities => daemon[d].told)
  BY DEF Cancel, Resolves, DaemonInv, DaemonRecord
<1>2. r \in DaemonRecord
  BY <1>1 DEF DaemonRecord
<1>3. Allowed(d, r)
  BY <1>1, <1>2 DEF Allowed, DeniedOnTheWay, ToldBeforeTheEnd, DaemonRecord, DaemonInv
<1>4. QED
  BY <1>2, <1>3 DEF Cancel, Becomes, Kept

LEMMA Signalling ==
  ASSUME NEW d \in Daemons, DaemonInv, Signal(d)
  PROVE Kept(d)
<1>1. daemon[d] \in DaemonRecord
  BY DEF DaemonInv
<1>2. CASE daemon' = [daemon EXCEPT ![d].told = TRUE]
  <2> DEFINE r == [daemon[d] EXCEPT !.told = TRUE]
  <2>1. r \in DaemonRecord
    BY <1>1 DEF DaemonRecord
  <2>2. Allowed(d, r)
    BY <1>1, <2>1 DEF Allowed, DeniedOnTheWay, ToldBeforeTheEnd, DaemonRecord, DaemonInv
  <2>3. QED
    BY <1>2, <2>1, <2>2 DEF Signal, Becomes, Kept
<1>3. CASE daemon' = [daemon EXCEPT ![d] = [@ EXCEPT !.told = TRUE, !.at = "killed"]]
  <2> DEFINE r == [daemon[d] EXCEPT !.told = TRUE, !.at = "killed"]
  <2>1. r \in DaemonRecord
    BY <1>1 DEF DaemonRecord, Place, Over
  <2>2. Allowed(d, r)
    BY <1>1, <2>1 DEF Allowed, DeniedOnTheWay, ToldBeforeTheEnd, DaemonRecord
  <2>3. QED
    BY <1>3, <2>1, <2>2 DEF Signal, Becomes, Kept
<1>4. QED
  BY <1>2, <1>3 DEF Signal

LEMMA ProcessSteps ==
  ASSUME NEW d \in Daemons, DaemonInv, Up(d) \/ Main(d) \/ Watcher(d) \/ Signal(d)
  PROVE Kept(d)
  BY Starting, Loading, Checking, Opening, FallingBack, Ending, Accepting, Installing, Cancelling,
     Signalling DEF Main, Watcher

\* init, the operator and the clients leave the processes alone.
LEMMA OtherSteps ==
  ASSUME DaemonInv,
         \/ \E i \in Inits : InitChecks(i) \/ InitWrites(i)
         \/ Edit
         \/ \E c \in Clients : Connect(c) \/ HangUp(c) \/ Drive(c) \/ ConnCancelled(c)
         \/ UNCHANGED vars
  PROVE daemon' = daemon /\ config' \in Files
  BY DEF InitChecks, InitWrites, Edit, Connect, HangUp, Drive, ConnCancelled, vars, DaemonInv, Files

-----------------------------------------------------------------------------
(* The invariants                                                          *)

LEMMA InvStarts == Init => DaemonInv /\ \A d \in Daemons : ToldBeforeTheEnd(daemon[d])
<1>1. NewDaemon \in DaemonRecord
  BY BoundsAssumption DEF NewDaemon, DaemonRecord, Place
<1>2. QED
  BY <1>1 DEF Init, DaemonInv, Files, NewDaemon, DeniedOnTheWay, ToldBeforeTheEnd

LEMMA InvStays == DaemonInv /\ [Next]_vars => DaemonInv'
<1> SUFFICES ASSUME DaemonInv, [Next]_vars PROVE DaemonInv'
  OBVIOUS
<1>1. ASSUME NEW d \in Daemons, Kept(d) PROVE DaemonInv'
  BY <1>1 DEF Kept, Allowed, Becomes, DaemonInv
<1>2. CASE \E d \in Daemons : Up(d) \/ Main(d) \/ Watcher(d) \/ Signal(d)
  BY <1>1, <1>2, ProcessSteps
<1>3. CASE daemon' = daemon /\ config' \in Files
  BY <1>3 DEF DaemonInv
<1>4. QED
  BY <1>2, <1>3, OtherSteps DEF Next

LEMMA ToldStays ==
  ASSUME DaemonInv, "none" \notin Facilities, \A d \in Daemons : ToldBeforeTheEnd(daemon[d]), [Next]_vars
  PROVE \A d \in Daemons : ToldBeforeTheEnd(daemon'[d])
<1>1. ASSUME NEW d \in Daemons, Kept(d) PROVE \A o \in Daemons : ToldBeforeTheEnd(daemon'[o])
  BY <1>1 DEF Kept, Allowed, Becomes, DaemonInv
<1>2. CASE \E d \in Daemons : Up(d) \/ Main(d) \/ Watcher(d) \/ Signal(d)
  BY <1>1, <1>2, ProcessSteps
<1>3. CASE daemon' = daemon
  BY <1>3
<1>4. QED
  BY <1>2, <1>3, OtherSteps DEF Next

\* tun_setup.rs: for any number of processes, only a refused permission makes one a proxy.
THEOREM ProxySafe == Spec => []ProxyOnlyUnprivileged
<1>1. DaemonInv => ProxyOnlyUnprivileged
  BY DEF DaemonInv, DeniedOnTheWay, ProxyOnlyUnprivileged, At
<1>2. QED
  BY <1>1, InvStarts, InvStays, PTL DEF Spec

\* signal.rs, socks5.rs: where the platform lets a process catch at least ctrl_c, a daemon that
\* has ended was told to.  Without that it is false, see EndsOnlyWhenTold in div_signal.cfg.
THEOREM EndsSafe == "none" \notin Facilities => (Spec => []EndsOnlyWhenTold)
<1> SUFFICES ASSUME "none" \notin Facilities PROVE Spec => []EndsOnlyWhenTold
  OBVIOUS
<1> DEFINE Told == \A d \in Daemons : ToldBeforeTheEnd(daemon[d])
<1>1. Init => DaemonInv /\ Told
  BY InvStarts
<1>2. DaemonInv /\ Told /\ [Next]_vars => (DaemonInv /\ Told)'
  BY InvStays, ToldStays
<1>3. Told => EndsOnlyWhenTold
  BY DEF EndsOnlyWhenTold, ToldBeforeTheEnd, At
<1> HIDE DEF Told
<1>4. QED
  BY <1>1, <1>2, <1>3, PTL DEF Spec

-----------------------------------------------------------------------------
(* Connections                                                             *)

ConnOf == [at : Served \cup {"idle", "waiting", "gone"}, with : Daemons \cup {Nobody}]

\* A client is connected to a daemon that listens, or to none.
Connected(c) == IF conn[c].at = "idle" THEN conn[c].with = Nobody
                ELSE conn[c].with \in Daemons /\ At(conn[c].with, "listening")
ConnInv ==
    /\ DaemonInv
    /\ init \in [Inits -> {"off", "creating", "filling", "done", "refused"}]
    /\ conn \in [Clients -> ConnOf] /\ \A c \in Clients : Connected(c)

\* A process that is no listener before the step, or still one after it, leaves its clients theirs.
LEMMA StillConnected ==
  ASSUME ConnInv, NEW d \in Daemons, Kept(d), UNCHANGED <<init, conn>>,
         At(d, "listening") => At(d, "listening")'
  PROVE  ConnInv'
<1>1. DaemonInv' /\ \A o \in Daemons : o # d => daemon'[o] = daemon[o]
  BY DEF ConnInv, Kept, Allowed, Becomes, DaemonInv
<1>2. \A c \in Clients : Connected(c)'
  BY <1>1 DEF ConnInv, Connected, At
<1> QED BY <1>1, <1>2 DEF ConnInv

\* A process that ends takes its connections along.
LEMMA Disconnected ==
  ASSUME ConnInv, NEW d \in Daemons, Kept(d), UNCHANGED init,
         conn' = [c \in Clients |-> IF conn[c].with = d THEN Free ELSE conn[c]]
  PROVE  ConnInv'
<1>1. DaemonInv' /\ \A o \in Daemons : o # d => daemon'[o] = daemon[o]
  BY DEF ConnInv, Kept, Allowed, Becomes, DaemonInv
<1>2. Free \in ConnOf /\ Free.at = "idle" /\ Free.with = Nobody
  BY DEF Free, ConnOf
<1>3. conn' \in [Clients -> ConnOf]
  BY <1>2 DEF ConnInv
<1>4. ASSUME NEW c \in Clients PROVE Connected(c)'
  <2>1. CASE conn[c].with = d
    BY <1>2, <2>1 DEF Connected
  <2>2. CASE conn[c].with # d
    BY <1>1, <2>2 DEF ConnInv, Connected, At
  <2> QED BY <2>1, <2>2
<1> QED BY <1>1, <1>3, <1>4 DEF ConnInv

LEMMA ProcessConns ==
  ASSUME ConnInv, NEW d \in Daemons, Up(d) \/ Main(d) \/ Watcher(d) \/ Signal(d)
  PROVE  ConnInv'
<1>1. Kept(d)
  BY ProcessSteps DEF ConnInv
<1>2. daemon[d] \in DaemonRecord /\ daemon \in [Daemons -> DaemonRecord]
  BY DEF ConnInv, DaemonInv
<1>3. CASE Up(d) \/ LoadConfig(d) \/ CheckPrivilege(d) \/ OpenDevice(d) \/ Fallback(d) \/ Bind(d)
  <2>1. ~At(d, "listening") /\ UNCHANGED <<init, conn>>
    BY <1>3 DEF Up, Live, LoadConfig, CheckPrivilege, OpenDevice, Fallback, Bind, At, Over
  <2> QED BY <1>1, <2>1, StillConnected
<1>4. CASE Install(d) \/ Cancel(d)
  <2>1. UNCHANGED <<init, conn>> /\ daemon'[d].at \in {daemon[d].at, "parked"}
        /\ (daemon'[d].at = "parked" => daemon[d].at \in {"opened", "parked"})
    <3>1. CASE Install(d)
      <4>1. PICK f \in Facilities : daemon' = [daemon EXCEPT ![d] =
                  [@ EXCEPT !.catch = f, !.at = IF At(d, "opened") THEN "parked" ELSE daemon[d].at]]
        BY <3>1 DEF Install
      <4>2. daemon'[d].at = IF At(d, "opened") THEN "parked" ELSE daemon[d].at
        BY <1>2, <4>1 DEF DaemonRecord
      <4> QED BY <3>1, <4>2 DEF Install, At
    <3>2. CASE Cancel(d)
      BY <1>2, <3>2 DEF Cancel, DaemonRecord
    <3> QED BY <1>4, <3>1, <3>2
  <2> QED BY <1>1, <2>1, StillConnected DEF At
<1>5. CASE Unpark(d) \/ Listen(d)
  BY <1>1, <1>5, Disconnected DEF Unpark, Listen, Ends
<1>6. CASE Signal(d)
  <2>1. UNCHANGED init
    BY <1>6 DEF Signal
  <2>2. CASE daemon' = [daemon EXCEPT ![d].told = TRUE] /\ UNCHANGED conn
    <3>1. daemon'[d].at = daemon[d].at
      BY <1>2, <2>2 DEF DaemonRecord
    <3> QED BY <1>1, <2>1, <2>2, <3>1, StillConnected DEF At
  <2>3. CASE conn' = [c \in Clients |-> IF conn[c].with = d THEN Free ELSE conn[c]]
    BY <1>1, <2>1, <2>3, Disconnected
  <2> QED BY <1>6, <2>2, <2>3 DEF Signal
<1>7. CASE Accept(d)
  <2>1. DaemonInv' /\ UNCHANGED <<daemon, init>> /\ At(d, "listening")
    BY <1>7 DEF Accept, AcceptFails, ConnInv, DaemonInv
  <2>2. PICK c \in Waiting(d) : \/ conn' = [conn EXCEPT ![c] = Free]
                                \/ conn' = [conn EXCEPT ![c].at = "greeting"]
                                \/ UNCHANGED conn
    BY <1>7 DEF Accept, AcceptFails
  <2>3. c \in Clients /\ conn[c] \in ConnOf /\ conn[c].with = d /\ conn \in [Clients -> ConnOf]
    BY DEF Waiting, ConnInv
  <2>4. Free \in ConnOf /\ Free.at = "idle" /\ Free.with = Nobody
    BY DEF Free, ConnOf
  <2>5. [conn[c] EXCEPT !.at = "greeting"] \in ConnOf
    BY <2>3 DEF ConnOf, Served
  <2>6. /\ conn' \in [Clients -> ConnOf] /\ \A b \in Clients : b # c => conn'[b] = conn[b]
        /\ conn'[c] = Free \/ (conn'[c].at = "greeting" /\ conn'[c].with = d) \/ conn'[c] = conn[c]
    BY <2>2, <2>3, <2>4, <2>5 DEF ConnOf
  <2>7. \A b \in Clients : Connected(b)'
    BY <2>1, <2>3, <2>4, <2>6 DEF ConnInv, Connected, At
  <2> QED BY <2>1, <2>6, <2>7 DEF ConnInv
<1> QED BY <1>3, <1>4, <1>5, <1>6, <1>7 DEF Main, Watcher

LEMMA ClientConns ==
  ASSUME ConnInv, NEW c \in Clients, Connect(c) \/ HangUp(c) \/ Drive(c) \/ ConnCancelled(c)
  PROVE  ConnInv'
<1>1. DaemonInv' /\ UNCHANGED <<daemon, init>>
  BY OtherSteps DEF Connect, HangUp, Drive, ConnCancelled, ConnInv, DaemonInv
<1>2. conn \in [Clients -> ConnOf] /\ conn[c] \in ConnOf /\ Connected(c)
  BY DEF ConnInv
<1>3. Free \in ConnOf /\ Free.at = "idle" /\ Free.with = Nobody
  BY DEF Free, ConnOf
<1>4. CASE conn' = [conn EXCEPT ![c] = Free]
  BY <1>1, <1>2, <1>3, <1>4 DEF ConnInv, Connected, At
<1>5. ASSUME NEW where \in Served \cup {"gone"}, conn[c].at # "idle", conn' = [conn EXCEPT ![c].at = where]
      PROVE  ConnInv'
  <2>1. [conn[c] EXCEPT !.at = where] \in ConnOf /\ where # "idle"
    BY <1>2 DEF ConnOf, Served
  <2>2. conn' \in [Clients -> ConnOf] /\ conn'[c].at = where /\ conn'[c].with = conn[c].with
        /\ \A b \in Clients : b # c => conn'[b] = conn[b]
    BY <1>2, <1>5, <2>1 DEF ConnOf
  <2>3. \A b \in Clients : Connected(b)'
    BY <1>1, <1>2, <1>5, <2>1, <2>2 DEF ConnInv, Connected, At
  <2> QED BY <1>1, <2>2, <2>3 DEF ConnInv
<1>6. CASE Connect(c)
  <2>1. PICK d \in Daemons : At(d, "listening") /\ conn' = [conn EXCEPT ![c] = [at |-> "waiting", with |-> d]]
    BY <1>6 DEF Connect
  <2>2. [at |-> "waiting", with |-> d] \in ConnOf
    BY DEF ConnOf
  <2> QED BY <1>1, <1>2, <2>1, <2>2 DEF ConnInv, Connected, At
<1>7. CASE HangUp(c) \/ Drive(c) \/ ConnCancelled(c)
  BY <1>4, <1>5, <1>7 DEF HangUp, Drive, ConnCancelled, Served
<1> QED BY <1>6, <1>7

LEMMA ConnStays == ConnInv /\ [Next]_vars => ConnInv'
<1> SUFFICES ASSUME ConnInv, [Next]_vars PROVE ConnInv'
  OBVIOUS
<1>1. CASE (\E i \in Inits : InitChecks(i) \/ InitWrites(i)) \/ Edit \/ UNCHANGED vars
  <2>1. DaemonInv' /\ UNCHANGED <<daemon, conn>>
    BY <1>1, InvStays DEF ConnInv, InitChecks, InitWrites, Edit, vars
  <2>2. init' \in [Inits -> {"off", "creating", "filling", "done", "refused"}]
    BY <1>1 DEF ConnInv, InitChecks, InitWrites, Edit, vars
  <2> QED BY <2>1, <2>2 DEF ConnInv, Connected, At
<1>2. CASE \E d \in Daemons : Up(d) \/ Main(d) \/ Watcher(d) \/ Signal(d)
  BY <1>2, ProcessConns
<1>3. CASE \E c \in Clients : Connect(c) \/ HangUp(c) \/ Drive(c) \/ ConnCancelled(c)
  BY <1>3, ClientConns
<1> QED BY <1>1, <1>2, <1>3 DEF Next

\* Every reachable state is well typed, and no connection outlives the listener that took it.
THEOREM TypeCorrect == Spec => []TypeOK
<1>1. Init => ConnInv
  BY InvStarts DEF Init, ConnInv, ConnOf, Connected, Free
<1>2. ConnInv => TypeOK
  BY DEF ConnInv, DaemonInv, Files, DaemonRecord, Place, ConnOf, Connected, TypeOK
<1> QED BY <1>1, <1>2, ConnStays, PTL DEF Spec
=============================================================================
