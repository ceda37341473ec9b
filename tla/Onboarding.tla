----------------------------- MODULE Onboarding -----------------------------
(***************************************************************************)
(* How a client gets its session: its public address by STUN, then         *)
(* SessionBootstrap over the shared coordinator pool, the choice of an     *)
(* exit and the hole-punch.  Nodes register and send heartbeats through    *)
(* the same pool.  The coordinator's side of a request is not in the       *)
(* repository: it is what bootstrap.rs says of it, and it keeps its        *)
(* registrations.                                                          *)
(***************************************************************************)
EXTENDS CoordinatorPool, FiniteSets

CONSTANTS
    Clients, Nodes,  \* the callers of the pool
    Exits,           \* exit nodes a match response may name
    MaxTries         \* bound on the STUN attempts of a client

ASSUME PeersAssumption == Callers = Clients \cup Nodes /\ Clients \cap Nodes = {} /\ Sockets = {}
ASSUME TriesAssumption == MaxTries \in Nat \ {0}

VARIABLES
    nat,     \* per client: .addr, what its NAT maps its socket to, and .asked, what that was when
             \* the STUN attempt under way was sent
    inbox,   \* per client, the datagrams on their way to its socket
    client,  \* per client, where it is and what it has learned
    node,    \* per node, where it is
    known,   \* per coordinator, the callers it holds a registration of
    punch    \* per client, the hole-punch with its exit

onboardVars == <<poolVars, nat, inbox, client, node, known, punch>>

NoToken == [by |-> 0, sub |-> "none", sealed |-> "garbled"]
Token == [by : Coordinators, sub : Callers, sealed : {"trusted", "foreign", "garbled"}]
NoCohort == [exits |-> {}, tagged |-> {}]
NewClient == [pc |-> "new", tries |-> 0, hint |-> 0, token |-> NoToken, cohort |-> NoCohort]
NewPunch == [sent |-> {}, flying |-> {}, heard |-> {}, lost |-> FALSE]

InBootstrap == {"registering", "acked", "matching"}
Places == InBootstrap \cup {"new", "asking", "hinted", "matched", "picked", "failed"}
At(c, pc) == client[c].pc = pc
Goes(c, pc) == client' = [client EXCEPT ![c].pc = pc]
Fails(c) == client' = [client EXCEPT ![c] = [@ EXCEPT !.pc = "failed", !.token = NoToken, !.cohort = NoCohort]]

-----------------------------------------------------------------------------
(* discover_public_address.  XMutant is a deliberately wrong X for the     *)
(* mutation runs; nothing else uses it.                                    *)

\* send_to: the server's answer carries what the NAT made of the request, unless one is lost.
StunRequest(c) ==
    /\ At(c, "new") /\ client[c].tries < MaxTries
    /\ client' = [client EXCEPT ![c].pc = "asking", ![c].tries = @ + 1]
    /\ nat' = [nat EXCEPT ![c].asked = nat[c].addr]
    /\ inbox' \in {inbox, [inbox EXCEPT ![c] = @ \cup {[txn |-> client[c].tries + 1, addr |-> nat[c].addr]}]}
    /\ UNCHANGED <<poolVars, node, known, punch>>

TxnMatchesMutant(c, d) == d.txn # 0
TxnMatches(c, d) == d.txn = client[c].tries

\* One recv_from: whatever comes first is parsed, and an answer to another request, or a
\* datagram that is no answer (transaction 0), is an error.
StunAnswer(c) ==
    /\ At(c, "asking")
    /\ \E d \in inbox[c] \cup {[txn |-> 0, addr |-> 0]} :
        IF TxnMatches(c, d)
        THEN /\ client' = [client EXCEPT ![c] = [@ EXCEPT !.pc = "hinted", !.hint = d.addr, !.tries = 0]]
             /\ inbox' = [inbox EXCEPT ![c] = {}]  \* what is left comes to no attempt
        ELSE Goes(c, "new") /\ inbox' = [inbox EXCEPT ![c] = @ \ {d}]
    /\ UNCHANGED <<poolVars, nat, node, known, punch>>

StunTimeout(c) ==
    /\ At(c, "asking") /\ Goes(c, "new")
    /\ UNCHANGED <<poolVars, nat, inbox, node, known, punch>>

\* The NAT gives the socket another address, while that is still looked for.
Remap(c) ==
    /\ client[c].pc \in {"new", "asking"}
    /\ nat[c].addr = 0 /\ nat' = [nat EXCEPT ![c].addr = 1]
    /\ UNCHANGED <<poolVars, inbox, client, node, known, punch>>

-----------------------------------------------------------------------------
(* SessionBootstrap::bootstrap                                             *)

SignedInvite == [issuer : {"trusted", "other"}, signature : {"valid", "wrong", "wrong length"},
                 expires : {"never", "later", "passed"}]
\* verify_invite: issuer, length and value of the signature, then expiry.
VerifyInvite(i) == i.issuer = "trusted" /\ i.signature = "valid" /\ i.expires # "passed"

Bootstrap(c) ==
    /\ At(c, "hinted")
    /\ \E i \in SignedInvite :
        IF VerifyInvite(i) THEN StartCall(c) /\ Goes(c, "registering")
        ELSE Fails(c) /\ UNCHANGED poolVars
    /\ UNCHANGED <<nat, inbox, node, known, punch>>

\* The registration handler of coordinator i: it keeps the registration and answers with a token.
Registers(c, i) == known' = [known EXCEPT ![i] = @ \cup {c}]

\* One request of the sweep.  A coordinator that does not answer may have registered the peer.
RegisterAttempt(c) ==
    /\ Attempt(c)
    /\ CASE call'[c].pc = "ok" -> Registers(c, Index(c))
         [] call'[c].pc \in {"trying", "exhausted"} -> Registers(c, Index(c)) \/ UNCHANGED known
         [] OTHER -> UNCHANGED known

Register(c) ==
    /\ At(c, "registering") /\ RegisterAttempt(c)
    /\ IF call'[c].pc = "ok"
       THEN \E t \in {x \in Token : x.by = Index(c)} :
                client' = [client EXCEPT ![c].pc = "acked", ![c].token = t]
       ELSE UNCHANGED client
    /\ UNCHANGED <<nat, inbox, node, punch>>

TokenAcceptedMutant(c) == client[c].token.sealed = "trusted"
\* parse_session_token, PasetoVerifier::verify and the check of the subject.
TokenAccepted(c) == client[c].token.sealed = "trusted" /\ client[c].token.sub = c

CheckAck(c) ==
    /\ \/ At(c, "acked") /\ Return(c, "ok")
          /\ IF TokenAccepted(c) THEN Goes(c, "matching") ELSE Fails(c)
       \/ At(c, "registering") /\ (Return(c, "refused") \/ Return(c, "exhausted")) /\ Fails(c)
    /\ UNCHANGED <<nat, inbox, node, known, punch>>

ChosenClientMutant(c) == StartAt
\* match_ goes to the client that answered register, without failover.
ChosenClient(c) == client[c].token.by

\* The match handler of coordinator i: it takes a token it has issued.
MatchAnswers(c, i) == {outcome \in HttpOutcomes(state[i]) : outcome = "ok" => c \in known[i]}

\* build_response, which is single-hop only: tagged are the exits that lookup knows a region of.
BuildResponse(exits, lookup) == [exits |-> exits, tagged |-> exits \cap lookup]
SingleHopMatch == {BuildResponse(exits, lookup) : exits, lookup \in SUBSET Exits}

\* What a body can hold; hops is the length of an assignment's forwarder_chain.
MatchResponse == [kind : {"SingleHop"}, cohort : SingleHopMatch]
                    \cup [kind : {"MultiHopAssignment"}, hops : 0..2]
EmptyChain(response) == response.kind = "MultiHopAssignment" /\ response.hops = 0

\* A multi-hop assignment is an error here, one that decodes as well as one that does not; a
\* single hop becomes the CohortLive.
Matched(c) ==
    \E response \in MatchResponse :
        IF EmptyChain(response) \/ response.kind # "SingleHop" THEN Fails(c)
        ELSE client' = [client EXCEPT ![c].pc = "matched", ![c].cohort = response.cohort]

MatchMutant(c) ==
    /\ At(c, "matching")
    /\ \E outcome \in MatchAnswers(c, ChosenClient(c)) :
        \/ outcome = "ok" /\ Matched(c) /\ UNCHANGED poolVars
        \/ outcome # "ok" /\ StartCall(c) /\ Goes(c, "registering")
    /\ UNCHANGED <<nat, inbox, node, known, punch>>
Match(c) ==
    /\ At(c, "matching")
    /\ \E outcome \in MatchAnswers(c, ChosenClient(c)) :
        IF outcome = "ok" THEN Matched(c) ELSE Fails(c)
    /\ UNCHANGED <<poolVars, nat, inbox, node, known, punch>>

\* The caller starts over.
Restart(c) ==
    /\ At(c, "failed") /\ Goes(c, "hinted")
    /\ UNCHANGED <<poolVars, nat, inbox, node, known, punch>>

-----------------------------------------------------------------------------
(* The exit and the hole-punch                                             *)

\* ExitFilter::Any takes every exit; Region those with the tag, an exit without one is none.
Candidates(cohort, filter) == IF filter = "any" THEN cohort.exits ELSE cohort.tagged

PickExit(c) ==
    /\ At(c, "matched")
    /\ \E filter \in {"any", "region"} :
        IF Candidates(client[c].cohort, filter) = {} THEN Fails(c) ELSE Goes(c, "picked")
    /\ UNCHANGED <<poolVars, nat, inbox, node, known, punch>>

PunchEnds == {"client", "exit"}
OtherEnd(e) == IF e = "client" THEN "exit" ELSE "client"

LaunchMutant(c, e) == IF OtherEnd(e) \in punch[c].sent THEN {} ELSE {e}
\* A missed sync_at is no reason not to send.
Launch(c, e) == {e}

\* simultaneous_open of one end, by its own clock: one datagram, which opens the NAT it leaves by.
PunchSend(c, e) ==
    /\ At(c, "picked") /\ e \notin punch[c].sent
    /\ punch' = [punch EXCEPT ![c].sent = @ \cup {e}, ![c].flying = @ \cup Launch(c, e)]
    /\ UNCHANGED <<poolVars, nat, inbox, client, node, known>>

\* The NAT at the other end drops what comes before its own end has sent.
PunchArrives(c, e) ==
    /\ e \in punch[c].flying
    /\ punch' = [punch EXCEPT ![c].flying = @ \ {e},
                              ![c].heard = IF OtherEnd(e) \in punch[c].sent THEN @ \cup {OtherEnd(e)} ELSE @]
    /\ UNCHANGED <<poolVars, nat, inbox, client, node, known>>

PunchLost(c, e) ==
    /\ e \in punch[c].flying
    /\ punch' = [punch EXCEPT ![c].flying = @ \ {e}, ![c].lost = TRUE]
    /\ UNCHANGED <<poolVars, nat, inbox, client, node, known>>

-----------------------------------------------------------------------------
(* NodeRegistrar through the pool, see Node                                *)

NodeBegins(n) ==
    /\ StartCall(n)
    /\ \/ node[n] = "out" /\ node' = [node EXCEPT ![n] = "registering"]
       \/ node[n] = "registered" /\ node' = [node EXCEPT ![n] = "beating"]
    /\ UNCHANGED <<nat, inbox, client, known, punch>>

NodeAsks(n) ==
    /\ \/ node[n] = "registering" /\ RegisterAttempt(n)
       \/ node[n] = "beating" /\ Attempt(n) /\ UNCHANGED known
    /\ UNCHANGED <<nat, inbox, client, node, punch>>

NodeFinishes(n) ==
    /\ node[n] \in {"registering", "beating"}
    /\ \/ Return(n, "ok") /\ node' = [node EXCEPT ![n] = "registered"]
       \/ Return(n, "refused") /\ node' = [node EXCEPT ![n] = "out"]
       \/ /\ Return(n, "exhausted")
          /\ node' = [node EXCEPT ![n] = IF @ = "beating" THEN "registered" ELSE "out"]
    /\ UNCHANGED <<nat, inbox, client, known, punch>>

-----------------------------------------------------------------------------

OnboardInit ==
    /\ PoolInit
    /\ nat = [c \in Clients |-> [addr |-> 0, asked |-> 0]]
    /\ inbox = [c \in Clients |-> {}]
    /\ client = [c \in Clients |-> NewClient]
    /\ node = [n \in Nodes |-> "out"]
    /\ known = [i \in Coordinators |-> {}]
    /\ punch = [c \in Clients |-> NewPunch]

\* The steps of one bootstrap call.
Bootstrapping(c) == Register(c) \/ CheckAck(c) \/ Match(c)

OnboardNext ==
    \/ \E c \in Clients :
        \/ StunRequest(c) \/ StunAnswer(c) \/ StunTimeout(c) \/ Remap(c)
        \/ Bootstrap(c) \/ Bootstrapping(c) \/ Restart(c) \/ PickExit(c)
        \/ \E e \in PunchEnds : PunchSend(c, e) \/ PunchArrives(c, e) \/ PunchLost(c, e)
    \/ \E n \in Nodes : NodeBegins(n) \/ NodeAsks(n) \/ NodeFinishes(n)
    \/ Turn /\ UNCHANGED <<nat, inbox, client, node, known, punch>>

\* The future of a bootstrap call is polled until it is done; a request that is answered ends.
OnboardSpec ==
    OnboardInit /\ [][OnboardNext]_onboardVars /\ \A c \in Clients : WF_onboardVars(Bootstrapping(c))

-----------------------------------------------------------------------------
(* Properties                                                              *)

\* Type invariant.
OnboardTypeOK ==
    /\ PoolTypeOK
    /\ nat \in [Clients -> [addr : {0, 1}, asked : {0, 1}]]
    /\ \A c \in Clients :
        /\ inbox[c] \subseteq [txn : 1..MaxTries, addr : {0, 1}]
        /\ client[c].pc \in Places /\ client[c].tries \in 0..MaxTries /\ client[c].hint \in {0, 1}
        /\ client[c].token \in Token \cup {NoToken} /\ client[c].cohort \in SingleHopMatch
        /\ client[c].pc \in {"matching", "matched", "picked"}
            => client[c].token \in [by : Coordinators, sub : {c}, sealed : {"trusted"}]
        /\ punch[c] \in [sent : SUBSET PunchEnds, flying : SUBSET PunchEnds,
                         heard : SUBSET PunchEnds, lost : BOOLEAN]
    /\ node \in [Nodes -> {"out", "registering", "registered", "beating"}]
    /\ known \in [Coordinators -> SUBSET Callers]

\* stun.rs: the address a client goes on with is the one its NAT gave the request it was waiting
\* for, also when the answer to an earlier attempt, from before a new mapping, comes late.
HintIsFresh == \A c \in Clients : At(c, "hinted") => client[c].hint = nat[c].asked

\* bootstrap.rs, "Coordinator affinity": the coordinator that is asked for the match holds the
\* registration, wherever the other callers have moved the pool's cursor by then and whichever
\* coordinators registered the peer and lost their answer.
MatchAsksIssuer == \A c \in Clients : At(c, "matching") => c \in known[ChosenClient(c)]

\* holepunch.rs: if both ends have sent once, at least one of them hears the other, in whatever
\* order the datagrams leave and arrive and however late an end is, unless one is lost.
PunchOpens ==
    \A c \in Clients :
        (punch[c].sent = PunchEnds /\ punch[c].flying = {} /\ ~punch[c].lost) => punch[c].heard # {}

\* A bootstrap call ends, with a session or an error, once no coordinator is silent.
BootstrapEnds ==
    \A c \in Clients :
        <>[](\A i \in Coordinators : state[i] # "silent")
            => (client[c].pc \in InBootstrap ~> client[c].pc \notin InBootstrap)

\* The same affinity for the heartbeats of a node, which go through the pool.
HeartbeatAsksIssuer ==
    \A n \in Nodes : (node[n] = "beating" /\ call[n].pc = "trying") => n \in known[Index(n)]
=============================================================================
