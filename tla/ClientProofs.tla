---------------------------- MODULE ClientProofs ----------------------------
(* Proofs about a client that runs and about one that joins.                *)
(*                                                                          *)
(* Client, for any daemons, caps, intervals and bounds: the daemons agree   *)
(* on one key, the byte counter loses nothing, and a rotation is charged    *)
(* only once it is on disk.                                                 *)
(*                                                                          *)
(* Onboarding, for any clients, nodes, exits and coordinators: a client     *)
(* goes on with the address of the attempt it waited for, asks the          *)
(* coordinator that registered it, and its hole-punch opens; it has a       *)
(* session only with a verified token of its own.                           *)
EXTENDS Client, Onboarding, TLAPS

DiskStep(d) == Disk!Keys(d) \/ Disk!LoadSession(d) \/ Disk!Persist(d) \/ Disk!Crash(d)

-----------------------------------------------------------------------------
(* The state on disk                                                       *)

\* KeysAgree is not inductive: a key that is written must not meet another one.  The file is
\* short from its creation until its one creator has written it, and only a process that has
\* a key persists.
DiskInv ==
    /\ Disk!TypeOK
    /\ KeysAgree
    /\ \A d \in Daemons :
        /\ daemon[d].pc = "created" => keyFile = "short"
        /\ daemon[d].pc \in {"ready", "truncated"} => daemon[d].key \in Daemons
        /\ daemon[d].pc = "truncated" => daemon[d].token \in 1..MaxTokens
    /\ \A d, e \in Daemons : daemon[d].pc = "created" /\ daemon[e].pc = "created" => d = e

\* Only d's own record changes in a step of d.
LEMMA DiskMoves ==
  ASSUME NEW d \in Daemons, Disk!TypeOK, DiskStep(d)
  PROVE \A e \in Daemons \ {d} : daemon'[e] = daemon[e]
  BY DEF DiskStep, Disk!TypeOK, Disk!Keys, Disk!Persist, Disk!Start, Disk!CreateKey,
         Disk!CreateFails, Disk!WriteKey, Disk!LoadSession, Disk!OpenBlob, Disk!WriteBlob,
         Disk!WriteFails, Disk!Crash, Disk!To

\* Without a key file nobody has a key, and the same while the file is short.
LEMMA NoKeyYet ==
  ASSUME DiskInv, keyFile \in {"absent", "short"}
  PROVE \A d \in Daemons : daemon[d].key = None
  BY NoneAssumption DEF DiskInv, KeysAgree, Disk!KeysAgree, Disk!TypeOK, Disk!Daemon

\* load_or_create_state_key keeps the invariant: exclusive creation lets one process write.
LEMMA KeysStep == ASSUME NEW d \in Daemons, DiskInv, Disk!Keys(d) PROVE DiskInv'
<1> USE NoneAssumption, TokensAssumption
<1>0. daemon \in [Daemons -> Disk!Daemon] /\ keyFile \in {"absent", "short"} \cup Daemons
  BY DEF DiskInv, Disk!TypeOK
<1>1. CASE Disk!Start(d)
  <2>1. CASE keyFile = "absent" /\ Disk!To(d, "checked")
    BY <1>0, <1>1, <2>1 DEF Disk!Start, Disk!To, DiskInv, KeysAgree, Disk!KeysAgree, Disk!TypeOK,
                      Disk!Daemon
  <2>2. CASE keyFile = "short" /\ UNCHANGED daemon
    BY <1>1, <2>2 DEF Disk!Start, DiskInv, KeysAgree, Disk!KeysAgree, Disk!TypeOK
  <2>3. CASE /\ keyFile \in Daemons
             /\ daemon' = [daemon EXCEPT ![d] = [pc |-> "ready", key |-> keyFile, token |-> None]]
    BY <1>0, <1>1, <2>3 DEF Disk!Start, DiskInv, KeysAgree, Disk!KeysAgree, Disk!TypeOK, Disk!Daemon
  <2>4. QED
    BY <1>1, <2>1, <2>2, <2>3 DEF Disk!Start
<1>2. CASE Disk!CreateKey(d)
  <2>1. keyFile = "absent" /\ \A e \in Daemons : daemon[e].pc # "created" /\ daemon[e].key = None
    BY <1>2, NoKeyYet DEF Disk!CreateKey, Disk!MayCreate, DiskInv
  <2>2. QED
    BY <1>0, <1>2, <2>1 DEF Disk!CreateKey, Disk!To, DiskInv, KeysAgree, Disk!KeysAgree,
                            Disk!TypeOK, Disk!Daemon
<1>3. CASE Disk!CreateFails(d)
  BY <1>0, <1>3 DEF Disk!CreateFails, Disk!To, DiskInv, KeysAgree, Disk!KeysAgree, Disk!TypeOK,
                    Disk!Daemon
<1>4. CASE Disk!WriteKey(d)
  <2>1. \A e \in Daemons : daemon[e].key = None /\ (daemon[e].pc = "created" => e = d)
    BY <1>4, NoKeyYet DEF Disk!WriteKey, DiskInv
  <2>2. QED
    BY <1>0, <1>4, <2>1 DEF Disk!WriteKey, DiskInv, KeysAgree, Disk!KeysAgree, Disk!TypeOK,
                            Disk!Daemon
<1>5. QED
  BY <1>1, <1>2, <1>3, <1>4 DEF Disk!Keys

\* Loading, persisting and the end of a process leave the key file alone.
LEMMA BlobStep ==
  ASSUME NEW d \in Daemons, DiskInv,
         Disk!LoadSession(d) \/ Disk!Persist(d) \/ Disk!Crash(d)
  PROVE DiskInv'
<1> USE NoneAssumption, TokensAssumption
<1>0. daemon \in [Daemons -> Disk!Daemon] /\ blob \in Disk!Blob /\ issued \in 0..MaxTokens
  BY DEF DiskInv, Disk!TypeOK
<1>1. CASE Disk!LoadSession(d)
  <2>1. blob.token \in 1..MaxTokens
    BY <1>0, <1>1 DEF Disk!LoadSession, Disk!Opens, Disk!Blob, Disk!Sealed, Disk!Unreadable
  <2>2. QED
    BY <1>0, <1>1, <2>1 DEF Disk!LoadSession, DiskInv, KeysAgree, Disk!KeysAgree, Disk!TypeOK,
                            Disk!Daemon
<1>2. CASE Disk!OpenBlob(d)
  <2>1. issued' \in 1..MaxTokens /\ daemon[d].key \in Daemons
    BY <1>0, <1>2 DEF Disk!OpenBlob, DiskInv
  <2>2. Disk!Unreadable("empty") \in Disk!Blob
    BY DEF Disk!Blob
  <2>3. daemon' \in [Daemons -> Disk!Daemon]
    <3>1. [daemon[d] EXCEPT !.pc = "truncated", !.token = issued'] \in Disk!Daemon
      BY <1>0, <2>1 DEF Disk!Daemon
    <3>2. daemon' = [daemon EXCEPT ![d] = [daemon[d] EXCEPT !.pc = "truncated",
                                                            !.token = issued']]
      BY <1>0, <1>2 DEF Disk!OpenBlob
    <3>3. QED
      BY <1>0, <3>1, <3>2
  <2>4. \A e \in Daemons :
          /\ daemon'[e].key = daemon[e].key
          /\ e # d => daemon'[e] = daemon[e]
          /\ e = d => daemon'[e].pc = "truncated" /\ daemon'[e].token = issued'
    BY <1>0, <1>2 DEF Disk!OpenBlob, Disk!Daemon
  <2>5. QED
    BY <1>2, <2>1, <2>2, <2>3, <2>4 DEF Disk!OpenBlob, DiskInv, KeysAgree, Disk!KeysAgree,
                                        Disk!TypeOK
<1>3. CASE Disk!WriteBlob(d)
  <2>1. daemon[d].key \in Daemons /\ daemon[d].token \in 1..MaxTokens
    BY <1>3 DEF Disk!WriteBlob, DiskInv
  <2>2. blob' \in Disk!Blob
    BY <1>3, <2>1 DEF Disk!WriteBlob, Disk!Blob, Disk!Sealed
  <2>3. QED
    BY <1>0, <1>3, <2>1, <2>2 DEF Disk!WriteBlob, Disk!To, DiskInv, KeysAgree, Disk!KeysAgree,
                                  Disk!TypeOK, Disk!Daemon
<1>4. CASE Disk!WriteFails(d)
  <2>1. blob' \in Disk!Blob /\ daemon[d].key \in Daemons
    BY <1>0, <1>4 DEF Disk!WriteFails, Disk!Blob, DiskInv
  <2>2. QED
    BY <1>0, <1>4, <2>1 DEF Disk!WriteFails, Disk!To, DiskInv, KeysAgree, Disk!KeysAgree,
                            Disk!TypeOK, Disk!Daemon
<1>5. CASE Disk!Crash(d)
  <2>1. blob' \in Disk!Blob
    BY <1>0, <1>5 DEF Disk!Crash, Disk!Blob
  <2>2. QED
    BY <1>0, <1>5, <2>1 DEF Disk!Crash, Disk!Off, DiskInv, KeysAgree, Disk!KeysAgree, Disk!TypeOK,
                            Disk!Daemon
<1>6. QED
  BY <1>1, <1>2, <1>3, <1>4, <1>5 DEF Disk!Persist

\* Whatever the client does, the disk takes a step of one daemon or none.
LEMMA DiskSteps ==
  ASSUME [ClientNext]_clientVars
  PROVE UNCHANGED diskVars \/ \E d \in Daemons : DiskStep(d)
<1> USE RotatorAssumption DEF DiskStep
<1>1. CASE Setup \/ CallbackPersists \/ Stop \/ Others
  BY <1>1 DEF Setup, CallbackPersists, Stop, Others
<1>2. CASE StartLoop \/ LoopRuns \/ CallbackReturns
  BY <1>2 DEF StartLoop, LoopRuns, CallbackReturns
<1>3. QED
  BY <1>1, <1>2 DEF ClientNext, clientVars

\* See DiskInv.
LEMMA DiskInvariant == ClientSpec => []DiskInv
<1>1. ClientInit => DiskInv
  BY NoneAssumption, TokensAssumption DEF ClientInit, Disk!Init, Disk!Off, Disk!Unreadable, DiskInv,
     KeysAgree, Disk!KeysAgree, Disk!TypeOK, Disk!Daemon, Disk!Blob
<1>2. DiskInv /\ UNCHANGED diskVars => DiskInv'
  BY DEF DiskInv, diskVars, KeysAgree, Disk!KeysAgree, Disk!TypeOK
<1>3. DiskInv /\ [ClientNext]_clientVars => DiskInv'
  BY <1>2, DiskSteps, KeysStep, BlobStep DEF DiskStep
<1>4. QED
  BY <1>1, <1>3, PTL DEF ClientSpec

\* All daemons under one configuration directory use the key that is on disk
\* (bibeam-cli/src/register.rs, load_or_create_state_key and write_state_key).
THEOREM KeysHold == ClientSpec => []KeysAgree
<1>1. DiskInv => KeysAgree
  BY DEF DiskInv
<1>2. QED
  BY <1>1, DiskInvariant, PTL

-----------------------------------------------------------------------------
(* The rotation loop                                                       *)

\* BytesConserved is not inductive: the subtraction saturates, so nothing is lost only because
\* what was observed is still in the counter.  A rotation past its callback has been saved.
LoopInv ==
    /\ TypeOK /\ running \in BOOLEAN /\ saved \in BOOLEAN
    /\ BytesConserved
    /\ pc \in {"rotating", "loading", "swapping"} => observed <= counter
    /\ pc \in {"loading", "swapping"} => saved

\* One step of the loop, the clock or the data plane.
LEMMA LoopStep ==
  ASSUME LoopInv, Carry \/ Cancel \/ PassTime \/ Loop, saved' = (saved /\ pc # "select"),
         running' = running
  PROVE LoopInv'
<1> USE TimersAssumption, BytesAssumption
        DEF LoopInv, TypeOK, BytesConserved, PC
<1>1. CASE Carry
  BY <1>1 DEF Carry, loopVars
<1>2. CASE Cancel
  BY <1>2 DEF Cancel, loopVars
<1>3. CASE PassTime
  <2>1. tickIn' \in 0..Interval /\ pollIn' \in 0..PollEvery
    BY <1>3 DEF PassTime, CountDown
  <2>2. QED
    BY <1>3, <2>1 DEF PassTime
<1>4. CASE CancelWins
  BY <1>4 DEF CancelWins
<1>5. CASE WallClock
  BY <1>5 DEF WallClock, Fire
<1>6. CASE ByteCap
  BY <1>6 DEF ByteCap, Fire, AtPoll
<1>7. CASE PollAgain
  BY <1>7 DEF PollAgain, AtPoll
<1>8. CASE Load
  BY <1>8 DEF Load
<1>9. CASE Swap
  BY <1>9 DEF Swap, Same, SaturatingSub
<1>10. CASE SwapFails
  BY <1>10 DEF SwapFails, Reload
<1>11. QED
  BY <1>1, <1>2, <1>3, <1>4, <1>5, <1>6, <1>7, <1>8, <1>9, <1>10 DEF Loop

\* See LoopInv.
LEMMA LoopInvariant == ClientSpec => []LoopInv
<1> USE TimersAssumption, BytesAssumption
<1>1. ClientInit => LoopInv
  <2> SUFFICES ASSUME ClientInit PROVE LoopInv
    OBVIOUS
  <2>1. tickIn \in 0..Interval /\ pollIn \in 0..PollEvery /\ 0 \in Nat /\ 0 + 0 = 0
    BY DEF ClientInit, Init
  <2>2. QED
    BY <2>1, Zenon DEF ClientInit, Init, LoopInv, TypeOK, BytesConserved, PC
<1>2. LoopInv /\ [ClientNext]_clientVars => LoopInv'
  <2> SUFFICES ASSUME LoopInv, [ClientNext]_clientVars PROVE LoopInv'
    OBVIOUS
  <2>1. CASE LoopRuns
    BY <2>1, LoopStep DEF LoopRuns
  <2>2. CASE CallbackPersists
    BY <2>2 DEF CallbackPersists, vars, loopVars, LoopInv, TypeOK, BytesConserved
  <2>3. CASE CallbackReturns
    BY <2>3 DEF CallbackReturns, Rotated, RotateFails, LoopInv, TypeOK, BytesConserved, PC
  <2>4. CASE Stop
    <3>1. Interval \in 0..Interval /\ 0 \in 0..PollEvery /\ 0 \in Nat /\ 0 + 0 = 0
      OBVIOUS
    <3>2. QED
      BY <2>4, <3>1, Zenon DEF Stop, LoopInv, TypeOK, BytesConserved, PC
  <2>5. CASE Setup \/ StartLoop \/ Others \/ UNCHANGED clientVars
    BY <2>5 DEF Setup, StartLoop, Others, clientVars, vars, LoopInv, TypeOK, BytesConserved
  <2>6. QED
    BY <2>1, <2>2, <2>3, <2>4, <2>5 DEF ClientNext
<1>3. QED
  BY <1>1, <1>2, PTL DEF ClientSpec

\* No byte is lost or counted twice between the sample, the callback and the
\* compare-exchange (bibeam-cli/src/rotation.rs, fire and saturating_subtract).
THEOREM BytesHold == ClientSpec => []BytesConserved
<1>1. LoopInv => BytesConserved
  BY DEF LoopInv
<1>2. QED
  BY <1>1, LoopInvariant, PTL

\* Every reachable state is well typed.
THEOREM TypeCorrect == ClientSpec => []ClientTypeOK
<1>1. LoopInv /\ DiskInv => ClientTypeOK
  BY DEF LoopInv, DiskInv, ClientTypeOK
<1>2. QED
  BY <1>1, LoopInvariant, DiskInvariant, PTL

\* A rotation takes its bytes off the counter only once its token is on disk.
THEOREM ChargesSaved == ClientSpec => ChargedWhenSaved
<1>1. LoopInv /\ [ClientNext]_clientVars => [charged' > charged => saved]_clientVars
  <2> SUFFICES ASSUME LoopInv, [ClientNext]_clientVars, charged' > charged PROVE saved
    OBVIOUS
  <2>1. charged \in Nat
    BY DEF LoopInv, TypeOK
  <2>2. CASE LoopRuns
    <3>1. CASE Swap
      BY <3>1 DEF Swap, LoopInv
    <3>2. CASE ~Swap
      BY <2>1, <2>2, <3>2 DEF LoopRuns, Carry, Cancel, PassTime, Loop, CancelWins, WallClock,
                              ByteCap, Fire, PollAgain, Load, SwapFails
    <3>3. QED
      BY <3>1, <3>2
  <2>3. CASE ~LoopRuns
    BY <2>1, <2>3 DEF ClientNext, Setup, StartLoop, CallbackPersists, CallbackReturns, Rotated,
                      RotateFails, Stop, Others, clientVars, vars
  <2>4. QED
    BY <2>2, <2>3
<1>2. QED
  BY <1>1, LoopInvariant, PTL DEF ClientSpec, ChargedWhenSaved

-----------------------------------------------------------------------------
(* Joining                                                                 *)

NatRecord == [addr : {0, 1}, asked : {0, 1}]
ClientRecord == [pc : Places, tries : 0..MaxTries, hint : {0, 1}, token : Token \cup {NoToken},
                 cohort : SingleHopMatch]
PunchRecord == [sent : SUBSET PunchEnds, flying : SUBSET PunchEnds, heard : SUBSET PunchEnds, lost : BOOLEAN]
Datagram == [txn : 1..MaxTries, addr : {0, 1}]

ClientTypes ==
    /\ nat \in [Clients -> NatRecord] /\ inbox \in [Clients -> SUBSET Datagram]
    /\ client \in [Clients -> ClientRecord]
KnownTypes == known \in [Coordinators -> SUBSET Callers]
PunchTypes == punch \in [Clients -> PunchRecord]

\* HintIsFresh is about one place.  Until then, no datagram on its way answers an attempt that is
\* yet to come, and the answers to the attempt under way tell its address; from then on nothing
\* touches the hint or what was asked.
Fresh(at, held, datagrams) ==
    /\ at.pc = "asking" => at.tries > 0
    /\ \A d \in datagrams : d.txn <= at.tries
    /\ at.pc = "asking" => \A d \in datagrams : d.txn = at.tries => d.addr = held.asked
    /\ at.pc \notin {"new", "asking"} => at.hint = held.asked
FreshInv == ClientTypes /\ \A c \in Clients : Fresh(client[c], nat[c], inbox[c])

\* MatchAsksIssuer already holds when the answer is in, and registrations are kept.
Holding(r) == r.pc \in {"acked", "matching"}
IssuerInv ==
    /\ ClientTypes /\ KnownTypes
    /\ \A c \in Clients : Holding(client[c]) => c \in known[client[c].token.by]

PunchInv == PunchTypes /\ PunchOpens

StunStep(c) == StunRequest(c) \/ StunAnswer(c) \/ StunTimeout(c) \/ Remap(c)
SessionStep(c) == Bootstrap(c) \/ Bootstrapping(c) \/ Restart(c) \/ PickExit(c)
PunchStep(c, e) == PunchSend(c, e) \/ PunchArrives(c, e) \/ PunchLost(c, e)
NodeStep(n) == NodeBegins(n) \/ NodeAsks(n) \/ NodeFinishes(n)

LEMMA NextSteps ==
  ASSUME [OnboardNext]_onboardVars
  PROVE \/ \E c \in Clients : StunStep(c)
        \/ \E c \in Clients : SessionStep(c)
        \/ \E c \in Clients, e \in PunchEnds : PunchStep(c, e)
        \/ \E n \in Nodes : NodeStep(n)
        \/ UNCHANGED <<nat, inbox, client, node, known, punch>>
  BY DEF OnboardNext, onboardVars, StunStep, SessionStep, PunchStep, NodeStep

-----------------------------------------------------------------------------
(* The address                                                             *)

\* What the steps of a session make of a client: an address is neither looked for nor changed.
Later(r) == {x \in ClientRecord : /\ x.hint = r.hint /\ x.tries = r.tries
                                  /\ x.pc \notin {"new", "asking"}}

LEMMA EmptyCohort == NoCohort \in SingleHopMatch
<1>1. NoCohort = BuildResponse({}, {})
  BY DEF NoCohort, BuildResponse
<1>2. QED
  BY <1>1 DEF SingleHopMatch

LEMMA SessionMoves ==
  ASSUME ClientTypes, NEW c \in Clients, SessionStep(c)
  PROVE /\ nat' = nat /\ inbox' = inbox
        /\ \/ client' = client
           \/ /\ client[c].pc \notin {"new", "asking"}
              /\ \E r \in Later(client[c]) : client' = [client EXCEPT ![c] = r]
<1> DEFINE Moves(r) == client' = [client EXCEPT ![c] = r]
           Moved == client' = client \/ \E r \in Later(client[c]) : Moves(r)
<1>0. client[c] \in ClientRecord /\ client \in [Clients -> ClientRecord]
  BY DEF ClientTypes
<1>1. client[c].pc \notin {"new", "asking"} /\ nat' = nat /\ inbox' = inbox
  BY DEF SessionStep, Bootstrap, Bootstrapping, Register, CheckAck, Match, Restart, PickExit, At
<1>2. ASSUME NEW place \in Places \ {"new", "asking"}, Goes(c, place) PROVE Moved
  <2>1. [client[c] EXCEPT !.pc = place] \in Later(client[c])
    BY <1>0 DEF Later, ClientRecord
  <2>2. Moves([client[c] EXCEPT !.pc = place])
    BY <1>2 DEF Goes
  <2>3. QED
    BY <2>1, <2>2
<1>3. ASSUME Fails(c) PROVE Moved
  <2> DEFINE r == [client[c] EXCEPT !.pc = "failed", !.token = NoToken, !.cohort = NoCohort]
  <2>1. r \in Later(client[c])
    BY <1>0, EmptyCohort DEF Later, ClientRecord, Places
  <2>2. Moves(r)
    BY <1>3 DEF Fails
  <2>3. QED
    BY <2>1, <2>2
<1>4. ASSUME NEW t \in Token, client' = [client EXCEPT ![c].pc = "acked", ![c].token = t] PROVE Moved
  <2> DEFINE r == [client[c] EXCEPT !.pc = "acked", !.token = t]
  <2>1. r \in Later(client[c])
    BY <1>0, <1>4 DEF Later, ClientRecord, Places, InBootstrap
  <2>2. Moves(r)
    BY <1>0, <1>4
  <2>3. QED
    BY <2>1, <2>2
<1>5. ASSUME NEW k \in SingleHopMatch, client' = [client EXCEPT ![c].pc = "matched", ![c].cohort = k]
      PROVE Moved
  <2> DEFINE r == [client[c] EXCEPT !.pc = "matched", !.cohort = k]
  <2>1. r \in Later(client[c])
    BY <1>0, <1>5 DEF Later, ClientRecord, Places
  <2>2. Moves(r)
    BY <1>0, <1>5
  <2>3. QED
    BY <2>1, <2>2
<1>6. {"registering", "acked", "matching", "matched", "picked", "failed", "hinted"} \subseteq Places \ {"new", "asking"}
  BY DEF Places, InBootstrap
<1> SUFFICES Moved
  BY <1>1
<1> HIDE DEF Moved
<1>7. CASE Bootstrap(c)
  BY <1>2, <1>3, <1>6, <1>7 DEF Bootstrap
<1>8. CASE Register(c)
  <2>1. CASE UNCHANGED client
    BY <2>1 DEF Moved
  <2>2. CASE ~UNCHANGED client
    <3>1. PICK t \in {x \in Token : x.by = Index(c)} :
            client' = [client EXCEPT ![c].pc = "acked", ![c].token = t]
      BY <1>8, <2>2 DEF Register
    <3>2. QED
      BY <1>4, <3>1
  <2>3. QED
    BY <2>1, <2>2
<1>9. CASE CheckAck(c)
  BY <1>2, <1>3, <1>6, <1>9 DEF CheckAck
<1>10. CASE Match(c)
  <2>1. CASE Fails(c)
    BY <1>3, <2>1
  <2>2. CASE ~Fails(c)
    <3>1. Matched(c)
      BY <1>10, <2>2 DEF Match
    <3>2. PICK response \in MatchResponse :
            /\ response.kind = "SingleHop"
            /\ client' = [client EXCEPT ![c].pc = "matched", ![c].cohort = response.cohort]
      BY <2>2, <3>1 DEF Matched
    <3>3. response.cohort \in SingleHopMatch
      BY <3>2 DEF MatchResponse
    <3>4. QED
      BY <1>5, <3>2, <3>3
  <2>3. QED
    BY <2>1, <2>2
<1>11. CASE Restart(c)
  BY <1>2, <1>6, <1>11 DEF Restart
<1>12. CASE PickExit(c)
  BY <1>2, <1>3, <1>6, <1>12 DEF PickExit
<1>13. QED
  BY <1>7, <1>8, <1>9, <1>10, <1>11, <1>12 DEF SessionStep, Bootstrapping

\* A step of one client leaves the others fresh.
LEMMA OneMoves ==
  ASSUME FreshInv, NEW c \in Clients,
         NEW r \in ClientRecord, NEW h \in NatRecord, NEW i \in SUBSET Datagram, Fresh(r, h, i),
         client' = [client EXCEPT ![c] = r], nat' = [nat EXCEPT ![c] = h], inbox' = [inbox EXCEPT ![c] = i]
  PROVE FreshInv'
<1>1. ClientTypes'
  BY DEF FreshInv, ClientTypes
<1>2. ASSUME NEW k \in Clients PROVE Fresh(client'[k], nat'[k], inbox'[k])
  <2>1. CASE k = c
    BY <2>1 DEF FreshInv, ClientTypes
  <2>2. CASE k # c
    BY <2>2 DEF FreshInv, ClientTypes
  <2>3. QED
    BY <2>1, <2>2
<1>3. QED
  BY <1>1, <1>2 DEF FreshInv

\* The answer that is accepted is that of the attempt under way; the numbers of the others are
\* smaller, and that of a datagram which is no answer is 0.
LEMMA StunMoves ==
  ASSUME FreshInv, NEW c \in Clients, StunStep(c)
  PROVE FreshInv'
<1>0. /\ client[c] \in ClientRecord /\ nat[c] \in NatRecord /\ inbox[c] \in SUBSET Datagram
      /\ ClientTypes /\ Fresh(client[c], nat[c], inbox[c])
  BY DEF FreshInv, ClientTypes
<1>a. /\ client = [client EXCEPT ![c] = client[c]] /\ nat = [nat EXCEPT ![c] = nat[c]]
      /\ inbox = [inbox EXCEPT ![c] = inbox[c]]
  BY <1>0 DEF ClientTypes
<1>b. /\ "new" \in Places /\ "asking" \in Places /\ "hinted" \in Places
      /\ MaxTries \in Nat \ {0} /\ 0 \in 0..MaxTries /\ client[c].tries \in 0..MaxTries
  BY <1>0, TriesAssumption DEF Places, ClientRecord
<1>1. CASE StunRequest(c)
  <2> DEFINE r == [client[c] EXCEPT !.pc = "asking", !.tries = @ + 1]
             h == [nat[c] EXCEPT !.asked = nat[c].addr]
             answer == [txn |-> client[c].tries + 1, addr |-> nat[c].addr]
  <2>0. client[c].tries < MaxTries /\ client[c].tries + 1 \in 0..MaxTries
    BY <1>1, <1>b DEF StunRequest
  <2>1. /\ r \in ClientRecord /\ r.pc = "asking" /\ r.tries = client[c].tries + 1
        /\ client[c].tries \in 0..MaxTries /\ client[c].tries < MaxTries
    BY <1>0, <1>b, <2>0 DEF ClientRecord
  <2>2. h \in NatRecord /\ h.asked = nat[c].addr
    BY <1>0 DEF NatRecord
  <2>3. answer \in Datagram /\ answer.txn = client[c].tries + 1 /\ answer.addr = nat[c].addr
    BY <1>0, <1>b, <2>1 DEF NatRecord, Datagram
  <2>4. client' = [client EXCEPT ![c] = r] /\ nat' = [nat EXCEPT ![c] = h]
    BY <1>0, <1>1 DEF StunRequest, ClientTypes
  <2>5. inbox' = [inbox EXCEPT ![c] = inbox[c]] \/ inbox' = [inbox EXCEPT ![c] = inbox[c] \cup {answer}]
    BY <1>1, <1>a DEF StunRequest
  <2> HIDE DEF r, h, answer
  <2>6. \A d \in inbox[c] : d.txn <= client[c].tries /\ d.txn \in Nat
    BY <1>0 DEF Fresh, Datagram
  <2>7. Fresh(r, h, inbox[c])
    BY <2>1, <2>6 DEF Fresh
  <2>8. Fresh(r, h, inbox[c] \cup {answer})
    BY <2>1, <2>2, <2>3, <2>6 DEF Fresh
  <2>9. QED
    BY <1>0, <2>1, <2>2, <2>3, <2>4, <2>5, <2>7, <2>8, OneMoves
<1>2. CASE StunAnswer(c)
  <2>0. client[c].pc = "asking" /\ nat' = nat
    BY <1>2 DEF StunAnswer, At
  <2>1. PICK d \in inbox[c] \cup {[txn |-> 0, addr |-> 0]} :
          IF TxnMatches(c, d)
          THEN /\ client' = [client EXCEPT ![c] = [@ EXCEPT !.pc = "hinted", !.hint = d.addr, !.tries = 0]]
               /\ inbox' = [inbox EXCEPT ![c] = {}]
          ELSE Goes(c, "new") /\ inbox' = [inbox EXCEPT ![c] = @ \ {d}]
    BY <1>2 DEF StunAnswer
  <2>2. CASE TxnMatches(c, d)
    <3> DEFINE r == [client[c] EXCEPT !.pc = "hinted", !.hint = d.addr, !.tries = 0]
    <3>1. d \in inbox[c] /\ d.txn = client[c].tries
      <4>1. client[c].tries > 0
        BY <1>0, <2>0 DEF Fresh
      <4>2. d.txn = client[c].tries
        BY <2>2 DEF TxnMatches
      <4>3. d # [txn |-> 0, addr |-> 0]
        BY <4>1, <4>2
      <4>4. QED
        BY <4>2, <4>3
    <3>2. d.addr = nat[c].asked /\ d.addr \in {0, 1}
      BY <1>0, <2>0, <3>1 DEF Fresh, Datagram
    <3>3. r \in ClientRecord /\ r.pc = "hinted" /\ r.hint = d.addr
      BY <1>0, <1>b, <3>2 DEF ClientRecord
    <3>4. client' = [client EXCEPT ![c] = r] /\ inbox' = [inbox EXCEPT ![c] = {}]
      BY <1>0, <2>1, <2>2 DEF ClientTypes
    <3> HIDE DEF r
    <3>5. Fresh(r, nat[c], {})
      BY <3>2, <3>3 DEF Fresh
    <3>6. {} \in SUBSET Datagram /\ nat' = [nat EXCEPT ![c] = nat[c]]
      BY <1>a, <2>0
    <3>7. QED
      BY <1>0, <3>3, <3>4, <3>5, <3>6, OneMoves
  <2>3. CASE ~TxnMatches(c, d)
    <3> DEFINE r == [client[c] EXCEPT !.pc = "new"]
    <3>1. r \in ClientRecord /\ r.pc = "new" /\ r.tries = client[c].tries
      BY <1>0, <1>b DEF ClientRecord
    <3>2. client' = [client EXCEPT ![c] = r] /\ inbox' = [inbox EXCEPT ![c] = inbox[c] \ {d}]
      BY <1>0, <2>1, <2>3 DEF Goes, ClientTypes
    <3> HIDE DEF r
    <3>3. Fresh(r, nat[c], inbox[c] \ {d})
      BY <1>0, <3>1 DEF Fresh
    <3>4. QED
      BY <1>0, <1>a, <2>0, <3>1, <3>2, <3>3, OneMoves, ZenonT(60)
  <2>4. QED
    BY <2>2, <2>3
<1>3. CASE StunTimeout(c)
  <2> DEFINE r == [client[c] EXCEPT !.pc = "new"]
  <2>1. r \in ClientRecord /\ r.pc = "new" /\ r.tries = client[c].tries
    BY <1>0, <1>b DEF ClientRecord
  <2>2. client' = [client EXCEPT ![c] = r] /\ nat' = nat /\ inbox' = inbox
    BY <1>3 DEF StunTimeout, Goes
  <2> HIDE DEF r
  <2>3. Fresh(r, nat[c], inbox[c])
    BY <1>0, <2>1 DEF Fresh
  <2>4. QED
    BY <1>0, <1>a, <2>1, <2>2, <2>3, OneMoves
<1>4. CASE Remap(c)
  <2> DEFINE h == [nat[c] EXCEPT !.addr = 1]
  <2>1. h \in NatRecord /\ h.asked = nat[c].asked
    BY <1>0 DEF NatRecord
  <2>2. nat' = [nat EXCEPT ![c] = h] /\ client' = client /\ inbox' = inbox
    BY <1>4 DEF Remap
  <2> HIDE DEF h
  <2>3. Fresh(client[c], h, inbox[c])
    BY <1>0, <2>1 DEF Fresh
  <2>4. QED
    BY <1>0, <1>a, <2>1, <2>2, <2>3, OneMoves
<1>5. QED
  BY <1>1, <1>2, <1>3, <1>4 DEF StunStep

\* The other steps leave alone what the answers are compared with.
LEMMA FreshStep == FreshInv /\ [OnboardNext]_onboardVars => FreshInv'
<1> SUFFICES ASSUME FreshInv, [OnboardNext]_onboardVars PROVE FreshInv'
  OBVIOUS
<1>1. CASE UNCHANGED <<nat, inbox, client>>
  BY <1>1 DEF FreshInv, ClientTypes
<1>2. ASSUME NEW c \in Clients, NEW e \in PunchEnds, PunchStep(c, e) PROVE FreshInv'
  BY <1>1, <1>2 DEF PunchStep, PunchSend, PunchArrives, PunchLost
<1>3. ASSUME NEW n \in Nodes, NodeStep(n) PROVE FreshInv'
  BY <1>1, <1>3 DEF NodeStep, NodeBegins, NodeAsks, NodeFinishes
<1>4. ASSUME NEW c \in Clients, SessionStep(c) PROVE FreshInv'
  <2>0. /\ client[c] \in ClientRecord /\ nat[c] \in NatRecord /\ inbox[c] \in SUBSET Datagram
        /\ ClientTypes /\ Fresh(client[c], nat[c], inbox[c])
    BY DEF FreshInv, ClientTypes
  <2>1. nat' = nat /\ inbox' = inbox
    BY <1>4, <2>0, SessionMoves
  <2>2. CASE client' = client
    BY <1>1, <2>1, <2>2
  <2>3. CASE client' # client
    <3>1. client[c].pc \notin {"new", "asking"}
      BY <1>4, <2>0, <2>3, SessionMoves
    <3>2. PICK r \in Later(client[c]) : client' = [client EXCEPT ![c] = r]
      BY <1>4, <2>0, <2>3, SessionMoves
    <3>3. r \in ClientRecord /\ Fresh(r, nat[c], inbox[c])
      BY <2>0, <3>1, <3>2 DEF Later, Fresh
    <3>4. nat' = [nat EXCEPT ![c] = nat[c]] /\ inbox' = [inbox EXCEPT ![c] = inbox[c]]
      BY <2>0, <2>1 DEF ClientTypes
    <3>5. QED
      BY <2>0, <3>2, <3>3, <3>4, OneMoves
  <2>4. QED
    BY <2>2, <2>3
<1>5. QED
  BY <1>1, <1>2, <1>3, <1>4, StunMoves, NextSteps

LEMMA FreshInit == OnboardInit => FreshInv
<1>1. NewClient \in ClientRecord /\ NewClient.pc = "new"
  BY EmptyCohort, TriesAssumption DEF NewClient, ClientRecord, Places
<1>2. [addr |-> 0, asked |-> 0] \in NatRecord
  BY DEF NatRecord
<1>3. QED
  BY <1>1, <1>2 DEF OnboardInit, FreshInv, ClientTypes, Fresh

\* stun.rs: the address a client goes on with is that of the attempt it waited for.
THEOREM FreshSafe == OnboardSpec => []HintIsFresh
<1>1. FreshInv => HintIsFresh
  BY DEF FreshInv, Fresh, HintIsFresh, At
<1>2. QED
  BY <1>1, FreshInit, FreshStep, PTL DEF OnboardSpec

-----------------------------------------------------------------------------
(* The issuer                                                              *)

LEMMA KnownGrows ==
  ASSUME KnownTypes, [OnboardNext]_onboardVars
  PROVE KnownTypes' /\ \A i \in Coordinators : known[i] \subseteq known'[i]
<1>1. CASE known' = known
  BY <1>1 DEF KnownTypes
<1>2. ASSUME NEW c \in Callers, NEW i, Registers(c, i)
      PROVE KnownTypes' /\ \A k \in Coordinators : known[k] \subseteq known'[k]
  BY <1>2 DEF Registers, KnownTypes
<1>3. ASSUME NEW c \in Callers, RegisterAttempt(c)
      PROVE known' = known \/ Registers(c, Index(c))
  BY <1>3 DEF RegisterAttempt
<1>4. ASSUME NEW c \in Clients, StunStep(c) PROVE known' = known
  BY <1>4 DEF StunStep, StunRequest, StunAnswer, StunTimeout, Remap
<1>5. ASSUME NEW c \in Clients, SessionStep(c) PROVE known' = known \/ RegisterAttempt(c)
  BY <1>5 DEF SessionStep, Bootstrap, Bootstrapping, Register, CheckAck, Match, Restart, PickExit
<1>6. ASSUME NEW c \in Clients, NEW e \in PunchEnds, PunchStep(c, e) PROVE known' = known
  BY <1>6 DEF PunchStep, PunchSend, PunchArrives, PunchLost
<1>7. ASSUME NEW n \in Nodes, NodeStep(n) PROVE known' = known \/ RegisterAttempt(n)
  BY <1>7 DEF NodeStep, NodeBegins, NodeAsks, NodeFinishes
<1>8. known' = known \/ \E c \in Callers : RegisterAttempt(c)
  BY <1>4, <1>5, <1>6, <1>7, NextSteps, PeersAssumption
<1>9. QED
  BY <1>1, <1>2, <1>3, <1>8

\* A client comes to hold a token only from the coordinator that registers it in that step.
LEMMA TokenComes ==
  ASSUME ClientTypes, KnownTypes, [OnboardNext]_onboardVars, NEW c \in Clients, Holding(client'[c])
  PROVE \/ Holding(client[c]) /\ client'[c].token = client[c].token
        \/ c \in known'[client'[c].token.by]
<1>0. client \in [Clients -> ClientRecord] /\ client[c] \in ClientRecord
  BY DEF ClientTypes
<1>1. CASE client'[c] = client[c]
  BY <1>1
<1>2. ASSUME NEW k \in Clients, NEW place, Goes(k, place), place \notin {"acked", "matching"}
      PROVE client'[c] = client[c]
  BY <1>0, <1>2 DEF Goes, Holding, ClientRecord
<1>3. ASSUME NEW k \in Clients, Fails(k) PROVE client'[c] = client[c]
  BY <1>0, <1>3 DEF Fails, Holding, ClientRecord
<1>4. ASSUME NEW k \in Clients, StunStep(k) PROVE client'[c] = client[c]
  <2>1. CASE StunRequest(k)
    BY <1>0, <2>1 DEF StunRequest, Holding, ClientRecord
  <2>2. CASE StunAnswer(k)
    <3>1. PICK d \in inbox[k] \cup {[txn |-> 0, addr |-> 0]} :
            \/ client' = [client EXCEPT ![k] = [@ EXCEPT !.pc = "hinted", !.hint = d.addr, !.tries = 0]]
            \/ Goes(k, "new")
      BY <2>2 DEF StunAnswer
    <3>2. CASE Goes(k, "new")
      BY <1>2, <3>2
    <3>3. CASE ~Goes(k, "new")
      BY <1>0, <3>1, <3>3 DEF Holding, ClientRecord
    <3>4. QED
      BY <3>2, <3>3
  <2>3. CASE StunTimeout(k)
    BY <1>2, <2>3 DEF StunTimeout
  <2>4. CASE Remap(k)
    BY <2>4 DEF Remap
  <2>5. QED
    BY <1>4, <2>1, <2>2, <2>3, <2>4 DEF StunStep
<1>5. ASSUME NEW k \in Clients, Register(k)
      PROVE client'[c] = client[c] \/ c \in known'[client'[c].token.by]
  <2>1. CASE call'[k].pc # "ok"
    BY <1>5, <2>1 DEF Register
  <2>2. CASE call'[k].pc = "ok"
    <3>1. PICK t \in {x \in Token : x.by = Index(k)} :
            client' = [client EXCEPT ![k].pc = "acked", ![k].token = t]
      BY <1>5, <2>2 DEF Register
    <3>2. t.by \in Coordinators /\ t.by = Index(k)
      BY <3>1 DEF Token
    <3>3. Registers(k, t.by)
      BY <1>5, <2>2, <3>2 DEF Register, RegisterAttempt
    <3>4. k \in known'[t.by]
      BY <3>2, <3>3 DEF Registers, KnownTypes
    <3>5. k = c => client'[c].token = t
      BY <1>0, <3>1 DEF ClientRecord
    <3>6. k # c => client'[c] = client[c]
      BY <1>0, <3>1
    <3>7. QED
      BY <3>4, <3>5, <3>6
  <2>3. QED
    BY <2>1, <2>2
<1>6. ASSUME NEW k \in Clients, CheckAck(k)
      PROVE client'[c] = client[c] \/ (Holding(client[c]) /\ client'[c].token = client[c].token)
  <2>1. CASE Fails(k)
    BY <1>3, <2>1
  <2>2. CASE At(k, "acked") /\ Goes(k, "matching")
    BY <1>0, <2>2 DEF At, Goes, Holding, ClientRecord
  <2>3. QED
    BY <1>6, <2>1, <2>2 DEF CheckAck
<1>7. ASSUME NEW k \in Clients, Match(k) PROVE client'[c] = client[c]
  <2>1. CASE Fails(k)
    BY <1>3, <2>1
  <2>2. CASE ~Fails(k)
    <3>1. Matched(k)
      BY <1>7, <2>2 DEF Match
    <3>2. PICK response \in MatchResponse :
            client' = [client EXCEPT ![k].pc = "matched", ![k].cohort = response.cohort]
      BY <2>2, <3>1 DEF Matched
    <3>3. QED
      BY <1>0, <3>2 DEF Holding, ClientRecord
  <2>3. QED
    BY <2>1, <2>2
<1>8. ASSUME NEW k \in Clients, Bootstrap(k) \/ Restart(k) \/ PickExit(k) PROVE client'[c] = client[c]
  BY <1>2, <1>3, <1>8 DEF Bootstrap, Restart, PickExit
<1>9. ASSUME NEW k \in Clients, NEW e \in PunchEnds, PunchStep(k, e) PROVE client'[c] = client[c]
  BY <1>9 DEF PunchStep, PunchSend, PunchArrives, PunchLost
<1>10. ASSUME NEW n \in Nodes, NodeStep(n) PROVE client'[c] = client[c]
  BY <1>10 DEF NodeStep, NodeBegins, NodeAsks, NodeFinishes
<1>11. QED
  BY <1>1, <1>4, <1>5, <1>6, <1>7, <1>8, <1>9, <1>10, NextSteps DEF SessionStep, Bootstrapping

\* bootstrap.rs, "Coordinator affinity": the coordinator that is asked for the match holds the
\* registration.
THEOREM IssuerSafe == OnboardSpec => []MatchAsksIssuer
<1>1. OnboardInit => FreshInv /\ IssuerInv
  BY FreshInit DEF OnboardInit, FreshInv, IssuerInv, KnownTypes, NewClient, Holding
<1>2. FreshInv /\ IssuerInv /\ [OnboardNext]_onboardVars => FreshInv' /\ IssuerInv'
  <2> SUFFICES ASSUME FreshInv, IssuerInv, [OnboardNext]_onboardVars PROVE FreshInv' /\ IssuerInv'
    OBVIOUS
  <2>1. FreshInv' /\ ClientTypes' /\ ClientTypes /\ KnownTypes
    BY FreshStep DEF FreshInv, IssuerInv
  <2>2. KnownTypes' /\ \A i \in Coordinators : known[i] \subseteq known'[i]
    BY <2>1, KnownGrows
  <2>3. ASSUME NEW c \in Clients, Holding(client'[c]) PROVE c \in known'[client'[c].token.by]
    <3>1. CASE Holding(client[c]) /\ client'[c].token = client[c].token
      <4>1. client[c].token.by \in Coordinators
        <5>1. client[c].token \in Token \cup {NoToken}
          BY <2>1 DEF ClientTypes, ClientRecord
        <5>2. NoToken.by \in Coordinators
          BY PoolAssumption DEF NoToken, Coordinators
        <5>3. QED
          BY <5>1, <5>2 DEF Token
      <4>2. c \in known[client[c].token.by]
        BY <3>1 DEF IssuerInv
      <4>3. QED
        BY <2>2, <3>1, <4>1, <4>2
    <3>2. QED
      BY <2>1, <2>3, <3>1, TokenComes
  <2>4. QED
    BY <2>1, <2>2, <2>3 DEF IssuerInv
<1>3. IssuerInv => MatchAsksIssuer
  BY DEF IssuerInv, Holding, MatchAsksIssuer, ChosenClient, At
<1>4. QED
  BY <1>1, <1>2, <1>3, PTL DEF OnboardSpec

-----------------------------------------------------------------------------
(* The hole-punch                                                          *)

\* Only the steps of the punch touch it.
LEMMA PunchUntouched ==
  ASSUME \/ \E c \in Clients : StunStep(c) \/ SessionStep(c)
         \/ \E n \in Nodes : NodeStep(n)
         \/ UNCHANGED <<nat, inbox, client, node, known, punch>>
  PROVE punch' = punch
  BY DEF StunStep, StunRequest, StunAnswer, StunTimeout, Remap, SessionStep, Bootstrap, Bootstrapping,
         Register, CheckAck, Match, Restart, PickExit, NodeStep, NodeBegins, NodeAsks, NodeFinishes

\* The end that sends last has its datagram in the air when both NATs are open.
LEMMA PunchMoves ==
  ASSUME NEW c \in Clients, NEW e \in PunchEnds, PunchInv, PunchStep(c, e)
  PROVE PunchInv'
<1>0. PunchTypes /\ punch[c] \in PunchRecord /\ OtherEnd(e) \in PunchEnds
  BY DEF PunchInv, PunchTypes, OtherEnd, PunchEnds
<1>1. CASE PunchSend(c, e)
  BY <1>0, <1>1 DEF PunchSend, Launch, PunchInv, PunchTypes, PunchRecord, PunchOpens
<1>2. CASE PunchArrives(c, e)
  <2> DEFINE open == OtherEnd(e) \in punch[c].sent
             heard == IF open THEN punch[c].heard \cup {OtherEnd(e)} ELSE punch[c].heard
             p == [punch[c] EXCEPT !.flying = @ \ {e}, !.heard = heard]
  <2>1. heard \in SUBSET PunchEnds /\ (open => heard # {})
    BY <1>0 DEF PunchRecord
  <2>2. punch' = [punch EXCEPT ![c] = p]
    BY <1>2 DEF PunchArrives
  <2>3. punch[c].sent = PunchEnds => open
    BY <1>0
  <2> HIDE DEF heard
  <2>4. p \in PunchRecord /\ p.sent = punch[c].sent /\ p.heard = heard
    BY <1>0, <2>1 DEF PunchRecord
  <2>5. p.sent = PunchEnds => p.heard # {}
    BY <2>1, <2>3, <2>4
  <2> HIDE DEF p
  <2>6. PunchTypes'
    BY <1>0, <2>2, <2>4 DEF PunchTypes
  <2>7. ASSUME NEW k \in Clients, k # c PROVE punch'[k] = punch[k]
    BY <1>0, <2>2, <2>7 DEF PunchTypes
  <2>8. punch'[c] = p
    BY <1>0, <2>2 DEF PunchTypes
  <2>9. QED
    BY <2>5, <2>6, <2>7, <2>8 DEF PunchInv, PunchOpens
<1>3. CASE PunchLost(c, e)
  BY <1>0, <1>3 DEF PunchLost, PunchInv, PunchTypes, PunchRecord, PunchOpens
<1>4. QED
  BY <1>1, <1>2, <1>3 DEF PunchStep

LEMMA PunchInit == OnboardInit => PunchInv
<1>1. NewPunch \in PunchRecord /\ NewPunch.sent # PunchEnds
  BY DEF NewPunch, PunchRecord, PunchEnds
<1>2. QED
  BY <1>1 DEF OnboardInit, PunchInv, PunchTypes, PunchOpens

LEMMA PunchInvStep == PunchInv /\ [OnboardNext]_onboardVars => PunchInv'
<1> SUFFICES ASSUME PunchInv, [OnboardNext]_onboardVars PROVE PunchInv'
  OBVIOUS
<1>1. CASE punch' = punch
  BY <1>1 DEF PunchInv, PunchTypes, PunchOpens
<1>2. QED
  BY <1>1, NextSteps, PunchUntouched, PunchMoves

\* holepunch.rs: whatever the order and however late an end is, if nothing is lost one end hears
\* the other.
THEOREM PunchSafe == OnboardSpec => []PunchOpens
<1>1. PunchInv => PunchOpens
  BY DEF PunchInv
<1>2. QED
  BY <1>1, PunchInit, PunchInvStep, PTL DEF OnboardSpec

-----------------------------------------------------------------------------
(* Types                                                                   *)

NodeTypes == node \in [Nodes -> {"out", "registering", "registered", "beating"}]

\* A client asks for a match, and has one, only with a token of its own that was verified.
Session == {"matching", "matched", "picked"}
Confirmed(r, c) == r.pc \in Session => r.token.sealed = "trusted" /\ r.token.sub = c
ConfirmedInv == \A c \in Clients : Confirmed(client[c], c)

OnboardInv == FreshInv /\ KnownTypes /\ PunchInv /\ PoolTypeOK /\ NodeTypes /\ ConfirmedInv

\* The sweep stays among the coordinators.
LEMMA PoolTypes ==
  ASSUME PoolTypeOK, NEW c \in Callers,
         StartCall(c) \/ Attempt(c) \/ EndCall(c) \/ Turn \/ UNCHANGED poolVars
  PROVE PoolTypeOK'
<1> USE PoolAssumption
<1>0. call[c] \in Call /\ NoCall \in Call
  BY DEF PoolTypeOK, NoCall, Call, Coordinators
<1>1. CASE StartCall(c)
  <2> DEFINE r == [NoCall EXCEPT !.pc = "trying", !.start = StartAt]
  <2>1. cursor % PoolLen \in 0..PoolLen - 1 /\ (cursor + 1) % Span \in 0..Span - 1
    BY DEF PoolTypeOK
  <2>2. r \in Call
    <3>1. StartAt \in Coordinators
      BY <2>1 DEF StartAt, Coordinators
    <3> QED BY <1>0, <3>1 DEF Call, NoCall
  <2>3. call' = [call EXCEPT ![c] = r]
    BY <1>1 DEF StartCall
  <2> HIDE DEF r
  <2> QED BY <1>1, <2>1, <2>2, <2>3 DEF StartCall, PoolTypeOK
<1>2. CASE Attempt(c)
  <2>1. Index(c) \in Coordinators
    BY <1>0 DEF Index, Call, Coordinators
  <2>2. PICK next : /\ Becomes(c, next)
                    /\ \/ next = [NoCall EXCEPT !.pc = "ok"]
                       \/ next = [NoCall EXCEPT !.pc = "refused"]
                       \/ next = [NoCall EXCEPT !.pc = "exhausted", !.asked = call[c].asked \cup {Index(c)}]
                       \/ /\ next = [call[c] EXCEPT !.offset = @ + 1, !.asked = call[c].asked \cup {Index(c)}]
                          /\ ~Last(c)
    BY <1>2 DEF Attempt
  <2>3. call[c].asked \cup {Index(c)} \in SUBSET Coordinators
    BY <1>0, <2>1 DEF Call
  <2>4. ~Last(c) => call[c].offset + 1 \in Coordinators
    BY <1>0 DEF Last, Call, Coordinators
  <2>5. next \in Call
    BY <1>0, <2>2, <2>3, <2>4 DEF Call, NoCall, Results
  <2> QED BY <1>2, <2>2, <2>5 DEF Attempt, Becomes, PoolTypeOK
<1>3. CASE EndCall(c)
  BY <1>0, <1>3 DEF EndCall, PoolTypeOK
<1>4. CASE Turn
  BY <1>4 DEF Turn, PoolTypeOK
<1>5. CASE UNCHANGED poolVars
  BY <1>5 DEF poolVars, PoolTypeOK
<1> QED BY <1>1, <1>2, <1>3, <1>4, <1>5

\* What a step of the clients and nodes does to the pool is a step of the pool.
LEMMA PoolMoves ==
  ASSUME [OnboardNext]_onboardVars
  PROVE \/ UNCHANGED poolVars \/ Turn
        \/ \E c \in Callers : StartCall(c) \/ Attempt(c) \/ EndCall(c)
<1>1. ASSUME NEW c \in Clients, StunStep(c) PROVE UNCHANGED poolVars
  BY <1>1 DEF StunStep, StunRequest, StunAnswer, StunTimeout, Remap
<1>2. ASSUME NEW c \in Clients, SessionStep(c)
      PROVE UNCHANGED poolVars \/ StartCall(c) \/ Attempt(c) \/ EndCall(c)
  BY <1>2 DEF SessionStep, Bootstrap, Bootstrapping, Register, RegisterAttempt, CheckAck, Return,
              Match, Restart, PickExit
<1>3. ASSUME NEW c \in Clients, NEW e \in PunchEnds, PunchStep(c, e) PROVE UNCHANGED poolVars
  BY <1>3 DEF PunchStep, PunchSend, PunchArrives, PunchLost
<1>4. ASSUME NEW n \in Nodes, NodeStep(n) PROVE StartCall(n) \/ Attempt(n) \/ EndCall(n)
  BY <1>4 DEF NodeStep, NodeBegins, NodeAsks, RegisterAttempt, NodeFinishes, Return
<1>5. Clients \subseteq Callers /\ Nodes \subseteq Callers
  BY PeersAssumption
<1>6. \/ \E c \in Clients : StunStep(c) \/ SessionStep(c) \/ \E e \in PunchEnds : PunchStep(c, e)
      \/ \E n \in Nodes : NodeStep(n)
      \/ Turn \/ UNCHANGED poolVars
  BY DEF OnboardNext, onboardVars, StunStep, SessionStep, PunchStep, NodeStep
<1> QED BY <1>1, <1>2, <1>3, <1>4, <1>5, <1>6

\* A step of one client leaves what is confirmed of the others.
LEMMA OneConfirms ==
  ASSUME ClientTypes, ConfirmedInv, NEW c \in Clients, NEW r, Confirmed(r, c),
         client' = [client EXCEPT ![c] = r]
  PROVE ConfirmedInv'
  BY DEF ClientTypes, ConfirmedInv

\* A client without a verified token comes to no session, and one that fails gives it up.
LEMMA SessionConfirms ==
  ASSUME ClientTypes, ConfirmedInv, NEW c \in Clients, SessionStep(c)
  PROVE ConfirmedInv'
<1>0. client[c] \in ClientRecord
  BY DEF ClientTypes
<1>1. ASSUME NEW place, Goes(c, place), place \notin Session \/ TokenAccepted(c) PROVE ConfirmedInv'
  <2> DEFINE r == [client[c] EXCEPT !.pc = place]
  <2>1. Confirmed(r, c)
    BY <1>0, <1>1 DEF Confirmed, TokenAccepted, ClientRecord
  <2>2. client' = [client EXCEPT ![c] = r]
    BY <1>1 DEF Goes
  <2> HIDE DEF r
  <2> QED BY <2>1, <2>2, OneConfirms
<1>2. ASSUME Fails(c) PROVE ConfirmedInv'
  <2> DEFINE r == [client[c] EXCEPT !.pc = "failed", !.token = NoToken, !.cohort = NoCohort]
  <2>1. Confirmed(r, c)
    BY <1>0 DEF Confirmed, ClientRecord, Session
  <2>2. client' = [client EXCEPT ![c] = r]
    BY <1>2 DEF Fails
  <2> HIDE DEF r
  <2> QED BY <2>1, <2>2, OneConfirms
<1>3. client[c].pc \in Session => TokenAccepted(c)
  BY DEF ConfirmedInv, Confirmed, TokenAccepted
<1>4. CASE Bootstrap(c) \/ Restart(c)
  BY <1>1, <1>2, <1>4 DEF Bootstrap, Restart, Session
<1>5. CASE Register(c)
  <2>1. CASE UNCHANGED client
    BY <2>1 DEF ConfirmedInv
  <2>2. CASE ~UNCHANGED client
    <3>1. PICK t \in Token : client' = [client EXCEPT ![c].pc = "acked", ![c].token = t]
      BY <1>5, <2>2 DEF Register
    <3> DEFINE r == [client[c] EXCEPT !.pc = "acked", !.token = t]
    <3>2. Confirmed(r, c)
      BY <1>0 DEF Confirmed, ClientRecord, Session
    <3>3. client' = [client EXCEPT ![c] = r]
      BY <1>0, <3>1 DEF ClientTypes
    <3> HIDE DEF r
    <3> QED BY <3>2, <3>3, OneConfirms
  <2> QED BY <2>1, <2>2
<1>6. CASE CheckAck(c)
  BY <1>1, <1>2, <1>6 DEF CheckAck
<1>7. CASE Match(c)
  <2>1. CASE Fails(c)
    BY <1>2, <2>1
  <2>2. CASE ~Fails(c)
    <3>1. PICK k \in SingleHopMatch : client' = [client EXCEPT ![c].pc = "matched", ![c].cohort = k]
      BY <1>7, <2>2 DEF Match, Matched, MatchResponse
    <3> DEFINE r == [client[c] EXCEPT !.pc = "matched", !.cohort = k]
    <3>2. TokenAccepted(c)
      BY <1>3, <1>7 DEF Match, At, Session
    <3>3. Confirmed(r, c)
      BY <1>0, <3>2 DEF Confirmed, TokenAccepted, ClientRecord
    <3>4. client' = [client EXCEPT ![c] = r]
      BY <1>0, <3>1 DEF ClientTypes
    <3> HIDE DEF r
    <3> QED BY <3>3, <3>4, OneConfirms
  <2> QED BY <2>1, <2>2
<1>8. CASE PickExit(c)
  BY <1>1, <1>2, <1>3, <1>8 DEF PickExit, At, Session
<1> QED BY <1>4, <1>5, <1>6, <1>7, <1>8 DEF SessionStep, Bootstrapping

LEMMA ConfirmedStep ==
  ASSUME ClientTypes, ConfirmedInv, [OnboardNext]_onboardVars
  PROVE ConfirmedInv'
<1>1. ASSUME NEW c \in Clients, StunStep(c) PROVE ConfirmedInv'
  <2>0. client[c] \in ClientRecord
    BY DEF ClientTypes
  <2>1. CASE client' = client
    BY <2>1 DEF ConfirmedInv
  <2>3. CASE StunRequest(c)
    <3> DEFINE r == [client[c] EXCEPT !.pc = "asking", !.tries = @ + 1]
    <3>1. client' = [client EXCEPT ![c] = r]
      BY <2>0, <2>3 DEF StunRequest, ClientTypes
    <3>2. Confirmed(r, c)
      BY <2>0 DEF ClientRecord, Confirmed, Session
    <3> HIDE DEF r
    <3> QED BY <3>1, <3>2, OneConfirms
  <2>4. ASSUME Goes(c, "new") PROVE ConfirmedInv'
    <3> DEFINE r == [client[c] EXCEPT !.pc = "new"]
    <3>1. Confirmed(r, c)
      BY <2>0 DEF ClientRecord, Confirmed, Session
    <3>2. client' = [client EXCEPT ![c] = r]
      BY <2>4 DEF Goes
    <3> HIDE DEF r
    <3> QED BY <3>1, <3>2, OneConfirms
  <2>5. CASE StunAnswer(c)
    <3>1. PICK d : \/ client' = [client EXCEPT ![c] = [@ EXCEPT !.pc = "hinted", !.hint = d.addr, !.tries = 0]]
                   \/ Goes(c, "new")
      BY <2>5 DEF StunAnswer
    <3> DEFINE r == [client[c] EXCEPT !.pc = "hinted", !.hint = d.addr, !.tries = 0]
    <3>2. Confirmed(r, c)
      BY <2>0 DEF ClientRecord, Confirmed, Session
    <3>3. client' = [client EXCEPT ![c] = r] \/ Goes(c, "new")
      BY <3>1
    <3> HIDE DEF r
    <3> QED BY <2>4, <3>2, <3>3, OneConfirms
  <2> QED BY <1>1, <2>1, <2>3, <2>4, <2>5 DEF StunStep, StunTimeout, Remap
<1>2. ASSUME \/ \E c \in Clients, e \in PunchEnds : PunchStep(c, e)
             \/ \E n \in Nodes : NodeStep(n)
             \/ UNCHANGED <<nat, inbox, client, node, known, punch>>
      PROVE ConfirmedInv'
  <2>1. client' = client
    BY <1>2 DEF PunchStep, PunchSend, PunchArrives, PunchLost, NodeStep, NodeBegins, NodeAsks, NodeFinishes
  <2> QED BY <2>1 DEF ConfirmedInv
<1> QED BY <1>1, <1>2, NextSteps, SessionConfirms

LEMMA NodeTypesStep ==
  ASSUME NodeTypes, [OnboardNext]_onboardVars
  PROVE NodeTypes'
<1>1. ASSUME NEW n \in Nodes, NodeStep(n) PROVE NodeTypes'
  BY <1>1 DEF NodeStep, NodeBegins, NodeAsks, NodeFinishes, NodeTypes
<1>2. ASSUME ~\E n \in Nodes : NodeStep(n) PROVE node' = node
  BY <1>2, NextSteps DEF StunStep, StunRequest, StunAnswer, StunTimeout, Remap, SessionStep, Bootstrap,
         Bootstrapping, Register, CheckAck, Match, Restart, PickExit, PunchStep, PunchSend,
         PunchArrives, PunchLost
<1> QED BY <1>1, <1>2 DEF NodeTypes

\* Every reachable state of clients that join, nodes and pool is well typed; a client asks for a
\* match, and has one, only with a token that a coordinator issued to it.
THEOREM OnboardTypeCorrect == OnboardSpec => []OnboardTypeOK
<1>1. OnboardInit => OnboardInv
  <2> SUFFICES ASSUME OnboardInit PROVE OnboardInv
    OBVIOUS
  <2>1. FreshInv /\ KnownTypes /\ NodeTypes
    BY FreshInit DEF OnboardInit, KnownTypes, NodeTypes
  <2>2. PunchInv
    BY PunchInit
  <2>3. PoolTypeOK
    <3>1. NoCall \in Call /\ 0 \in 0..Span - 1
      BY PoolAssumption DEF NoCall, Call, Coordinators
    <3> QED BY <3>1 DEF OnboardInit, PoolInit, PoolTypeOK
  <2>4. ConfirmedInv
    BY DEF OnboardInit, ConfirmedInv, Confirmed, Session, NewClient
  <2> QED BY <2>1, <2>2, <2>3, <2>4 DEF OnboardInv
<1>2. OnboardInv /\ [OnboardNext]_onboardVars => OnboardInv'
  <2> SUFFICES ASSUME OnboardInv, [OnboardNext]_onboardVars PROVE OnboardInv'
    OBVIOUS
  <2>1. FreshInv' /\ KnownTypes' /\ PunchInv'
    BY FreshStep, KnownGrows, PunchInvStep DEF OnboardInv
  <2>2. PoolTypeOK'
    <3>1. CASE UNCHANGED poolVars \/ Turn
      BY <3>1 DEF OnboardInv, PoolTypeOK, poolVars, Turn
    <3> QED BY <3>1, PoolMoves, PoolTypes DEF OnboardInv
  <2>3. NodeTypes' /\ ConfirmedInv'
    BY NodeTypesStep, ConfirmedStep DEF OnboardInv, FreshInv
  <2> QED BY <2>1, <2>2, <2>3 DEF OnboardInv
<1>3. OnboardInv => OnboardTypeOK
  <2> SUFFICES ASSUME OnboardInv PROVE OnboardTypeOK
    OBVIOUS
  <2>1. ASSUME NEW c \in Clients, client[c].pc \in {"matching", "matched", "picked"}
        PROVE client[c].token \in [by : Coordinators, sub : {c}, sealed : {"trusted"}]
    <3>1. client[c].token.sealed = "trusted" /\ client[c].token.sub = c
      BY <2>1 DEF OnboardInv, ConfirmedInv, Confirmed, Session
    <3>2. client[c].token \in Token
      BY <3>1 DEF OnboardInv, FreshInv, ClientTypes, ClientRecord, NoToken
    <3> QED BY <3>1, <3>2 DEF Token
  <2>2. ASSUME NEW c \in Clients
        PROVE /\ inbox[c] \subseteq Datagram /\ client[c] \in ClientRecord /\ punch[c] \in PunchRecord
    BY DEF OnboardInv, FreshInv, ClientTypes, PunchInv, PunchTypes
  <2>3. PoolTypeOK /\ nat \in [Clients -> NatRecord] /\ NodeTypes /\ KnownTypes
    BY DEF OnboardInv, FreshInv, ClientTypes
  <2> QED BY <2>1, <2>2, <2>3
          DEF OnboardTypeOK, ClientRecord, Datagram, PunchRecord, NatRecord, NodeTypes, KnownTypes
<1> QED BY <1>1, <1>2, <1>3, PTL DEF OnboardSpec
=============================================================================
