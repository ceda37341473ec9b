---------------------------- MODULE MCOnboarding ----------------------------
(* Instances of Onboarding for TLC, and the pure functions of Records and   *)
(* of the messages against what they are for.                               *)
EXTENDS Onboarding, Records

\* The ways to cut a payload of up to n characters into strings.
Texts(n) == UNION {[1..k -> {"x", "="}] : k \in 0..n}
Cuts(text) == UNION {{<<SubSeq(text, 1, i), SubSeq(text, i + 1, j), SubSeq(text, j + 1, Len(text))>>
                        : i \in 0..j} : j \in 0..Len(text)}

\* pkarr_fallback.rs: however a publisher cuts a payload into strings, also inside its padding,
\* the reader gets it back.
ASSUME PayloadSurvives ==
    \A text \in Texts(5) : \A txt \in Cuts(text) : ReassembleTxtBytes(txt) = text

\* pkarr_fallback.rs: a malformed TXT record does not hide the peer's record, the first one wins,
\* and a packet without one is an error.
Results3 == UNION {[1..k -> {NoRecord, "base64", "postcard", "r1", "r2"}] : k \in 0..4}
ASSUME FirstRecordWins ==
    \A results \in Results3 :
        LET good == {i \in DOMAIN results : results[i] \in {"r1", "r2"}} IN
        /\ \A i \in good : (\A j \in good : i <= j) => ExtractPeerRecord(results) = results[i]
        /\ good = {} <=> Failed(ExtractPeerRecord(results))

\* pkarr_fallback.rs: a record that is cut in two is found behind a string that is none, and a
\* name without a packet is an error.
ASSUME CutRecordResolves ==
    LET payloads == [bytes \in {<<"x", "=">>} |-> "r1"]
        noise == <<<<"=">>>>
        record == <<<<"x">>, <<"=">>>> IN
    /\ ResolvePeer({<<noise, record>>}, payloads) = "r1"
    /\ Failed(ResolvePeer({<<noise>>}, payloads)) /\ Failed(ResolvePeer({}, payloads))

\* dns.rs: a host is resolved unless both families fail, to the IPv4 and then the IPv6 addresses.
Answer == UNION {[1..k -> [family : {"A", "AAAA", "CNAME"}]] : k \in 0..2}
Lookups == {LookupError} \cup {LookupOk(a) : a \in Answer}
ASSUME EitherFamilyResolves ==
    \A a, aaaa \in Lookups :
        LET all == ResolveAny(a, aaaa) IN
        /\ all.ok <=> a.ok \/ aaaa.ok
        /\ \A i, j \in DOMAIN all.addrs :
            i < j => ~(all.addrs[i].family = "AAAA" /\ all.addrs[j].family = "A")
        /\ \A i \in DOMAIN all.addrs : all.addrs[i].family # "CNAME"
\* dns.rs: the daemon can tell that it would ask servers the operator did not name.
ASSUME FallbackIsSaid ==
    \A system \in [ok : BOOLEAN, servers : SUBSET {"s1", "s2"}] :
        ~SystemOrFallback(system).using_fallback
            <=> system.ok /\ SystemOrFallback(system).servers = system.servers
=============================================================================
