------------------------------ MODULE Records -------------------------------
(***************************************************************************)
(* What is resolved without a coordinator: a peer's record from a pkarr    *)
(* packet of the DHT (bibeam-discovery/src/pkarr_fallback.rs) and a host's *)
(* addresses (bibeam-node/src/dns.rs).  These are functions of what the    *)
(* network answered; nothing in the repository calls them yet.             *)
(***************************************************************************)
EXTENDS Integers, Sequences

LOCAL INSTANCE SequencesExt

-----------------------------------------------------------------------------
(* TXT records.  A character string is a sequence of characters, of which  *)
(* only "=" matters; a TXT record is a sequence of strings.                *)

\* TXT::iter_raw cuts a string at its first "=", if it has one.
IterRaw(string) ==
    LET cuts == {i \in DOMAIN string : string[i] = "="} IN
    IF cuts = {} THEN [key |-> string, value |-> <<>>]
    ELSE LET cut == CHOOSE i \in cuts : \A j \in cuts : i <= j IN
         [key |-> SubSeq(string, 1, cut - 1),
          value |-> <<SubSeq(string, cut + 1, Len(string))>>]

\* reassemble_txt_bytes.
ReassembleTxtBytes(txt) ==
    FoldLeft(LAMBDA joined, string :
                joined \o IterRaw(string).key
                       \o (IF IterRaw(string).value = <<>> THEN <<>>
                           ELSE <<"=">> \o IterRaw(string).value[1]),
             <<>>, txt)

NoRecord == "none"
Failed(result) == result \in {"base64", "postcard", "no usable TXT record", "no signed packet"}

\* try_decode_txt; payloads says which byte sequences are a record and what the others fail on.
TryDecodeTxt(txt, payloads) ==
    LET joined == ReassembleTxtBytes(txt) IN
    IF joined = <<>> THEN NoRecord
    ELSE IF joined \in DOMAIN payloads THEN payloads[joined] ELSE "base64"

\* extract_peer_record over the results of the packet's TXT records, in the packet's order: the
\* loop returns with the first record and remembers the last error until then.
ExtractPeerRecord(results) ==
    LET Step(found, result) ==
            IF found # NoRecord /\ ~Failed(found) THEN found
            ELSE IF result = NoRecord THEN found ELSE result
        found == FoldLeft(Step, NoRecord, results)
    IN IF found = NoRecord THEN "no usable TXT record" ELSE found

\* resolve_peer: packets is what the DHT has under the identity's key, at most one packet.
ResolvePeer(packets, payloads) ==
    IF packets = {} THEN "no signed packet"
    ELSE LET packet == CHOOSE p \in packets : TRUE IN
         ExtractPeerRecord([i \in DOMAIN packet |-> TryDecodeTxt(packet[i], payloads)])

-----------------------------------------------------------------------------
(* DNS.  An answer is a sequence of resource records; an error is ok =     *)
(* FALSE.                                                                  *)

LookupError == [ok |-> FALSE, addrs |-> <<>>]
LookupOk(addrs) == [ok |-> TRUE, addrs |-> addrs]

\* extract_v4 and extract_v6: the records of the family, in order; a CNAME chain is passed over.
Extract(answers, family) == SelectSeq(answers, LAMBDA record : record.family = family)

\* resolve_a and resolve_aaaa.
Resolve(lookup, family) ==
    IF lookup.ok THEN LookupOk(Extract(lookup.addrs, family)) ELSE LookupError

\* merge_any: one family's failure is forgiven.
MergeAny(v4, v6) ==
    IF v4.ok /\ v6.ok THEN LookupOk(v4.addrs \o v6.addrs)
    ELSE IF v4.ok THEN v4 ELSE IF v6.ok THEN v6 ELSE LookupError

\* resolve_any joins both lookups: which one ends first plays no part.
ResolveAny(a, aaaa) == MergeAny(Resolve(a, "A"), Resolve(aaaa, "AAAA"))

\* system_or_fallback_builder: public servers where the system's configuration cannot be read,
\* and it is said.
SystemOrFallback(system) ==
    IF system.ok THEN [servers |-> system.servers, using_fallback |-> FALSE]
    ELSE [servers |-> {"cloudflare"}, using_fallback |-> TRUE]
=============================================================================
