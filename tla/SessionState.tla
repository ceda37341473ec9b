---------------------------- MODULE SessionState ----------------------------
(***************************************************************************)
(* The client's state on disk (bibeam-cli/src/register.rs): the AEAD key   *)
(* file and the sealed session blob, shared by every daemon started under  *)
(* the same configuration directory.  A crash can fall between any two     *)
(* system calls.                                                           *)
(***************************************************************************)
EXTENDS Naturals

CONSTANTS
    Daemons,    \* processes; a key is named after the one that drew it
    None,
    MaxTokens   \* bound on the session tokens ever issued

VARIABLES
    keyFile,  \* "absent", "short", or the key it holds
    blob,     \* the session blob: what it is, and what it seals under which key
    daemon,   \* per process: where it is, its key, its token
    issued,   \* tokens issued so far: the number of the last one
    kept      \* the last token whose persist_session returned

vars == <<keyFile, blob, daemon, issued, kept>>

Off == [pc |-> "off", key |-> None, token |-> None]
Unreadable(is) == [is |-> is, key |-> None, token |-> 0]
Sealed == [is : {"sealed"}, key : Daemons, token : 1..MaxTokens]
Blob == Sealed \cup {Unreadable(is) : is \in {"absent", "empty", "torn"}}
Daemon == [pc : {"off", "checked", "created", "ready", "truncated"},
           key : Daemons \cup {None}, token : 1..MaxTokens \cup {None}]

To(d, step) == daemon' = [daemon EXCEPT ![d].pc = step]

-----------------------------------------------------------------------------
(* load_or_create_state_key.  XMutant is a deliberately wrong X for the    *)
(* mutation runs; nothing else uses it.                                    *)

\* A start that finds a short key file fails, and so does the next one.
Start(d) ==
    /\ daemon[d].pc = "off"
    /\ \/ keyFile = "absent" /\ To(d, "checked")
       \/ keyFile = "short" /\ UNCHANGED daemon
       \/ keyFile \in Daemons
          /\ daemon' = [daemon EXCEPT ![d] = [pc |-> "ready", key |-> keyFile, token |-> None]]
    /\ UNCHANGED <<keyFile, blob, issued, kept>>

MayCreateMutant == TRUE
\* create_new: O_EXCL.
MayCreate == keyFile = "absent"

CreateKey(d) ==
    /\ daemon[d].pc = "checked"
    /\ MayCreate
    /\ keyFile' = "short"
    /\ To(d, "created")
    /\ UNCHANGED <<blob, issued, kept>>

\* Another daemon was faster.
CreateFails(d) ==
    /\ daemon[d].pc = "checked"
    /\ ~MayCreate
    /\ To(d, "off")
    /\ UNCHANGED <<keyFile, blob, issued, kept>>

WriteKey(d) ==
    /\ daemon[d].pc = "created"
    /\ keyFile' = d
    /\ daemon' = [daemon EXCEPT ![d] = [pc |-> "ready", key |-> d, token |-> None]]
    /\ UNCHANGED <<blob, issued, kept>>

-----------------------------------------------------------------------------
(* load_session and persist_session                                        *)

OpensMutant(key) == blob.is # "absent"
\* The blob is there, has its length, and opens under the key.
Opens(key) == blob.is = "sealed" /\ blob.key = key

\* A blob that does not open loads nothing.
LoadSession(d) ==
    /\ daemon[d].pc = "ready" /\ daemon[d].token = None
    /\ Opens(daemon[d].key)
    /\ daemon' = [daemon EXCEPT ![d].token = blob.token]
    /\ UNCHANGED <<keyFile, blob, issued, kept>>

\* fs::write opens the blob with O_TRUNC ...
OpenBlob(d) ==
    /\ daemon[d].pc = "ready"
    /\ issued < MaxTokens
    /\ issued' = issued + 1
    /\ blob' = Unreadable("empty")
    /\ daemon' = [daemon EXCEPT ![d].pc = "truncated", ![d].token = issued']
    /\ UNCHANGED <<keyFile, kept>>

\* ... and writes it from the start.  Over a longer blob of another daemon a tail remains.
WriteBlob(d) ==
    /\ daemon[d].pc = "truncated"
    /\ \/ blob' = [is |-> "sealed", key |-> daemon[d].key, token |-> daemon[d].token]
       \/ blob.is # "empty" /\ blob' = Unreadable("torn")
    /\ kept' = daemon[d].token
    /\ To(d, "ready")
    /\ UNCHANGED <<keyFile, issued>>

\* A write error, say a full disk: the caller gets it, the file keeps what it has.
WriteFails(d) ==
    /\ daemon[d].pc = "truncated"
    /\ blob' \in {blob, Unreadable("torn")}
    /\ To(d, "ready")
    /\ UNCHANGED <<keyFile, issued, kept>>

\* The process ends, by a crash or an error return, at whatever point it is.
Crash(d) ==
    /\ daemon[d].pc # "off"
    /\ daemon' = [daemon EXCEPT ![d] = Off]
    /\ \/ blob' = blob
       \/ daemon[d].pc = "truncated" /\ blob' = Unreadable("torn")
    /\ UNCHANGED <<keyFile, issued, kept>>

Init ==
    /\ keyFile = "absent"
    /\ blob = Unreadable("absent")
    /\ daemon = [d \in Daemons |-> Off]
    /\ issued = 0
    /\ kept = None

Keys(d) == Start(d) \/ CreateKey(d) \/ CreateFails(d) \/ WriteKey(d)
Persist(d) == OpenBlob(d) \/ WriteBlob(d) \/ WriteFails(d)
Next == \E d \in Daemons : Keys(d) \/ LoadSession(d) \/ Persist(d) \/ Crash(d)

Spec == Init /\ [][Next]_vars

-----------------------------------------------------------------------------
(* Properties                                                              *)

\* Type invariant.
TypeOK ==
    /\ keyFile \in {"absent", "short"} \cup Daemons
    /\ blob \in Blob
    /\ daemon \in [Daemons -> Daemon]
    /\ issued \in 0..MaxTokens
    /\ kept \in 1..MaxTokens \cup {None}

\* Daemons that start together never run with different keys: whoever holds a key holds the
\* one that is on disk, so each of them can open what any of them sealed.
KeysAgree == \A d \in Daemons : daemon[d].key # None => daemon[d].key = keyFile

\* What a daemon has persisted is there for its next start: with no daemon running, a
\* session that was once saved can be loaded.
SessionRemembered ==
    (kept # None /\ \A d \in Daemons : daemon[d].pc = "off") =>
        Opens(keyFile)
=============================================================================
