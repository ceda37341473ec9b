------------------------------ MODULE MssClamp ------------------------------
(***************************************************************************)
(* TCP MSS clamping of SYN segments (bibeam-tun/src/mtu.rs): the walk over *)
(* the option list, byte by byte, and the RFC 1624 checksum update.  Bytes *)
(* and words have their real width.  Of the fixed header only what the     *)
(* walk reads is kept; options[i] is the segment's byte 19 + i.            *)
(***************************************************************************)
EXTENDS Integers, Sequences

CONSTANTS
    Options,      \* option regions a segment may carry
    DataOffsets,  \* data-offset nibbles
    Checks,       \* checksums
    Targets       \* target_mss

Byte == {b \in Nat : b < 256}
Word == {w \in Nat : w < 65536}

ASSUME OptionsAssumption == Options \subseteq Seq(Byte)
ASSUME NumbersAssumption ==
    DataOffsets \subseteq 0..15 /\ Checks \subseteq Word /\ Targets \subseteq Word

VARIABLES
    seg,      \* the segment
    target,   \* target_mss
    cursor,   \* options[cursor] starts the option the walk is at
    result    \* "new" and "walking", then how clamp_tcp_mss returned

vars == <<seg, target, cursor, result>>

MinHeader == 20
EOL == 0
NOP == 1
MSS == 2
MssLen == 4

Segment == [len : Nat, syn : BOOLEAN, words : 0..15, options : Seq(Byte), check : Word]
HeaderLen == 4 * seg.words

\* Where the walk stops: one past the last option byte.
End == HeaderLen - MinHeader + 1

-----------------------------------------------------------------------------
(* Checksum arithmetic.  XMutant is a deliberately wrong X for the         *)
(* mutation runs; nothing else uses it.                                    *)

OnesComplementAddMutant(left, right) == left + right
OnesComplementAdd(left, right) ==
    LET sum == left + right IN (sum % 65536) + (sum \div 65536)

Complement(word) == 65535 - word

IncrementalUpdateMutant(check, old, new) ==
    Complement(OnesComplementAdd(OnesComplementAdd(Complement(check), old), new))
IncrementalUpdate(check, old, new) ==
    Complement(OnesComplementAdd(OnesComplementAdd(Complement(check), Complement(old)), new))

-----------------------------------------------------------------------------
(* The walk                                                                *)

Return(how) == result' = how /\ UNCHANGED <<seg, target, cursor>>

WellFormed == seg.len >= MinHeader /\ (seg.syn => HeaderLen \in MinHeader..seg.len)

\* The checks before the walk: length, SYN flag, data offset.
Enter ==
    /\ result = "new"
    /\ \/ ~WellFormed /\ Return("error")
       \/ WellFormed /\ ~seg.syn /\ Return("unchanged")
       \/ WellFormed /\ seg.syn /\ Return("walking")

Kind == seg.options[cursor]
AtOption == result = "walking" /\ cursor < End

\* No option left, or an end-of-options byte.
Finish ==
    /\ result = "walking"
    /\ cursor < End => Kind = EOL
    /\ Return("unchanged")

SkipNop ==
    /\ AtOption
    /\ Kind = NOP
    /\ cursor' = cursor + 1
    /\ UNCHANGED <<seg, target, result>>

HasLength == AtOption /\ Kind \notin {EOL, NOP} /\ cursor + 1 < End
Length == seg.options[cursor + 1]

TooSmallMutant(length) == FALSE
TooSmall(length) == length < 2

OverrunsMutant(length) == FALSE
Overruns(length) == cursor + length > End

\* An option that has a usable length.
Sized == HasLength /\ ~TooSmall(Length) /\ ~Overruns(Length)

\* A missing, too small, overrunning or (for MSS) wrong length byte.
Reject ==
    /\ AtOption
    /\ Kind \notin {EOL, NOP}
    /\ Sized => Kind = MSS /\ Length # MssLen
    /\ Return("error")

SkipOption ==
    /\ Sized
    /\ Kind # MSS
    /\ cursor' = cursor + Length
    /\ UNCHANGED <<seg, target, result>>

ValueAt(options, at) == 256 * options[at + 2] + options[at + 3]

FitsMutant(mss) == mss <= target + 1
Fits(mss) == mss <= target

\* The first MSS option decides: left alone when it fits, else rewritten with its checksum.
AtMss == Sized /\ Kind = MSS /\ Length = MssLen

Keep == AtMss /\ Fits(ValueAt(seg.options, cursor)) /\ Return("unchanged")

Rewrite ==
    /\ AtMss
    /\ ~Fits(ValueAt(seg.options, cursor))
    /\ seg' = [seg EXCEPT
                 !.options = [@ EXCEPT ![cursor + 2] = target \div 256,
                                       ![cursor + 3] = target % 256],
                 !.check = IncrementalUpdate(@, ValueAt(seg.options, cursor), target)]
    /\ result' = "rewritten"
    /\ UNCHANGED <<target, cursor>>

Init ==
    /\ \E options \in Options, words \in DataOffsets, syn \in BOOLEAN, check \in Checks :
        \E len \in {MinHeader - 1, MinHeader + Len(options)} :
            seg = [len |-> len, syn |-> syn, words |-> words, options |-> options,
                   check |-> check]
    /\ target \in Targets
    /\ cursor = 1
    /\ result = "new"

Next == Enter \/ Finish \/ SkipNop \/ Reject \/ SkipOption \/ Keep \/ Rewrite

\* The function runs to its return.
Spec == Init /\ [][Next]_vars /\ WF_vars(Next)

-----------------------------------------------------------------------------
(* Properties                                                              *)

\* Type invariant.
TypeOK ==
    /\ seg \in Segment
    /\ target \in Word
    /\ cursor \in Nat \ {0}
    /\ result \in {"new", "walking", "unchanged", "rewritten", "error"}

\* The walk never looks past the header it was given, whatever the length bytes say.
InBounds == result # "new" => cursor <= End \/ result = "error" \/ ~seg.syn

\* The reference reading of an option list: an option starts at the first byte and right
\* behind every option that can be read and does not end the list.
Size(options, at) == IF options[at] = NOP THEN 1 ELSE options[at + 1]
Starts(options) ==
    LET start[at \in Nat] ==
            \/ at = 1
            \/ \E prev \in 1..(at - 1) :
                /\ start[prev]
                /\ options[prev] # EOL
                /\ at = prev + Size(options, prev)
    IN start

\* When the function returns Ok on a SYN, the first MSS option of the list, if it has one,
\* announces no more than the target.
FirstMssFits ==
    (result \in {"unchanged", "rewritten"} /\ seg.syn) =>
        LET start == Starts(seg.options) IN
        \A at \in 1..(End - 3) :
            /\ start[at] /\ seg.options[at] = MSS
            /\ \A prev \in 1..(at - 1) : start[prev] => seg.options[prev] # MSS
            => ValueAt(seg.options, at) <= target

\* How much an edit of one option byte changes the sum over 16-bit words that the checksum
\* complements: bytes 20, 22, ... of the segment are the high ones.
Change(at) ==
    (IF at % 2 = 1 THEN 256 ELSE 1) * (seg'.options[at] - seg.options[at])

\* A rewrite changes the two bytes of one MSS value and moves the checksum so that a segment
\* that verified before verifies after.
ChecksumFollows ==
    (seg'.check - seg.check + Change(cursor + 2) + Change(cursor + 3)) % 65535 = 0

OnlyMssChanges ==
    /\ seg' = [seg EXCEPT !.options = seg'.options, !.check = seg'.check]
    /\ Len(seg'.options) = Len(seg.options)
    /\ \A at \in 1..Len(seg.options) \ {cursor + 2, cursor + 3} :
        seg'.options[at] = seg.options[at]

\* The segment changes in its MSS value and its checksum only, and the checksum follows the
\* value wherever the option sits in the list.
ChecksumKept == [][seg' # seg => OnlyMssChanges /\ ChecksumFollows]_vars

\* The same for an option at an even offset of the segment, as a list that starts with it has.
AlignedChecksumKept ==
    [][seg' # seg /\ cursor % 2 = 1 => OnlyMssChanges /\ ChecksumFollows]_vars

\* The walk ends on every option list, also on one with a zero length byte.
WalkEnds == <>(result \notin {"new", "walking"})
=============================================================================
