---------------------------- MODULE PacketProofs ----------------------------
(***************************************************************************)
(* Proofs about what happens to a packet: that the MSS clamp rewrites it   *)
(* as it should, for every option list, data offset, checksum and target,  *)
(* and that the data plane carries it as a lossy pipe does, for any        *)
(* packets, channel bound and faults.                                      *)
(***************************************************************************)
EXTENDS DataPlane, MssClamp, SequenceTheorems, WellFoundedInduction, TLAPS

-----------------------------------------------------------------------------
(* The clamp                                                               *)

\* A segment is shorter than the fixed header, or the fixed header and the options.
Whole == seg.len \in {MinHeader - 1, MinHeader + Len(seg.options)}

\* Once the walk has entered a SYN, its header ends inside the segment.
InHeader ==
    (result # "new" /\ result # "error" /\ seg.syn) =>
        /\ HeaderLen - MinHeader \in Nat
        /\ HeaderLen - MinHeader <= Len(seg.options)
        /\ cursor <= End

\* The inductive invariant.  Only a SYN is walked, from its first option.
WalkInv ==
    /\ TypeOK
    /\ Whole
    /\ InHeader
    /\ result = "new" => cursor = 1
    /\ result = "walking" => seg.syn

-----------------------------------------------------------------------------
(* The checksum                                                            *)

\* A sum of two words folds into a word: its carry is at most one.
LEMMA Folded ==
  ASSUME NEW sum \in Nat, sum < 131071
  PROVE  (sum % 65536) + (sum \div 65536) = IF sum < 65536 THEN sum ELSE sum - 65535
<1>1. CASE sum < 65536
  <2>1. sum % 65536 = sum /\ sum \div 65536 = 0
    BY <1>1
  <2>2. QED
    BY <2>1, <1>1
<1>2. CASE ~(sum < 65536)
  <2>1. sum % 65536 = sum - 65536
    BY <1>2
  <2>3. sum \div 65536 = 1
    BY <1>2
  <2>2. QED
    BY <2>1, <2>3, <1>2
<1>3. QED
  BY <1>1, <1>2

\* One's-complement addition stays in a word and adds modulo 65535.
LEMMA OnesComplementAddition ==
  ASSUME NEW a \in Word, NEW b \in Word
  PROVE  /\ OnesComplementAdd(a, b) \in Word
         /\ OnesComplementAdd(a, b) = IF a + b < 65536 THEN a + b ELSE a + b - 65535
<1>0. a + b \in Nat /\ a + b < 131071
  BY DEF Word
<1> DEFINE sum == a + b
<1>1. OnesComplementAdd(a, b) = (sum % 65536) + (sum \div 65536)
  BY DEF OnesComplementAdd
<1> HIDE DEF sum
<1>2. OnesComplementAdd(a, b) = IF sum < 65536 THEN sum ELSE sum - 65535
  BY <1>0, <1>1, Folded DEF sum
<1>3. QED
  BY <1>0, <1>2 DEF sum, Word

\* RFC 1624: an updated checksum moves against its field by a multiple of 65535.
LEMMA UpdateFollows ==
  ASSUME NEW check \in Word, NEW old \in Word, NEW new \in Word
  PROVE  /\ IncrementalUpdate(check, old, new) \in Word
         /\ (IncrementalUpdate(check, old, new) - check + (new - old)) % 65535 = 0
<1> DEFINE first == OnesComplementAdd(Complement(check), Complement(old))
           second == OnesComplementAdd(first, new)
<1>1. Complement(check) \in Word /\ Complement(old) \in Word
  BY DEF Complement, Word
<1>2. first \in Word /\ (first = Complement(check) + Complement(old)
                         \/ first = Complement(check) + Complement(old) - 65535)
  BY <1>1, OnesComplementAddition
<1>3. second \in Word /\ (second = first + new \/ second = first + new - 65535)
  BY <1>2, OnesComplementAddition
<1>4. IncrementalUpdate(check, old, new) = 65535 - second
  BY DEF IncrementalUpdate, Complement
<1> HIDE DEF first, second
<1> DEFINE moved == 65535 - second - check + (new - old)
<1>5. moved \in {-65535, 0, 65535}
  BY <1>2, <1>3 DEF Complement, Word
<1>6. moved % 65535 = 0
  BY <1>5
<1>7. QED
  BY <1>3, <1>4, <1>6 DEF Word

-----------------------------------------------------------------------------
(* The walk                                                                *)

\* The numbers the walk computes with.
LEMMA Numbers ==
  ASSUME WalkInv
  PROVE  /\ seg.len \in Nat /\ seg.syn \in BOOLEAN /\ seg.words \in 0..15 /\ seg.check \in Word
         /\ seg.options \in Seq(Byte) /\ Len(seg.options) \in Nat
         /\ HeaderLen \in Nat /\ End \in Int /\ End = HeaderLen - 19
         /\ cursor \in Nat \ {0} /\ target \in Word
<1>1. /\ seg.len \in Nat /\ seg.syn \in BOOLEAN /\ seg.words \in 0..15 /\ seg.check \in Word
      /\ seg.options \in Seq(Byte) /\ cursor \in Nat \ {0} /\ target \in Word
  BY DEF WalkInv, TypeOK, Segment
<1>2. Len(seg.options) \in Nat
  BY <1>1
<1>3. seg.words \in Nat
  BY <1>1
<1>4. HeaderLen \in Nat
  BY <1>3 DEF HeaderLen
<1>5. End = HeaderLen - 19 /\ End \in Int
  BY <1>4 DEF End, MinHeader
<1>6. QED
  BY <1>1, <1>2, <1>4, <1>5

\* Every option byte the walk reads is there, and is a byte.
LEMMA ByteInside ==
  ASSUME WalkInv, result = "walking", NEW at \in Nat \ {0}, at < End
  PROVE  at \in 1..Len(seg.options) /\ seg.options[at] \in Byte
<1>1. at \in 1..Len(seg.options)
  BY Numbers DEF WalkInv, InHeader, MinHeader
<1>2. QED
  BY <1>1, Numbers

\* Where the walk stands at an MSS option, the option and its value lie inside the header.
LEMMA MssInside ==
  ASSUME WalkInv, AtMss
  PROVE  /\ cursor + 4 <= End
         /\ cursor + 2 \in 1..Len(seg.options) /\ cursor + 3 \in 1..Len(seg.options)
         /\ seg.options[cursor + 2] \in Byte /\ seg.options[cursor + 3] \in Byte
         /\ ValueAt(seg.options, cursor) \in Word
<1>1. result = "walking" /\ ~Overruns(Length) /\ Length = 4
  BY DEF AtMss, Sized, HasLength, AtOption, MssLen
<1>2. cursor + 4 <= End
  BY <1>1, Numbers DEF Overruns
<1>3. cursor + 2 \in Nat \ {0} /\ cursor + 2 < End /\ cursor + 3 \in Nat \ {0} /\ cursor + 3 < End
  BY <1>2, Numbers
<1>4. /\ cursor + 2 \in 1..Len(seg.options) /\ cursor + 3 \in 1..Len(seg.options)
      /\ seg.options[cursor + 2] \in Byte /\ seg.options[cursor + 3] \in Byte
  BY <1>1, <1>3, ByteInside
<1>5. ASSUME NEW high \in Byte, NEW low \in Byte PROVE 256 * high + low \in Word
  BY DEF Byte, Word
<1>6. ValueAt(seg.options, cursor) \in Word
  BY <1>4, <1>5 DEF ValueAt
<1>7. QED
  BY <1>2, <1>4, <1>6

\* A word is the two bytes it is written as.
LEMMA WordBytes ==
  ASSUME NEW word \in Word
  PROVE  /\ word \div 256 \in Byte /\ word % 256 \in Byte
         /\ 256 * (word \div 256) + (word % 256) = word
<1>1. word \in Nat /\ word < 65536
  BY DEF Word
<1>2. word % 256 \in 0..255
  BY <1>1
<1>3. word = 256 * (word \div 256) + (word % 256)
  BY <1>1
<1>4. word \div 256 \in Nat /\ word \div 256 < 256
  BY <1>1
<1>5. QED
  BY <1>2, <1>3, <1>4 DEF Byte

\* What a rewrite makes of the segment.
LEMMA Rewritten ==
  ASSUME WalkInv, Rewrite
  PROVE  /\ target \div 256 \in Byte /\ target % 256 \in Byte
         /\ 256 * (target \div 256) + (target % 256) = target
         /\ seg'.options \in Seq(Byte) /\ Len(seg'.options) = Len(seg.options)
         /\ seg'.options[cursor + 2] = target \div 256
         /\ seg'.options[cursor + 3] = target % 256
         /\ \A at \in 1..Len(seg.options) \ {cursor + 2, cursor + 3} :
                seg'.options[at] = seg.options[at]
         /\ seg'.check = IncrementalUpdate(seg.check, ValueAt(seg.options, cursor), target)
         /\ seg' = [seg EXCEPT !.options = seg'.options, !.check = seg'.check]
         /\ seg' \in Segment
         /\ seg'.len = seg.len /\ seg'.syn = seg.syn /\ seg'.words = seg.words
<1> DEFINE once == [seg.options EXCEPT ![cursor + 2] = target \div 256]
           twice == [once EXCEPT ![cursor + 3] = target % 256]
           sum == IncrementalUpdate(seg.check, ValueAt(seg.options, cursor), target)
<1>1. AtMss /\ seg \in Segment
  BY DEF Rewrite, WalkInv, TypeOK
<1>2. seg' = [seg EXCEPT !.options = twice, !.check = sum]
  BY Zenon DEF Rewrite
<1>3. target \div 256 \in Byte /\ target % 256 \in Byte
      /\ 256 * (target \div 256) + (target % 256) = target
  BY Numbers, WordBytes
<1>4. once \in Seq(Byte) /\ Len(once) = Len(seg.options)
  BY <1>1, <1>3, MssInside, Numbers
<1>5. twice \in Seq(Byte) /\ Len(twice) = Len(seg.options)
  BY <1>1, <1>3, <1>4, MssInside, Numbers
<1>6. /\ DOMAIN seg.options = 1..Len(seg.options) /\ cursor + 2 # cursor + 3
       /\ cursor + 2 \in DOMAIN seg.options /\ cursor + 3 \in DOMAIN seg.options
  BY <1>1, MssInside, Numbers, SMTT(30)
<1>7. twice[cursor + 2] = target \div 256 /\ twice[cursor + 3] = target % 256
  BY <1>6
<1>8. \A at \in 1..Len(seg.options) \ {cursor + 2, cursor + 3} : twice[at] = seg.options[at]
  BY <1>6
<1>9. sum \in Word
  BY <1>1, MssInside, Numbers, UpdateFollows
<1> HIDE DEF twice, sum
<1>10. /\ seg'.options = twice /\ seg'.check = sum /\ seg' \in Segment
      /\ seg'.len = seg.len /\ seg'.syn = seg.syn /\ seg'.words = seg.words
  BY <1>1, <1>2, <1>5, <1>9 DEF Segment
<1>11. QED
  BY <1>2, <1>3, <1>5, <1>7, <1>8, <1>10 DEF sum

\* Every step keeps the invariant.
LEMMA StepKeepsInv ==
  ASSUME WalkInv, [Next]_vars
  PROVE  WalkInv'
<1> USE DEF Return
<1>1. CASE Enter
  <2>1. TypeOK' /\ UNCHANGED <<seg, target, cursor>> /\ result' # "new"
    BY <1>1 DEF Enter, WalkInv, TypeOK
  <2>2. (result' # "error" /\ seg.syn) => WellFormed
    BY <1>1 DEF Enter
  <2>3. cursor = 1
    BY <1>1 DEF Enter, WalkInv
  <2>4. WellFormed /\ seg.syn => HeaderLen >= 20 /\ HeaderLen <= seg.len
    BY Numbers DEF WellFormed, MinHeader
  <2>5. seg.len = 19 \/ seg.len = 20 + Len(seg.options)
    BY DEF WalkInv, Whole, MinHeader
  <2>6. InHeader'
    BY <2>1, <2>2, <2>3, <2>4, <2>5, Numbers DEF InHeader, HeaderLen, End, MinHeader
  <2>7. result' = "walking" => seg.syn
    BY <1>1 DEF Enter
  <2>8. QED
    BY <2>1, <2>6, <2>7 DEF WalkInv, Whole, MinHeader
<1>2. CASE Finish \/ Reject \/ Keep
  <2>1. /\ result = "walking" /\ UNCHANGED <<seg, target, cursor>>
        /\ result' \in {"unchanged", "error"}
    BY <1>2 DEF Finish, Reject, AtOption, Keep, AtMss, Sized, HasLength
  <2>2. QED
    BY <2>1 DEF WalkInv, TypeOK, Whole, InHeader, HeaderLen, End, MinHeader
<1>3. CASE SkipNop
  <2>1. /\ result = "walking" /\ cursor' = cursor + 1 /\ cursor < End
        /\ UNCHANGED <<seg, target, result>>
    BY <1>3 DEF SkipNop, AtOption
  <2>2. cursor' \in Nat \ {0} /\ cursor' <= End
    BY <2>1, Numbers
  <2>3. QED
    BY <2>1, <2>2 DEF WalkInv, TypeOK, Whole, InHeader, HeaderLen, End, MinHeader
<1>4. CASE SkipOption
  <2>1. /\ result = "walking" /\ cursor' = cursor + Length /\ cursor + 1 < End
        /\ ~Overruns(Length) /\ UNCHANGED <<seg, target, result>>
    BY <1>4 DEF SkipOption, Sized, HasLength, AtOption
  <2>2. Length \in Nat
    BY <2>1, Numbers, ByteInside DEF Length, Byte
  <2>3. cursor' \in Nat \ {0} /\ cursor' <= End
    BY <2>1, <2>2, Numbers DEF Overruns
  <2>4. QED
    BY <2>1, <2>3 DEF WalkInv, TypeOK, Whole, InHeader, HeaderLen, End, MinHeader
<1>5. CASE Rewrite
  <2>1. AtMss /\ result = "walking" /\ result' = "rewritten" /\ UNCHANGED <<target, cursor>>
    BY <1>5 DEF Rewrite, AtMss, Sized, HasLength, AtOption
  <2>2. /\ seg' \in Segment /\ Len(seg'.options) = Len(seg.options)
        /\ seg'.len = seg.len /\ seg'.words = seg.words /\ seg'.syn = seg.syn
    BY <1>5, Rewritten
  <2>3. TypeOK'
    BY <2>1, <2>2 DEF WalkInv, TypeOK
  <2>4. QED
    BY <2>1, <2>2, <2>3 DEF WalkInv, Whole, InHeader, HeaderLen, End, MinHeader
<1>6. CASE UNCHANGED vars
  BY <1>6 DEF vars, WalkInv, TypeOK, Whole, InHeader, HeaderLen, End, MinHeader
<1>7. QED
  BY <1>1, <1>2, <1>3, <1>4, <1>5, <1>6 DEF Next

LEMMA InitInv == Init => WalkInv
<1> SUFFICES ASSUME Init PROVE WalkInv
  OBVIOUS
<1>1. PICK options \in Options, words \in DataOffsets, syn \in BOOLEAN, check \in Checks :
        \E len \in {MinHeader - 1, MinHeader + Len(options)} :
            seg = [len |-> len, syn |-> syn, words |-> words, options |-> options,
                   check |-> check]
  BY DEF Init
<1>2. PICK len \in {MinHeader - 1, MinHeader + Len(options)} :
            seg = [len |-> len, syn |-> syn, words |-> words, options |-> options,
                   check |-> check]
  BY <1>1
<1>3. options \in Seq(Byte) /\ words \in 0..15 /\ check \in Word /\ len \in Nat
  BY OptionsAssumption, NumbersAssumption DEF MinHeader
<1>4. seg \in Segment /\ Whole
  BY <1>2, <1>3 DEF Segment, Whole
<1>5. QED
  BY <1>4, NumbersAssumption DEF Init, WalkInv, TypeOK, InHeader

\* WalkInv is an invariant.
THEOREM WalkHolds == Spec => []WalkInv
<1>1. QED
  BY InitInv, StepKeepsInv, PTL DEF Spec

\* Type correctness of the walk.
THEOREM TypeCorrect == Spec => []TypeOK
<1>1. WalkInv => TypeOK
  BY DEF WalkInv
<1>2. QED
  BY <1>1, WalkHolds, PTL

\* The cursor stays inside the header on every option list, malformed ones included.
THEOREM StaysInBounds == Spec => []InBounds
<1>1. WalkInv => InBounds
  BY DEF WalkInv, InHeader, InBounds
<1>2. QED
  BY <1>1, WalkHolds, PTL

\* A rewrite at an even offset of the segment keeps a right checksum right, for every
\* checksum, old value and target, and touches nothing but the value and the checksum.
THEOREM AlignedRewrites == Spec => AlignedChecksumKept
<1> DEFINE Kept == seg' # seg /\ cursor % 2 = 1 => OnlyMssChanges /\ ChecksumFollows
<1>1. ASSUME WalkInv, [Next]_vars, seg' # seg, cursor % 2 = 1
      PROVE  OnlyMssChanges /\ ChecksumFollows
  <2>1. Rewrite
    BY <1>1 DEF Next, Enter, Finish, SkipNop, Reject, SkipOption, Keep, Return, vars
  <2>2. AtMss
    BY <2>1 DEF Rewrite
  <2>3. OnlyMssChanges
    BY <1>1, <2>1, Rewritten DEF OnlyMssChanges
  <2> DEFINE old == ValueAt(seg.options, cursor)
  <2>4. old \in Word /\ target \in Word /\ seg.check \in Word
    BY <1>1, <2>2, MssInside, Numbers
  <2>5. seg'.check \in Word /\ (seg'.check - seg.check + (target - old)) % 65535 = 0
    <3>1. seg'.check = IncrementalUpdate(seg.check, old, target)
      BY <1>1, <2>1, Rewritten
    <3> HIDE DEF old
    <3>2. /\ IncrementalUpdate(seg.check, old, target) \in Word
          /\ (IncrementalUpdate(seg.check, old, target) - seg.check + (target - old)) % 65535 = 0
      BY <2>4, UpdateFollows
    <3>3. QED
      BY <3>1, <3>2
  <2>6. (cursor + 2) % 2 = 1 /\ (cursor + 3) % 2 # 1
    BY <1>1, Numbers
  <2>7. Change(cursor + 2) + Change(cursor + 3) = target - old
    <3>1. /\ Change(cursor + 2) = 256 * ((target \div 256) - seg.options[cursor + 2])
          /\ Change(cursor + 3) = 1 * ((target % 256) - seg.options[cursor + 3])
      BY <1>1, <2>1, <2>6, Rewritten DEF Change
    <3>2. /\ seg.options[cursor + 2] \in Nat /\ seg.options[cursor + 3] \in Nat
          /\ target \div 256 \in Nat /\ target % 256 \in Nat
          /\ 256 * (target \div 256) + (target % 256) = target
      BY <1>1, <2>1, <2>2, MssInside, Rewritten DEF Byte
    <3>3. QED
      BY <3>1, <3>2, <2>4 DEF ValueAt, Word
  <2>8. /\ Change(cursor + 2) \in Int /\ Change(cursor + 3) \in Int
        /\ seg'.check \in Int /\ seg.check \in Int /\ target - old \in Int
    <3>1. /\ seg.options[cursor + 2] \in Byte /\ seg.options[cursor + 3] \in Byte
      BY <1>1, <2>2, MssInside
    <3>2. /\ seg'.options[cursor + 2] \in Byte /\ seg'.options[cursor + 3] \in Byte
      BY <1>1, <2>1, Rewritten
    <3>3. seg'.options[cursor + 2] \in Int /\ seg'.options[cursor + 3] \in Int
      BY <3>2 DEF Byte
    <3>4. seg.options[cursor + 2] \in Int /\ seg.options[cursor + 3] \in Int
      BY <3>1 DEF Byte
    <3>5. Change(cursor + 2) \in Int /\ Change(cursor + 3) \in Int
      BY <3>3, <3>4 DEF Change
    <3>6. seg'.check \in Int /\ seg.check \in Int /\ target - old \in Int
      BY <2>4, <2>5 DEF Word
    <3>7. QED
      BY <3>5, <3>6
  <2>9. ChecksumFollows
    BY <2>5, <2>7, <2>8 DEF ChecksumFollows
  <2>10. QED
    BY <2>3, <2>9
<1>2. WalkInv /\ [Next]_vars => [Kept]_vars
  BY <1>1
<1>3. QED
  BY <1>2, WalkHolds, PTL DEF Spec, AlignedChecksumKept

-----------------------------------------------------------------------------
(* The first MSS option                                                    *)

\* The numbers below a number.
Below == {pair \in Nat \X Nat : pair[1] < pair[2]}

\* Every set of numbers that is not empty has a least one: induction without an operator.
LEMMA LeastNumber ==
  ASSUME NEW T \in SUBSET Nat, T # {}
  PROVE  \E n \in T : \A m \in T : n <= m
<1>1. Below = OpToRel(<, Nat)
  BY DEF Below, OpToRel
<1>2. IsWellFoundedOn(Below, Nat)
  BY <1>1, NatLessThanWellFounded
<1>3. PICK n \in T : \A m \in T : <<m, n>> \notin Below
  BY <1>2, WFMin, Zenon
<1>4. \A m \in T : <<m, n>> \notin Below <=> n <= m
  BY DEF Below
<1>5. QED
  BY <1>3, <1>4

\* One step of the reference reading: how an option list says of a byte that it starts an option.
Reads(start, options, at) ==
    \/ at = 1
    \/ \E prev \in 1..(at - 1) :
        /\ start[prev]
        /\ options[prev] # EOL
        /\ at = prev + Size(options, prev)

\* The recursion of Starts has a solution: the bytes that are in every set that has the first byte
\* and, with an option that can be read, the byte behind it.
LEMMA StartsRead ==
  ASSUME NEW options
  PROVE  \A at \in Nat : Starts(options)[at] <=> Reads(Starts(options), options, at)
<1> DEFINE Behind(prev) == prev + Size(options, prev)
           Closed(C) == /\ 1 \in C
                        /\ \A prev \in C : options[prev] # EOL /\ Behind(prev) \in Nat
                                           /\ prev < Behind(prev) => Behind(prev) \in C
           Positions == Nat \ {0}
           Read == {at \in Positions : \A C \in SUBSET Positions : Closed(C) => at \in C}
           start == [at \in Nat |-> at \in Read]
<1>1. Closed(Read)
  <2>1. 1 \in Read
    OBVIOUS
  <2>2. ASSUME NEW prev \in Read, options[prev] # EOL, Behind(prev) \in Nat, prev < Behind(prev)
        PROVE  Behind(prev) \in Read
    <3>1. Behind(prev) \in Positions
      BY <2>2
    <3>2. ASSUME NEW C \in SUBSET Positions, Closed(C) PROVE Behind(prev) \in C
      BY <2>2, <3>2
    <3>3. QED
      BY <3>1, <3>2
  <2>3. QED
    BY <2>1, <2>2
<1>a. /\ Read \subseteq Positions
      /\ \A C \in SUBSET Positions : Closed(C) => Read \subseteq C
  OBVIOUS
<1> HIDE DEF Read
<1>b. /\ \A at \in Nat : start[at] <=> at \in Read
      /\ start = [at \in Nat |-> at \in Read]
  OBVIOUS
<1> HIDE DEF start
<1>2. ASSUME NEW at \in Nat PROVE at \in Read <=> Reads(start, options, at)
  <2>1. ASSUME Reads(start, options, at) PROVE at \in Read
    <3>1. CASE at = 1
      BY <1>1, <3>1
    <3>2. ASSUME NEW prev \in 1..(at - 1), start[prev], options[prev] # EOL, at = Behind(prev)
          PROVE  at \in Read
      <4>1. prev \in Read /\ prev < at
        BY <1>b, <3>2
      <4>2. QED
        BY <1>1, <3>2, <4>1
    <3>3. QED
      BY <2>1, <3>1, <3>2 DEF Reads
  <2>2. ASSUME at \in Read, ~Reads(start, options, at) PROVE FALSE
    <3> DEFINE C == Read \ {at}
    <3>1. 1 \in C
      BY <1>1, <2>2 DEF Reads
    <3>2. ASSUME NEW prev \in C, options[prev] # EOL, Behind(prev) \in Nat, prev < Behind(prev)
          PROVE  Behind(prev) \in C
      <4>1. Behind(prev) \in Read
        BY <1>1, <3>2
      <4>2. CASE Behind(prev) = at
        <5>1. prev \in 1..(at - 1) /\ start[prev]
          BY <1>a, <1>b, <3>2, <4>2
        <5>2. QED
          BY <2>2, <3>2, <4>2, <5>1 DEF Reads
      <4>3. QED
        BY <4>1, <4>2
    <3>3. Closed(C) /\ C \in SUBSET Positions
      BY <1>a, <3>1, <3>2
    <3> HIDE DEF Closed
    <3>4. QED
      BY <1>a, <2>2, <3>3
  <2>3. QED
    BY <2>1, <2>2
<1>3. start = [at \in Nat |-> Reads(start, options, at)]
  <2>1. ASSUME NEW at \in Nat PROVE (at \in Read) = Reads(start, options, at)
    <3>1. Reads(start, options, at) \in BOOLEAN
      BY DEF Reads
    <3>2. QED
      BY <1>2, <3>1
  <2>2. QED
    BY <1>b, <2>1
<1>4. Starts(options) = [at \in Nat |-> Reads(Starts(options), options, at)]
  <2>1. \E f : f = [at \in Nat |-> Reads(f, options, at)]
    BY <1>3
  <2>2. Starts(options) = CHOOSE f : f = [at \in Nat |-> Reads(f, options, at)]
    BY DEF Starts, Reads
  <2>3. QED
    BY <2>1, <2>2
<1>5. QED
  BY <1>4

\* A walk that stands at byte c is in step with the reference reading: an option starts there, and
\* those before it neither end the list nor are an MSS option nor reach beyond c.
Reached(options, c) ==
    /\ Starts(options)[c]
    /\ \A prev \in 1..(c - 1) : Starts(options)[prev] =>
          /\ options[prev] \notin {EOL, MSS}
          /\ Size(options, prev) \in Nat /\ prev + Size(options, prev) <= c

InStep == result = "walking" => Reached(seg.options, cursor)

LEMMA ReachedFirst == ASSUME NEW options PROVE Reached(options, 1)
<1>1. Starts(options)[1]
  BY StartsRead DEF Reads
<1>2. QED
  BY <1>1 DEF Reached

\* No option starts inside the one at c, and none behind an end of the list.
LEMMA NoneBetween ==
  ASSUME NEW options, NEW c \in Nat \ {0}, Reached(options, c), NEW next \in Nat,
         options[c] # EOL => next = c + Size(options, c)
  PROVE  \A at \in Nat : c < at /\ at < next => ~Starts(options)[at]
<1> DEFINE T == {at \in Nat : c < at /\ at < next /\ Starts(options)[at]}
<1>1. SUFFICES ASSUME T # {} PROVE FALSE
  OBVIOUS
<1>2. PICK at \in T : \A m \in T : at <= m
  BY <1>1, LeastNumber
<1>3. at # 1 /\ at \in Nat /\ c < at /\ at < next /\ Starts(options)[at]
  OBVIOUS
<1>4. PICK prev \in 1..(at - 1) :
        Starts(options)[prev] /\ options[prev] # EOL /\ at = prev + Size(options, prev)
  BY <1>3, StartsRead DEF Reads
<1>5. CASE prev < c
  <2>1. prev \in 1..(c - 1)
    BY <1>5
  <2>2. prev + Size(options, prev) <= c
    BY <1>4, <2>1 DEF Reached
  <2>3. QED
    BY <1>3, <1>4, <2>2
<1>6. CASE prev = c
  BY <1>3, <1>4, <1>6
<1>7. CASE c < prev
  <2>1. prev \in T /\ prev < at
    BY <1>3, <1>4, <1>7
  <2>2. QED
    BY <1>2, <1>3, <2>1
<1>8. QED
  BY <1>3, <1>4, <1>5, <1>6, <1>7

\* Stepping over an option keeps the walk in step.
LEMMA StepOver ==
  ASSUME NEW options, NEW c \in Nat \ {0}, Reached(options, c), options[c] \notin {EOL, MSS},
         Size(options, c) \in Nat \ {0}
  PROVE  Reached(options, c + Size(options, c))
<1> DEFINE next == c + Size(options, c)
<1>1. next \in Nat /\ c < next /\ c \in 1..(next - 1) /\ Starts(options)[c]
  BY DEF Reached
<1>2. Starts(options)[next]
  <2>1. Reads(Starts(options), options, next)
    BY <1>1 DEF Reads
  <2>2. QED
    BY <1>1, <2>1, StartsRead
<1>3. ASSUME NEW prev \in 1..(next - 1), Starts(options)[prev]
      PROVE  /\ options[prev] \notin {EOL, MSS}
             /\ Size(options, prev) \in Nat /\ prev + Size(options, prev) <= next
  <2>1. CASE prev < c
    <3>1. prev \in 1..(c - 1)
      BY <2>1
    <3>2. /\ options[prev] \notin {EOL, MSS} /\ Size(options, prev) \in Nat
          /\ prev + Size(options, prev) <= c
      BY <1>3, <3>1 DEF Reached
    <3>3. QED
      BY <1>1, <3>2
  <2>2. CASE prev = c
    BY <1>1, <2>2
  <2>3. CASE c < prev
    <3>1. prev \in Nat /\ prev < next
      BY <1>1
    <3>2. QED
      BY <1>1, <1>3, <2>3, <3>1, NoneBetween
  <2>4. QED
    BY <1>1, <2>1, <2>2, <2>3
<1> HIDE DEF next
<1>4. Reached(options, next)
  BY <1>2, <1>3 DEF Reached
<1>5. QED
  BY <1>4 DEF next

\* Lists with the same beginning are read alike as far as it goes.
LEMMA SameBeginning ==
  ASSUME NEW one, NEW two, NEW c \in Nat, \A at \in 1..c : two[at] = one[at]
  PROVE  \A at \in 1..c : Starts(two)[at] <=> Starts(one)[at]
<1> DEFINE T == {at \in 1..c : ~(Starts(two)[at] <=> Starts(one)[at])}
<1>1. SUFFICES ASSUME T # {} PROVE FALSE
  OBVIOUS
<1>2. T \in SUBSET Nat
  OBVIOUS
<1>3. PICK at \in T : \A m \in T : at <= m
  BY <1>1, <1>2, LeastNumber
<1>4. at \in 1..c /\ ~(Starts(two)[at] <=> Starts(one)[at])
  OBVIOUS
<1>5. ASSUME NEW prev \in 1..(at - 1)
      PROVE  /\ Starts(two)[prev] <=> Starts(one)[prev]
             /\ two[prev] = one[prev] /\ Size(two, prev) = Size(one, prev)
  <2>1. prev \in 1..c /\ prev + 1 \in 1..c /\ prev < at
    BY <1>4
  <2>2. prev \notin T
    BY <1>3, <1>4, <2>1
  <2>3. Starts(two)[prev] <=> Starts(one)[prev]
    BY <2>1, <2>2
  <2>4. QED
    BY <2>1, <2>3 DEF Size
<1>6. Reads(Starts(two), two, at) <=> Reads(Starts(one), one, at)
  BY <1>5 DEF Reads
<1>7. QED
  BY <1>4, <1>6, StartsRead

\* FirstMssFits speaks of the end of the walk; it is the place of the walk before that which an
\* induction needs.
FirstInv == WalkInv /\ InStep /\ FirstMssFits

\* In step, the walk has seen no MSS option before the byte it is at.
LEMMA NoMssBefore ==
  ASSUME NEW options, NEW c \in Nat \ {0}, Reached(options, c),
         NEW at \in 1..(c - 1), Starts(options)[at]
  PROVE  options[at] # MSS
BY DEF Reached

LEMMA FirstStep == FirstInv /\ [Next]_vars => FirstInv'
<1> SUFFICES ASSUME FirstInv, [Next]_vars PROVE FirstInv'
  OBVIOUS
<1>1. WalkInv /\ WalkInv' /\ cursor \in Nat \ {0}
  BY StepKeepsInv DEF FirstInv, WalkInv, TypeOK
<1>2. CASE Enter
  <2>1. /\ UNCHANGED <<seg, target, cursor>> /\ cursor = 1
        /\ result' \in {"error", "unchanged", "walking"} /\ (result' = "unchanged" => ~seg.syn)
    BY <1>1, <1>2 DEF Enter, Return, WalkInv
  <2>2. InStep'
    BY <2>1, ReachedFirst DEF InStep
  <2>3. QED
    BY <1>1, <2>1, <2>2 DEF FirstInv, FirstMssFits
<1>3. CASE SkipNop \/ SkipOption
  <2>1. /\ result = "walking" /\ UNCHANGED <<seg, target, result>> /\ cursor' = cursor + Size(seg.options, cursor)
        /\ Size(seg.options, cursor) \in Nat \ {0} /\ seg.options[cursor] \notin {EOL, MSS}
    <3>1. CASE SkipNop
      BY <3>1 DEF SkipNop, AtOption, Kind, Size, NOP, EOL, MSS
    <3>2. CASE SkipOption
      <4>1. /\ result = "walking" /\ cursor + 1 < End /\ ~TooSmall(Length)
            /\ Kind \notin {EOL, NOP, MSS} /\ cursor' = cursor + Length
            /\ UNCHANGED <<seg, target, result>>
        BY <3>2 DEF SkipOption, Sized, HasLength, AtOption
      <4>2. cursor + 1 \in Nat \ {0} /\ cursor + 1 < End
        BY <1>1, <4>1
      <4>3. Length \in Byte
        BY <1>1, <4>1, <4>2, ByteInside DEF Length
      <4>4. Size(seg.options, cursor) = Length /\ Length \in Nat \ {0}
        BY <4>1, <4>3 DEF Size, Kind, Length, Byte, TooSmall
      <4>5. QED
        BY <4>1, <4>4 DEF Kind
    <3>3. QED
      BY <1>3, <3>1, <3>2
  <2>2. Reached(seg.options, cursor)
    BY <2>1 DEF FirstInv, InStep
  <2>3. Reached(seg.options, cursor')
    BY <1>1, <2>1, <2>2, StepOver
  <2>4. QED
    BY <1>1, <2>1, <2>3 DEF FirstInv, InStep, FirstMssFits
<1>4. CASE Reject
  BY <1>1, <1>4 DEF Reject, Return, FirstInv, InStep, FirstMssFits
<1>5. CASE Finish
  <2>1. /\ result = "walking" /\ result' = "unchanged" /\ UNCHANGED <<seg, target, cursor>>
        /\ cursor < End => seg.options[cursor] = EOL
    BY <1>5 DEF Finish, Return, Kind
  <2>2. Reached(seg.options, cursor)
    BY <2>1 DEF FirstInv, InStep
  <2>3. ASSUME NEW at \in 1..(End - 3), Starts(seg.options)[at] PROVE seg.options[at] # MSS
    <3>1. at \in Nat /\ End \in Int /\ at < End
      BY <1>1, Numbers
    <3>2. CASE at < cursor
      BY <1>1, <2>2, <2>3, <3>2, NoMssBefore
    <3>3. CASE at = cursor
      BY <2>1, <3>1, <3>3 DEF EOL, MSS
    <3>4. CASE cursor < at
      <4>1. seg.options[cursor] = EOL /\ at + 1 \in Nat /\ at < at + 1
        BY <1>1, <2>1, <3>1, <3>4
      <4>2. QED
        BY <1>1, <2>2, <2>3, <3>1, <3>4, <4>1, NoneBetween
    <3>5. QED
      BY <1>1, <3>1, <3>2, <3>3, <3>4
  <2>4. FirstMssFits'
    BY <2>1, <2>3 DEF FirstMssFits, End, HeaderLen
  <2>5. QED
    BY <1>1, <2>1, <2>4 DEF FirstInv, InStep
<1>6. CASE Keep
  <2>1. /\ result = "walking" /\ result' = "unchanged" /\ UNCHANGED <<seg, target, cursor>>
        /\ seg.options[cursor] = MSS /\ ValueAt(seg.options, cursor) <= target
    BY <1>6 DEF Keep, Return, AtMss, Sized, HasLength, AtOption, Kind, Fits
  <2>2. Reached(seg.options, cursor)
    BY <2>1 DEF FirstInv, InStep
  <2>3. ASSUME NEW at \in 1..(End - 3), Starts(seg.options)[at], seg.options[at] = MSS,
               \A prev \in 1..(at - 1) : Starts(seg.options)[prev] => seg.options[prev] # MSS
        PROVE  at = cursor
    <3>1. at \in Nat \ {0}
      BY <1>1, Numbers
    <3>2. ~(at < cursor)
      BY <1>1, <2>2, <2>3, <3>1, NoMssBefore
    <3>3. ~(cursor < at)
      BY <1>1, <2>1, <2>2, <2>3, <3>1 DEF Reached
    <3>4. QED
      BY <1>1, <3>1, <3>2, <3>3
  <2>4. FirstMssFits'
    BY <2>1, <2>3 DEF FirstMssFits, End, HeaderLen
  <2>5. QED
    BY <1>1, <2>1, <2>4 DEF FirstInv, InStep
<1>7. CASE Rewrite
  <2> DEFINE one == seg.options
             two == seg'.options
  <2>1. AtMss /\ result = "walking" /\ result' = "rewritten" /\ UNCHANGED <<target, cursor>>
        /\ one[cursor] = MSS
    BY <1>7 DEF Rewrite, AtMss, Sized, HasLength, AtOption, Kind
  <2>2. /\ \A at \in 1..Len(one) \ {cursor + 2, cursor + 3} : two[at] = one[at]
        /\ ValueAt(two, cursor) = target /\ seg'.words = seg.words
    BY <1>1, <1>7, Rewritten DEF ValueAt
  <2>3. cursor + 3 \in 1..Len(one) /\ Len(one) \in Nat
    BY <1>1, <2>1, MssInside, Numbers
  <2> HIDE DEF one, two
  <2>4. \A at \in 1..cursor : two[at] = one[at]
    BY <1>1, <2>2, <2>3
  <2>5. \A at \in 1..cursor : Starts(two)[at] <=> Starts(one)[at]
    BY <1>1, <2>4, SameBeginning
  <2>6. Reached(one, cursor)
    BY <2>1 DEF FirstInv, InStep, one
  <2>7. Starts(two)[cursor] /\ two[cursor] = MSS
    BY <1>1, <2>1, <2>4, <2>5, <2>6 DEF Reached
  <2>8. ASSUME NEW at \in 1..(End' - 3), Starts(two)[at], two[at] = MSS,
               \A prev \in 1..(at - 1) : Starts(two)[prev] => two[prev] # MSS
        PROVE  ValueAt(two, at) <= target
    <3>1. at \in Nat \ {0} /\ target \in Nat
      BY <1>1, Numbers DEF Word
    <3>2. ~(at < cursor)
      <4>1. ASSUME at < cursor PROVE FALSE
        <5>1. at \in 1..cursor /\ at \in 1..(cursor - 1)
          BY <1>1, <3>1, <4>1
        <5>2. Starts(one)[at] /\ one[at] = MSS
          BY <2>4, <2>5, <2>8, <5>1
        <5>3. QED
          BY <1>1, <2>6, <5>1, <5>2, NoMssBefore
      <4>2. QED
        BY <4>1
    <3>3. ~(cursor < at)
      BY <1>1, <2>7, <2>8, <3>1
    <3>4. at = cursor
      BY <1>1, <3>1, <3>2, <3>3
    <3>5. QED
      BY <2>2, <3>1, <3>4
  <2>9. FirstMssFits'
    BY <2>1, <2>8 DEF FirstMssFits, two
  <2>10. QED
    BY <1>1, <2>1, <2>9 DEF FirstInv, InStep
<1>8. CASE UNCHANGED vars
  BY <1>1, <1>8 DEF vars, FirstInv, InStep, FirstMssFits, End, HeaderLen
<1>9. QED
  BY <1>2, <1>3, <1>4, <1>5, <1>6, <1>7, <1>8 DEF Next

\* Whatever the option list, when the function returns Ok on a SYN the first MSS option of the
\* list announces no more than the target.
THEOREM FirstFits == Spec => []FirstMssFits
<1>1. Init => FirstInv
  BY InitInv DEF Init, FirstInv, InStep, FirstMssFits
<1>2. FirstInv => FirstMssFits
  BY DEF FirstInv
<1>3. QED
  BY <1>1, <1>2, FirstStep, PTL DEF Spec

-----------------------------------------------------------------------------
(* The data plane: sequences                                               *)

\* What is left of a sequence after its head was taken.
LEMMA RangeTail ==
    ASSUME NEW S, NEW s \in Seq(S), s # <<>>
    PROVE  Head(s) \in S /\ Tail(s) \in Seq(S) /\ Head(s) \in Range(s) /\ Range(Tail(s)) \subseteq Range(s)
BY DEF Range

\* What appending adds to a sequence.
LEMMA RangeAppend ==
    ASSUME NEW S, NEW s \in Seq(S), NEW x \in S
    PROVE  Append(s, x) \in Seq(S) /\ Range(Append(s, x)) = Range(s) \cup {x}
<1>1. Append(s, x) \in Seq(S) /\ Len(Append(s, x)) = Len(s) + 1 /\ Append(s, x)[Len(s) + 1] = x
      /\ \A i \in 1..Len(s) : Append(s, x)[i] = s[i]
  OBVIOUS
<1>2. Range(Append(s, x)) = {Append(s, x)[i] : i \in 1..Len(s) + 1}
  BY <1>1, RangeEquality
<1>3. Range(s) = {s[i] : i \in 1..Len(s)}
  BY RangeEquality
<1> QED BY <1>1, <1>2, <1>3

LEMMA RangeSingle == ASSUME NEW x PROVE Range(<<x>>) = {x}
BY DEF Range

LEMMA RangeEmpty == Range(<<>>) = {}
BY DEF Range

-----------------------------------------------------------------------------
(* The data plane: one tunnel                                              *)

\* What is on the wire.
LEMMA MessageType == \A kind \in Kinds : Message(kind) \in Wire
BY DEF Message, Wire

LEMMA DataType == \A p \in Packets : Data(p) \in Wire
BY DEF Data, Wire, Kinds

\* A frame handed to a Tunn is sealed or queued; nothing else comes out but the call for a session.
LEMMA EncapsulateHolds ==
    ASSUME NEW t \in Tunn, NEW p \in Packets
    PROVE  /\ Encapsulate(t, p).tunn \in Tunn /\ Encapsulate(t, p).tunn.seen = t.seen
           /\ Range(Encapsulate(t, p).tunn.queue) \subseteq Range(t.queue) \cup {p}
           /\ Encapsulate(t, p).net \in Seq(Wire) /\ Len(Encapsulate(t, p).net) <= 1
           /\ \A msg \in Range(Encapsulate(t, p).net) : msg \in {Data(p), Message("init")}
<1> DEFINE q == Append(t.queue, p)
           kept == [t EXCEPT !.queue = q, !.open = TRUE]
<1>1. t.queue \in Seq(Packets)
  BY DEF Tunn
<1>2. q \in Seq(Packets) /\ Range(q) = Range(t.queue) \cup {p}
  BY <1>1, RangeAppend
<1>3. kept \in Tunn /\ kept.seen = t.seen /\ kept.queue = q
  BY <1>2 DEF Tunn
<1>4. Data(p) \in Wire /\ Message("init") \in Wire
  BY MessageType, DataType DEF Kinds
<1>5. <<Data(p)>> \in Seq(Wire) /\ <<Message("init")>> \in Seq(Wire) /\ <<>> \in Seq(Wire)
  BY <1>4
<1> HIDE DEF q, kept
<1>6. CASE t.session = "current"
  BY <1>5, <1>6, RangeSingle DEF Encapsulate, Outcome
<1>7. CASE t.session # "current" /\ t.open
  <2>1. Encapsulate(t, p) = Outcome(kept, <<>>, NoPacket)
    BY <1>7 DEF Encapsulate, q, kept
  <2> QED BY <1>2, <1>3, <1>5, <2>1, RangeEmpty DEF Outcome
<1>8. CASE t.session # "current" /\ ~t.open
  <2>1. Encapsulate(t, p) = Outcome(kept, <<Message("init")>>, NoPacket)
    BY <1>8 DEF Encapsulate, q, kept
  <2> QED BY <1>2, <1>3, <1>5, <2>1, RangeSingle DEF Outcome
<1> QED BY <1>6, <1>7, <1>8

\* A Tunn gives a frame only for a datagram it has not seen, and marks it as seen.
LEMMA DecapsulateHolds ==
    ASSUME NEW t \in Tunn, NEW d \in Wire
    PROVE  LET o == Decapsulate(t, d) IN
           /\ o.tunn \in Tunn /\ o.tunn.queue = t.queue /\ t.seen \subseteq o.tunn.seen
           /\ o.net \in Seq(Wire) /\ o.frame \in Packets \cup {NoPacket}
           /\ o.frame # NoPacket => o.frame = d.pkt /\ d \notin t.seen /\ d \in o.tunn.seen
           /\ o.frame # NoPacket => d.kind # "init"
           /\ \A msg \in Range(o.net) : msg.kind # "data" /\ msg.pkt = NoPacket
<1> DEFINE o == Decapsulate(t, d)
<1>1. Message("resp") \in Wire /\ Message("keep") \in Wire
  BY MessageType DEF Kinds
<1>2. <<Message("resp")>> \in Seq(Wire) /\ <<Message("keep")>> \in Seq(Wire) /\ <<>> \in Seq(Wire)
  BY <1>1
<1>3. d.pkt \in Packets \cup {NoPacket}
  BY DEF Wire
<1>4. CASE o = Failure(t)
  BY <1>2, <1>4, RangeEmpty DEF Failure
<1>5. CASE o = Answer(t, d)
  <2> DEFINE u == [t EXCEPT !.session = "spare", !.seen = @ \cup {d}]
  <2>1. u \in Tunn /\ u.queue = t.queue /\ t.seen \subseteq u.seen
    BY DEF Tunn
  <2> HIDE DEF u
  <2>2. o = Outcome(u, <<Message("resp")>>, NoPacket)
    BY <1>5 DEF Answer, u
  <2> QED BY <1>2, <2>1, <2>2, RangeSingle DEF Outcome, Message
<1>6. CASE o = Confirm(t, d)
  <2> DEFINE u == [t EXCEPT !.session = "current", !.open = FALSE, !.seen = @ \cup {d}]
  <2>1. u \in Tunn /\ u.queue = t.queue /\ t.seen \subseteq u.seen
    BY DEF Tunn
  <2> HIDE DEF u
  <2>2. o = Outcome(u, <<Message("keep")>>, NoPacket)
    BY <1>6 DEF Confirm, u
  <2> QED BY <1>2, <2>1, <2>2, RangeSingle DEF Outcome, Message
<1>7. CASE d \notin t.seen /\ d.kind # "init" /\ o = Unseal(t, d)
  <2> DEFINE u == [t EXCEPT !.session = "current", !.seen = @ \cup {d}]
  <2>1. u \in Tunn /\ u.queue = t.queue /\ t.seen \subseteq u.seen /\ d \in u.seen
    BY DEF Tunn
  <2> HIDE DEF u
  <2>2. o = Outcome(u, <<>>, d.pkt)
    BY <1>7 DEF Unseal, u
  <2> QED BY <1>2, <1>3, <1>7, <2>1, <2>2, RangeEmpty DEF Outcome
<1>8. o = Failure(t) \/ o = Answer(t, d) \/ o = Confirm(t, d)
      \/ (d \notin t.seen /\ d.kind # "init" /\ o = Unseal(t, d))
  BY DEF Decapsulate
<1> HIDE DEF o
<1> QED BY <1>4, <1>5, <1>6, <1>7, <1>8 DEF o

\* The drain seals what is queued and nothing else.
LEMMA DrainHolds ==
    ASSUME NEW t \in Tunn
    PROVE  LET o == DrainPending(t) IN
           /\ o.tunn \in Tunn /\ o.tunn.seen = t.seen /\ Range(o.tunn.queue) \subseteq Range(t.queue)
           /\ o.net \in Seq(Wire)
           /\ \A msg \in Range(o.net) : msg.kind = "data" /\ msg.pkt \in Range(t.queue)
<1> DEFINE o == DrainPending(t)
           u == [t EXCEPT !.queue = <<>>]
           w == [i \in 1..Len(t.queue) |-> Data(t.queue[i])]
<1>1. t.queue \in Seq(Packets)
  BY DEF Tunn
<1>2. u \in Tunn /\ u.seen = t.seen /\ u.queue = <<>>
  <2>1. <<>> \in Seq(Packets)
    OBVIOUS
  <2> QED BY <2>1 DEF Tunn
<1>3. \A i \in 1..Len(t.queue) : t.queue[i] \in Packets /\ Data(t.queue[i]) \in Wire
  BY <1>1, DataType
<1>4. w \in Seq(Wire)
  BY <1>1, <1>3
<1>5. \A msg \in Range(w) : msg.kind = "data" /\ msg.pkt \in Range(t.queue)
  <2> SUFFICES ASSUME NEW i \in 1..Len(t.queue) PROVE Data(t.queue[i]).kind = "data" /\ Data(t.queue[i]).pkt \in Range(t.queue)
    BY DEF Range
  <2> QED BY <1>1 DEF Range, Data
<1> HIDE DEF u, w
<1>6. CASE t.session = "current"
  <2>1. o = Outcome(u, w, NoPacket)
    BY <1>6 DEF DrainPending, u, w
  <2> HIDE DEF o
  <2> QED BY <1>2, <1>4, <1>5, <2>1, RangeEmpty DEF Outcome, o
<1>7. CASE t.session # "current"
  <2>1. o = Outcome(t, <<>>, NoPacket) /\ <<>> \in Seq(Wire)
    BY <1>7 DEF DrainPending
  <2> HIDE DEF o
  <2> QED BY <2>1, RangeEmpty DEF Outcome, o
<1> QED BY <1>6, <1>7

\* What an end makes of a datagram.
LEMMA OpenHolds ==
    ASSUME NEW e \in Ends, NEW d \in Wire, wg[e].tunn \in Tunn
    PROVE  LET t == wg[e].tunn
               o == Open(e, d) IN
           /\ o.tunn \in Tunn /\ Range(o.tunn.queue) \subseteq Range(t.queue) /\ t.seen \subseteq o.tunn.seen
           /\ o.net \in Seq(Wire) /\ o.frame \in Packets \cup {NoPacket}
           /\ o.frame # NoPacket => o.frame = d.pkt /\ d \notin t.seen /\ d \in o.tunn.seen
           /\ \A msg \in Range(o.net) :
                  IF msg.kind = "data" THEN msg.pkt \in Range(t.queue) ELSE msg.pkt = NoPacket
<1> DEFINE t == wg[e].tunn
           o == Open(e, d)
           first == Decapsulate(t, d)
           rest == DrainPending(first.tunn)
<1>1. /\ first.tunn \in Tunn /\ first.tunn.queue = t.queue /\ t.seen \subseteq first.tunn.seen
      /\ first.net \in Seq(Wire) /\ first.frame \in Packets \cup {NoPacket}
      /\ first.frame # NoPacket => first.frame = d.pkt /\ d \notin t.seen /\ d \in first.tunn.seen
      /\ \A msg \in Range(first.net) : msg.kind # "data" /\ msg.pkt = NoPacket
  BY DecapsulateHolds
<1>2. /\ rest.tunn \in Tunn /\ rest.tunn.seen = first.tunn.seen
      /\ Range(rest.tunn.queue) \subseteq Range(first.tunn.queue) /\ rest.net \in Seq(Wire)
      /\ \A msg \in Range(rest.net) : msg.kind = "data" /\ msg.pkt \in Range(first.tunn.queue)
  BY <1>1, DrainHolds
<1>3. o = DecapOnly(t, d) \/ o = first \/ o = Outcome(rest.tunn, first.net \o rest.net, first.frame)
  BY DEF Open, DecapAndCollect
<1> HIDE DEF rest
<1>4. DecapOnly(t, d).tunn = first.tunn /\ DecapOnly(t, d).frame = first.frame /\ DecapOnly(t, d).net = <<>>
  <2>1. first = [tunn |-> first.tunn, net |-> first.net, frame |-> first.frame, failed |-> first.failed]
    BY DEF Decapsulate, Failure, Outcome, Answer, Confirm, Unseal
  <2> QED BY <2>1 DEF DecapOnly
<1>5. first.net \o rest.net \in Seq(Wire) /\ Range(first.net \o rest.net) = Range(first.net) \cup Range(rest.net)
  BY <1>1, <1>2, RangeConcatenation
<1> HIDE DEF first, o, t
<1>6. CASE o = DecapOnly(t, d)
  <2>1. o.tunn = first.tunn /\ o.frame = first.frame /\ o.net = <<>> /\ <<>> \in Seq(Wire)
    BY <1>4, <1>6
  <2> QED BY <1>1, <2>1, RangeEmpty DEF o, t
<1>7. CASE o = first
  BY <1>1, <1>7 DEF o, t
<1>8. CASE o = Outcome(rest.tunn, first.net \o rest.net, first.frame)
  BY <1>1, <1>2, <1>5, <1>8 DEF Outcome, o, t
<1> QED BY <1>3, <1>6, <1>7, <1>8

-----------------------------------------------------------------------------
(* The data plane: where packets are                                       *)

\* The packets that go in at end e, those that have, and a datagram of such a packet.
From(e) == IF e = "client" THEN Requests ELSE Replies
Gone(e) == From(e) \ pending
Carries(e, msg) == msg.pkt \in IF msg.kind = "data" THEN Gone(e) ELSE {NoPacket}

\* What waits in the client's channel, in a Tunn's queue or in a datagram went in at its end.
InFlight ==
    /\ \A p \in Range(channel.out) : p \in Gone("client")
    /\ \A e \in Ends :
        /\ \A p \in Range(wg[e].tunn.queue) : p \in Gone(e)
        /\ \A msg \in Range(wg[e].sealed) : Carries(e, msg)
        /\ \A msg \in Range(wg[e].opened.net) : Carries(e, msg)
    /\ \A d \in net.flying : Carries(Other(d.to), d.msg)

\* A packet that end e has unsealed.
Arrived(e, p) == p \in Gone(Other(e)) /\ Data(p) \in wg[e].tunn.seen
\* A packet that has come out of the tunnel at end e is in one place only, and e's Tunn refuses its
\* datagram from then on.
Once(s) == \A i, j \in DOMAIN s : s[i] = s[j] => i = j
Placed(e) ==
    /\ \A p \in Range(channel[e]) : Arrived(e, p) /\ p \notin Range(written[e])
    /\ \A p \in Range(written[e]) : Arrived(e, p)
    /\ Once(channel[e])
    /\ wg[e].opened.frame # NoPacket =>
        /\ Arrived(e, wg[e].opened.frame)
        /\ wg[e].opened.frame \notin Range(channel[e]) \cup Range(written[e])

\* The inductive invariant of the two pipes.
PipeInv == PlaneTypeOK /\ InFlight /\ \A e \in Ends : Placed(e)

\* A channel never gives the same packet twice.
LEMMA OnceTail ==
    ASSUME NEW S, NEW s \in Seq(S), s # <<>>, Once(s)
    PROVE  Once(Tail(s)) /\ Head(s) \notin Range(Tail(s))
<1>1. \A i \in DOMAIN Tail(s) : i + 1 \in DOMAIN s /\ i \in Nat /\ i # 0 /\ Tail(s)[i] = s[i + 1]
  OBVIOUS
<1>2. s[1] = Head(s) /\ 1 \in DOMAIN s
  OBVIOUS
<1> QED BY <1>1, <1>2 DEF Once, Range

LEMMA OnceAppend ==
    ASSUME NEW S, NEW s \in Seq(S), NEW x \in S, x \notin Range(s), Once(s)
    PROVE  Once(Append(s, x))
<1>1. \A i \in DOMAIN Append(s, x) : IF i = Len(s) + 1 THEN Append(s, x)[i] = x
                                     ELSE i \in DOMAIN s /\ Append(s, x)[i] = s[i]
  OBVIOUS
<1> QED BY <1>1 DEF Once, Range

\* The client's device is read: the packet goes in, whether the channel has room or not.
LEMMA ReadPacketStep == PipeInv /\ ReadPacket => PipeInv'
<1> SUFFICES ASSUME PipeInv, ReadPacket PROVE PipeInv'
  OBVIOUS
<1>1. PICK p \in pending \cap Requests :
        /\ pending' = pending \ {p}
        /\ channel' = IF Full("out") THEN channel ELSE [channel EXCEPT !.out = Append(@, p)]
  BY DEF ReadPacket
<1>2. UNCHANGED <<setup, wg, net, written, task, cancelled, faults>>
  BY DEF ReadPacket
<1>3. PlaneTypeOK /\ p \in Packets /\ channel.out \in Seq(Packets) /\ Len(channel.out) \in Nat
  BY DEF PipeInv, PlaneTypeOK
<1>4. Append(channel.out, p) \in Seq(Packets) /\ Range(Append(channel.out, p)) = Range(channel.out) \cup {p}
      /\ Len(Append(channel.out, p)) = Len(channel.out) + 1
  BY <1>3, RangeAppend
<1>5. \A e : Gone(e) \subseteq Gone(e)'
  BY <1>1 DEF Gone, From
<1>6. channel' \in [{"out", "client", "exit"} -> Seq(Packets)] /\ channel'.client = channel.client
      /\ channel'.exit = channel.exit /\ channel'.out \in {channel.out, Append(channel.out, p)}
      /\ (channel'.out = channel.out \/ Len(channel.out) < Bound)
  <2>1. channel \in [{"out", "client", "exit"} -> Seq(Packets)]
    BY <1>3 DEF PlaneTypeOK
  <2>2. ~Full("out") => Len(channel.out) < Bound
    BY <1>3, BoundAssumption DEF Full
  <2> QED BY <1>1, <1>4, <2>1, <2>2
<1>7. PlaneTypeOK'
  <2>1. \A c \in DOMAIN channel' : Len(channel'[c]) <= Bound
    BY <1>3, <1>4, <1>6, BoundAssumption DEF PlaneTypeOK
  <2> QED BY <1>1, <1>2, <1>3, <1>6, <2>1 DEF PlaneTypeOK
<1>8. InFlight'
  <2>1. \A q \in Range(channel'.out) : q \in Gone("client")'
    BY <1>1, <1>4, <1>5, <1>6 DEF PipeInv, InFlight, Gone, From
  <2> QED BY <1>2, <1>5, <2>1 DEF PipeInv, InFlight, Carries
<1>9. \A e \in Ends : Placed(e)'
  <2>1. \A e \in Ends : channel'[e] = channel[e]
    BY <1>6 DEF Ends
  <2> QED BY <1>2, <1>5, <2>1 DEF PipeInv, Placed, Arrived
<1> QED BY <1>7, <1>8, <1>9 DEF PipeInv

\* A device is written: the packet leaves its channel, where it was only once.
LEMMA WritePacketStep == ASSUME NEW e \in Ends PROVE PipeInv /\ WritePacket(e) => PipeInv'
<1> SUFFICES ASSUME PipeInv, WritePacket(e) PROVE PipeInv'
  OBVIOUS
<1> DEFINE p == Head(channel[e])
<1>1. /\ channel[e] # <<>> /\ channel' = [channel EXCEPT ![e] = Tail(@)]
      /\ written' \in {written, [written EXCEPT ![e] = Append(@, p)]}
      /\ UNCHANGED <<setup, pending, wg, net, cancelled>>
  BY DEF WritePacket
<1>2. task' \in [Tasks -> {"running", "ended", "failed"}] /\ faults' \in 0..MaxFaults
  <2>1. task \in [Tasks -> {"running", "ended", "failed"}] /\ faults \in 0..MaxFaults
    BY DEF PipeInv, PlaneTypeOK
  <2>2. UNCHANGED <<task, faults>> \/ (Fault /\ Stops(Writer(e), "failed"))
    BY DEF WritePacket
  <2>3. Fault => faults' \in 0..MaxFaults
    BY <2>1, BoundAssumption DEF Fault
  <2> QED BY <2>1, <2>2, <2>3 DEF Stops
<1>3. /\ e \in {"out", "client", "exit"} /\ channel[e] \in Seq(Packets) /\ written[e] \in Seq(Packets)
      /\ channel \in [{"out", "client", "exit"} -> Seq(Packets)] /\ written \in [Ends -> Seq(Packets)]
  BY DEF PipeInv, PlaneTypeOK, Ends
<1>4. /\ p \in Packets /\ Tail(channel[e]) \in Seq(Packets) /\ p \in Range(channel[e])
      /\ Range(Tail(channel[e])) \subseteq Range(channel[e]) /\ Len(Tail(channel[e])) = Len(channel[e]) - 1
  BY <1>1, <1>3, RangeTail
<1>5. Append(written[e], p) \in Seq(Packets) /\ Range(Append(written[e], p)) = Range(written[e]) \cup {p}
  BY <1>3, <1>4, RangeAppend
<1> HIDE DEF p
<1>6. channel' \in [{"out", "client", "exit"} -> Seq(Packets)] /\ channel'[e] = Tail(channel[e])
      /\ \A c \in {"out", "client", "exit"} : c # e => channel'[c] = channel[c]
  BY <1>1, <1>3, <1>4
<1>7. /\ written' \in [Ends -> Seq(Packets)] /\ Range(written'[e]) \subseteq Range(written[e]) \cup {p}
      /\ \A f \in Ends : f # e => written'[f] = written[f]
  BY <1>1, <1>3, <1>5
<1>8. PlaneTypeOK'
  <2>1. \A c \in {"out", "client", "exit"} : Len(channel[c]) <= Bound /\ Len(channel[c]) \in Nat
    BY <1>3 DEF PipeInv, PlaneTypeOK
  <2>2. ASSUME NEW c \in DOMAIN channel' PROVE Len(channel'[c]) <= Bound
    <3>1. c \in {"out", "client", "exit"}
      BY <1>6
    <3>2. CASE c # e
      BY <1>6, <2>1, <3>1, <3>2
    <3>3. CASE c = e
      BY <1>3, <1>4, <1>6, <2>1, <3>3, BoundAssumption
    <3> QED BY <3>2, <3>3
  <2> QED BY <1>1, <1>2, <1>6, <1>7, <2>2 DEF PipeInv, PlaneTypeOK
<1>9. InFlight'
  <2>1. channel'.out = channel.out
    BY <1>6 DEF Ends
  <2> QED BY <1>1, <2>1 DEF PipeInv, InFlight, Carries, Gone
<1>10. \A f \in Ends : Placed(f)'
  <2> SUFFICES ASSUME NEW f \in Ends PROVE Placed(f)'
    OBVIOUS
  <2>1. Placed(f) /\ \A q : Arrived(f, q)' <=> Arrived(f, q)
    BY <1>1 DEF PipeInv, Arrived, Gone
  <2>2. CASE f # e
    <3>1. channel'[f] = channel[f] /\ written'[f] = written[f]
      BY <1>6, <1>7, <2>2 DEF Ends
    <3> QED BY <1>1, <2>1, <3>1 DEF Placed
  <2>3. CASE f = e
    <3>1. Once(channel'[e]) /\ p \notin Range(channel'[e])
      BY <1>1, <1>3, <1>6, <2>1, <2>3, OnceTail DEF Placed, p
    <3>2. /\ Range(channel'[e]) \subseteq Range(channel[e]) /\ p \in Range(channel[e])
          /\ Range(written'[e]) \subseteq Range(written[e]) \cup {p}
      BY <1>4, <1>6, <1>7
    <3> QED BY <1>1, <2>1, <2>3, <3>1, <3>2 DEF Placed
  <2> QED BY <2>2, <2>3
<1> QED BY <1>8, <1>9, <1>10 DEF PipeInv

\* Whatever keeps the packets where they are.
LEMMA IdleStep ==
    PipeInv /\ PlaneTypeOK' /\ UNCHANGED <<pending, channel, wg, written, net>> => PipeInv'
BY DEF PipeInv, InFlight, Placed, Carries, Arrived, Gone

\* The steps of the run loops that move no packet.
LEMMA TaskStep ==
    ASSUME PipeInv, ReadFails \/ (\E t \in Loops : LoopCancelled(t)) \/ Cancel
    PROVE  PipeInv'
<1>1. UNCHANGED <<setup, pending, channel, wg, written, net>>
  BY DEF ReadFails, LoopCancelled, Cancel
<1>2. faults' \in 0..MaxFaults /\ cancelled' \in BOOLEAN
  <2>1. faults \in 0..MaxFaults /\ cancelled \in BOOLEAN
    BY DEF PipeInv, PlaneTypeOK
  <2>2. faults' = faults \/ Fault
    BY DEF ReadFails, LoopCancelled, Cancel
  <2>3. Fault => faults' \in 0..MaxFaults
    BY <2>1, BoundAssumption DEF Fault
  <2>4. cancelled' \in BOOLEAN
    BY <2>1 DEF ReadFails, LoopCancelled, Cancel
  <2> QED BY <2>1, <2>2, <2>3, <2>4
<1>3. task' \in [Tasks -> {"running", "ended", "failed"}]
  <2>1. task \in [Tasks -> {"running", "ended", "failed"}]
    BY DEF PipeInv, PlaneTypeOK
  <2> QED BY <2>1 DEF ReadFails, LoopCancelled, Cancel, Stops, Loops, Tasks
<1>4. PlaneTypeOK'
  BY <1>1, <1>2, <1>3 DEF PipeInv, PlaneTypeOK
<1> QED BY <1>1, <1>4, IdleStep

\* The loop that ends on a closed channel drops the packet it has read.
LEMMA ReadClosedStep == PipeInv /\ ReadClosed => PipeInv'
<1> SUFFICES ASSUME PipeInv, ReadClosed PROVE PipeInv'
  OBVIOUS
<1>1. /\ pending' \subseteq pending /\ UNCHANGED <<setup, channel, wg, net, written, cancelled, faults>>
      /\ Stops("outbound", "ended")
  BY DEF ReadClosed
<1>2. task' \in [Tasks -> {"running", "ended", "failed"}]
  BY <1>1 DEF PipeInv, PlaneTypeOK, Stops
<1>3. PlaneTypeOK'
  BY <1>1, <1>2 DEF PipeInv, PlaneTypeOK
<1>4. \A e : Gone(e) \subseteq Gone(e)'
  BY <1>1 DEF Gone, From
<1>5. InFlight'
  BY <1>1, <1>4 DEF PipeInv, InFlight, Carries
<1>6. \A e \in Ends : Placed(e)'
  BY <1>1, <1>4 DEF PipeInv, Placed, Arrived
<1> QED BY <1>3, <1>5, <1>6 DEF PipeInv

\* The stage that goes away takes the packets of its channel along.
LEMMA StageGoneStep == PipeInv /\ StageGone => PipeInv'
<1> SUFFICES ASSUME PipeInv, StageGone PROVE PipeInv'
  OBVIOUS
<1>1. /\ channel' = [channel EXCEPT !.out = <<>>] /\ Stops("stage", "ended")
      /\ UNCHANGED <<setup, pending, wg, net, written, cancelled, faults>>
  BY DEF StageGone
<1>2. task' \in [Tasks -> {"running", "ended", "failed"}]
  BY <1>1 DEF PipeInv, PlaneTypeOK, Stops
<1>3. channel \in [{"out", "client", "exit"} -> Seq(Packets)] /\ <<>> \in Seq(Packets) /\ Len(<<>>) = 0
  BY DEF PipeInv, PlaneTypeOK
<1>4. /\ channel' \in [{"out", "client", "exit"} -> Seq(Packets)] /\ channel'.out = <<>>
      /\ \A c \in Ends : channel'[c] = channel[c]
  BY <1>1, <1>3 DEF Ends
<1>5. ASSUME NEW c \in DOMAIN channel' PROVE Len(channel'[c]) <= Bound
  <2>1. c \in {"out", "client", "exit"} /\ Len(channel[c]) <= Bound
    BY <1>3, <1>4 DEF PipeInv, PlaneTypeOK
  <2>2. channel'[c] = <<>> \/ channel'[c] = channel[c]
    BY <1>4, <2>1 DEF Ends
  <2> QED BY <1>3, <2>1, <2>2, BoundAssumption
<1>6. PlaneTypeOK'
  BY <1>1, <1>2, <1>4, <1>5 DEF PipeInv, PlaneTypeOK
<1>7. InFlight'
  BY <1>1, <1>4, RangeEmpty DEF PipeInv, InFlight, Carries, Gone
<1>8. \A e \in Ends : Placed(e)'
  BY <1>1, <1>4 DEF PipeInv, Placed, Arrived, Gone
<1> QED BY <1>6, <1>7, <1>8 DEF PipeInv

\* Sealing keeps the frame in the queue of the Tunn or in the datagram.
LEMMA SealHolds ==
    ASSUME PlaneTypeOK, NEW e \in Ends, NEW p \in Packets, Seal(e, p)
    PROVE  /\ wg' \in [Ends -> Wg]
           /\ \A f \in Ends : f # e => wg'[f] = wg[f]
           /\ wg'[e].tunn.seen = wg[e].tunn.seen /\ wg'[e].opened = wg[e].opened
           /\ Range(wg'[e].tunn.queue) \subseteq Range(wg[e].tunn.queue) \cup {p}
           /\ Len(wg'[e].sealed) <= 1
           /\ \A msg \in Range(wg'[e].sealed) : msg \in {Data(p), Message("init")}
<1> DEFINE o == Encapsulate(wg[e].tunn, p)
<1>1. wg \in [Ends -> Wg] /\ wg[e] \in Wg /\ wg[e].tunn \in Tunn
  BY DEF PlaneTypeOK, Wg
<1>2. /\ o.tunn \in Tunn /\ o.tunn.seen = wg[e].tunn.seen
      /\ Range(o.tunn.queue) \subseteq Range(wg[e].tunn.queue) \cup {p}
      /\ o.net \in Seq(Wire) /\ Len(o.net) <= 1
      /\ \A msg \in Range(o.net) : msg \in {Data(p), Message("init")}
  BY <1>1, EncapsulateHolds
<1>3. wg' = [wg EXCEPT ![e].tunn = o.tunn, ![e].sealed = o.net]
  BY DEF Seal
<1> HIDE DEF o
<1>4. wg'[e] = [wg[e] EXCEPT !.tunn = o.tunn, !.sealed = o.net] /\ \A f \in Ends : f # e => wg'[f] = wg[f]
  BY <1>1, <1>3
<1>5. wg' = [wg EXCEPT ![e] = wg'[e]]
  BY <1>1, <1>3, <1>4
<1>6. wg'[e] \in Wg /\ wg'[e].tunn = o.tunn /\ wg'[e].sealed = o.net /\ wg'[e].opened = wg[e].opened
  BY <1>1, <1>2, <1>4 DEF Wg
<1> QED BY <1>1, <1>2, <1>4, <1>5, <1>6

\* A frame that the end e has taken waits in its Tunn or in its datagram.
LEMMA SealStep ==
    ASSUME PipeInv, NEW e \in Ends, NEW p \in Packets, Seal(e, p),
           p \in Gone(e)', pending' \subseteq pending, UNCHANGED <<setup, net, written, task, cancelled, faults>>,
           channel' \in [{"out", "client", "exit"} -> Seq(Packets)],
           \A c \in DOMAIN channel' : Len(channel'[c]) <= Bound,
           \A f \in Ends : channel'[f] = channel[f],
           Range(channel'.out) \subseteq Range(channel.out)
    PROVE  PipeInv'
<1>1. /\ wg' \in [Ends -> Wg]
      /\ \A f \in Ends : f # e => wg'[f] = wg[f]
      /\ wg'[e].tunn.seen = wg[e].tunn.seen /\ wg'[e].opened = wg[e].opened
      /\ Range(wg'[e].tunn.queue) \subseteq Range(wg[e].tunn.queue) \cup {p}
      /\ Len(wg'[e].sealed) <= 1
      /\ \A msg \in Range(wg'[e].sealed) : msg \in {Data(p), Message("init")}
  BY SealHolds DEF PipeInv
<1>2. \A f : Gone(f) \subseteq Gone(f)'
  BY DEF Gone, From
<1>3. PlaneTypeOK'
  BY <1>1 DEF PipeInv, PlaneTypeOK
<1>4. InFlight'
  <2>1. \A q \in Range(channel'.out) : q \in Gone("client")'
    BY <1>2 DEF PipeInv, InFlight
  <2>2. ASSUME NEW f \in Ends
        PROVE /\ \A q \in Range(wg'[f].tunn.queue) : q \in Gone(f)'
              /\ \A msg \in Range(wg'[f].sealed) : Carries(f, msg)'
              /\ \A msg \in Range(wg'[f].opened.net) : Carries(f, msg)'
    <3>1. /\ \A q \in Range(wg[f].tunn.queue) : q \in Gone(f)'
          /\ \A msg \in Range(wg[f].sealed) \cup Range(wg[f].opened.net) : Carries(f, msg)'
      BY <1>2 DEF PipeInv, InFlight, Carries
    <3>2. CASE f # e
      BY <1>1, <3>1, <3>2
    <3>3. CASE f = e
      <4>1. Carries(e, Data(p))' /\ Carries(e, Message("init"))'
        BY DEF Carries, Data, Message
      <4> QED BY <1>1, <3>1, <3>3, <4>1
    <3> QED BY <3>2, <3>3
  <2>3. \A d \in net'.flying : Carries(Other(d.to), d.msg)'
    BY <1>2 DEF PipeInv, InFlight, Carries
  <2> QED BY <2>1, <2>2, <2>3 DEF InFlight
<1>5. \A f \in Ends : Placed(f)'
  <2> SUFFICES ASSUME NEW f \in Ends PROVE Placed(f)'
    OBVIOUS
  <2>1. Placed(f) /\ wg'[f].tunn.seen = wg[f].tunn.seen /\ wg'[f].opened = wg[f].opened
    BY <1>1 DEF PipeInv
  <2>2. \A q : Arrived(f, q) => Arrived(f, q)'
    BY <1>2, <2>1 DEF Arrived
  <2> QED BY <2>1, <2>2 DEF Placed
<1> QED BY <1>3, <1>4, <1>5 DEF PipeInv

\* A request leaves the channel for the client's Tunn.
LEMMA SealRequestStep == PipeInv /\ SealRequest => PipeInv'
<1> SUFFICES ASSUME PipeInv, SealRequest PROVE PipeInv'
  OBVIOUS
<1> DEFINE p == Head(channel.out)
<1>1. /\ channel.out # <<>> /\ Seal("client", p) /\ channel' = [channel EXCEPT !.out = Tail(@)]
      /\ UNCHANGED <<setup, pending, net, written, task, cancelled, faults>>
  BY DEF SealRequest
<1>2. channel \in [{"out", "client", "exit"} -> Seq(Packets)] /\ channel.out \in Seq(Packets)
  BY DEF PipeInv, PlaneTypeOK
<1>3. /\ p \in Packets /\ Tail(channel.out) \in Seq(Packets) /\ p \in Range(channel.out)
      /\ Range(Tail(channel.out)) \subseteq Range(channel.out) /\ Len(Tail(channel.out)) = Len(channel.out) - 1
  BY <1>1, <1>2, RangeTail
<1> HIDE DEF p
<1>4. p \in Gone("client")'
  BY <1>1, <1>3 DEF PipeInv, InFlight, Gone
<1>5. /\ channel' \in [{"out", "client", "exit"} -> Seq(Packets)] /\ channel'.out = Tail(channel.out)
      /\ \A c \in Ends : channel'[c] = channel[c]
  BY <1>1, <1>2, <1>3 DEF Ends
<1>6. ASSUME NEW c \in DOMAIN channel' PROVE Len(channel'[c]) <= Bound
  <2>1. c \in {"out", "client", "exit"} /\ Len(channel[c]) <= Bound /\ Len(channel[c]) \in Nat
    BY <1>2, <1>5 DEF PipeInv, PlaneTypeOK
  <2>2. CASE c \in Ends
    BY <1>5, <2>1, <2>2
  <2>3. CASE c = "out"
    BY <1>3, <1>5, <2>1, <2>3, BoundAssumption
  <2> QED BY <2>1, <2>2, <2>3 DEF Ends
<1>7. "client" \in Ends
  BY DEF Ends
<1> QED BY <1>1, <1>3, <1>4, <1>5, <1>6, <1>7, SealStep

\* A reply goes in at the exit.
LEMMA SealReplyStep == PipeInv /\ SealReply => PipeInv'
<1> SUFFICES ASSUME PipeInv, SealReply PROVE PipeInv'
  OBVIOUS
<1>1. PICK p \in pending \cap Replies : Seal("exit", p) /\ pending' = pending \ {p}
  BY DEF SealReply
<1>2. UNCHANGED <<setup, channel, net, written, task, cancelled, faults>>
  BY DEF SealReply
<1>3. p \in Packets /\ p \in Gone("exit")' /\ "exit" \in Ends
  BY <1>1, PacketsAssumption DEF Gone, From, Ends
<1>4. /\ channel' \in [{"out", "client", "exit"} -> Seq(Packets)]
      /\ \A c \in DOMAIN channel' : Len(channel'[c]) <= Bound
  BY <1>2 DEF PipeInv, PlaneTypeOK
<1> QED BY <1>1, <1>2, <1>3, <1>4, SealStep

\* The steps between a tunnel and the network: the end e changes, plaintext stays where it is.
LEMMA WireStep ==
    ASSUME PipeInv, PlaneTypeOK', NEW e \in Ends, UNCHANGED <<pending, channel, written>>,
           \A f \in Ends : f # e => wg'[f] = wg[f],
           wg[e].tunn.seen \subseteq wg'[e].tunn.seen,
           \A p \in Range(wg'[e].tunn.queue) : p \in Gone(e),
           \A msg \in Range(wg'[e].sealed) \cup Range(wg'[e].opened.net) : Carries(e, msg),
           \A d \in net'.flying : Carries(Other(d.to), d.msg),
           wg'[e].opened.frame # NoPacket =>
               /\ Arrived(e, wg[e].opened.frame)'
               /\ wg'[e].opened.frame \notin Range(channel[e]) \cup Range(written[e])
    PROVE  PipeInv'
<1>1. \A f : Gone(f)' = Gone(f) /\ \A msg : Carries(f, msg)' <=> Carries(f, msg)
  BY DEF Gone, Carries
<1>2. InFlight'
  <2>1. ASSUME NEW f \in Ends
        PROVE /\ \A q \in Range(wg'[f].tunn.queue) : q \in Gone(f)'
              /\ \A msg \in Range(wg'[f].sealed) : Carries(f, msg)'
              /\ \A msg \in Range(wg'[f].opened.net) : Carries(f, msg)'
    BY <1>1 DEF PipeInv, InFlight
  <2>2. \A q \in Range(channel'.out) : q \in Gone("client")'
    BY <1>1 DEF PipeInv, InFlight
  <2>3. \A d \in net'.flying : Carries(Other(d.to), d.msg)'
    BY <1>1
  <2> QED BY <2>1, <2>2, <2>3 DEF InFlight
<1>3. \A f \in Ends : Placed(f)'
  <2> SUFFICES ASSUME NEW f \in Ends PROVE Placed(f)'
    OBVIOUS
  <2>1. Placed(f) /\ wg[f].tunn.seen \subseteq wg'[f].tunn.seen
    BY DEF PipeInv
  <2>2. \A q : Arrived(f, q) => Arrived(f, q)'
    BY <1>1, <2>1 DEF Arrived
  <2>3. wg'[f].opened.frame # NoPacket =>
          /\ Arrived(f, wg[f].opened.frame)'
          /\ wg'[f].opened.frame \notin Range(channel[f]) \cup Range(written[f])
    <3>1. CASE f = e
      BY <3>1
    <3>2. CASE f # e
      BY <2>1, <2>2, <3>2 DEF Placed
    <3> QED BY <3>1, <3>2
  <2> QED BY <2>1, <2>2, <2>3 DEF Placed
<1> QED BY <1>2, <1>3 DEF PipeInv

\* The network of PlaneTypeOK.
NetType == [flying : SUBSET [to : Ends, port : {0, 1}, msg : Wire], lost : SUBSET Wire, port : {0, 1}]

\* The bound on faults is kept.
LEMMA FaultHolds == faults \in 0..MaxFaults /\ Fault => faults' \in 0..MaxFaults
BY BoundAssumption DEF Fault

\* What is sent flies to the other end or is lost.
LEMMA LaunchHolds ==
    ASSUME PipeInv, NEW e \in Ends, NEW msg \in Wire, Carries(e, msg), Launch(e, msg)
    PROVE  /\ net' \in NetType /\ faults' \in 0..MaxFaults
           /\ \A d \in net'.flying : Carries(Other(d.to), d.msg)
<1>1. net \in NetType /\ faults \in 0..MaxFaults
  BY DEF PipeInv, PlaneTypeOK, NetType
<1>2. \A d \in net.flying : Carries(Other(d.to), d.msg)
  BY DEF PipeInv, InFlight
<1>3. /\ Datagram(e, msg) \in [to : Ends, port : {0, 1}, msg : Wire]
      /\ Other(Datagram(e, msg).to) = e /\ Datagram(e, msg).msg = msg
  BY <1>1 DEF Datagram, Other, Ends, NetType
<1>4. CASE net' = [net EXCEPT !.flying = @ \cup {Datagram(e, msg)}] /\ UNCHANGED faults
  <2>1. net' = [flying |-> net.flying \cup {Datagram(e, msg)}, lost |-> net.lost, port |-> net.port]
    BY <1>1, <1>4 DEF NetType
  <2> QED BY <1>1, <1>2, <1>3, <1>4, <2>1 DEF NetType
<1>5. CASE net' = [net EXCEPT !.lost = @ \cup {msg}] /\ Fault
  <2>1. net' = [flying |-> net.flying, lost |-> net.lost \cup {msg}, port |-> net.port]
    BY <1>1, <1>5 DEF NetType
  <2> QED BY <1>1, <1>2, <1>5, <2>1, FaultHolds DEF NetType
<1> QED BY <1>4, <1>5 DEF Launch

\* The datagram of pump_peer_to_socket goes out.
LEMMA SendSealedStep == ASSUME NEW e \in Ends PROVE PipeInv /\ SendSealed(e) => PipeInv'
<1> SUFFICES ASSUME PipeInv, SendSealed(e) PROVE PipeInv'
  OBVIOUS
<1>1. /\ wg[e].sealed # <<>> /\ Launch(e, Head(wg[e].sealed)) /\ wg' = [wg EXCEPT ![e].sealed = <<>>]
      /\ UNCHANGED <<setup, pending, channel, written, task, cancelled>>
  BY DEF SendSealed
<1>2. wg \in [Ends -> Wg] /\ wg[e] \in Wg /\ wg[e].sealed \in Seq(Wire)
  BY DEF PipeInv, PlaneTypeOK, Wg
<1>3. Head(wg[e].sealed) \in Wire /\ Carries(e, Head(wg[e].sealed))
  BY <1>1, <1>2, RangeTail DEF PipeInv, InFlight
<1>4. /\ net' \in NetType /\ faults' \in 0..MaxFaults
      /\ \A d \in net'.flying : Carries(Other(d.to), d.msg)
  BY <1>1, <1>3, LaunchHolds
<1>5. <<>> \in Seq(Wire) /\ Len(<<>>) = 0
  OBVIOUS
<1>6. /\ wg'[e] = [wg[e] EXCEPT !.sealed = <<>>] /\ wg' = [wg EXCEPT ![e] = wg'[e]]
      /\ \A f \in Ends : f # e => wg'[f] = wg[f]
  BY <1>1, <1>2
<1>7. /\ wg'[e] \in Wg /\ wg'[e].tunn = wg[e].tunn /\ wg'[e].sealed = <<>>
      /\ wg'[e].opened = wg[e].opened
  BY <1>2, <1>5, <1>6 DEF Wg
<1>8. PlaneTypeOK'
  BY <1>1, <1>2, <1>4, <1>5, <1>6, <1>7 DEF PipeInv, PlaneTypeOK, NetType
<1>9. Placed(e) /\ \A q : Arrived(e, q)' <=> Arrived(e, q)
  BY <1>1, <1>7 DEF PipeInv, Arrived, Gone
<1>10. /\ \A q \in Range(wg'[e].tunn.queue) : q \in Gone(e)
       /\ \A msg \in Range(wg'[e].sealed) \cup Range(wg'[e].opened.net) : Carries(e, msg)
  BY <1>7, RangeEmpty DEF PipeInv, InFlight
<1>11. wg'[e].opened.frame # NoPacket =>
         /\ Arrived(e, wg[e].opened.frame)'
         /\ wg'[e].opened.frame \notin Range(channel[e]) \cup Range(written[e])
  BY <1>7, <1>9 DEF Placed
<1> QED BY <1>1, <1>4, <1>6, <1>7, <1>8, <1>10, <1>11, WireStep

\* The datagrams of pump_socket_to_peer go out, or are dropped with the frame.
LEMMA SendCollectedStep == ASSUME NEW e \in Ends PROVE PipeInv /\ SendCollected(e) => PipeInv'
<1> SUFFICES ASSUME PipeInv, SendCollected(e) PROVE PipeInv'
  OBVIOUS
<1>1. wg[e].opened.net # <<>> /\ UNCHANGED <<setup, pending, channel, written, task, cancelled>>
  BY DEF SendCollected
<1>2. /\ wg \in [Ends -> Wg] /\ wg[e] \in Wg /\ wg[e].opened.net \in Seq(Wire)
      /\ wg[e].opened.frame \in Packets \cup {NoPacket}
  BY DEF PipeInv, PlaneTypeOK, Wg
<1>3. /\ Head(wg[e].opened.net) \in Wire /\ Carries(e, Head(wg[e].opened.net))
      /\ Tail(wg[e].opened.net) \in Seq(Wire)
      /\ Range(Tail(wg[e].opened.net)) \subseteq Range(wg[e].opened.net)
  BY <1>1, <1>2, RangeTail DEF PipeInv, InFlight
<1> DEFINE rest == [net |-> Tail(wg[e].opened.net), frame |-> wg[e].opened.frame]
<1>4. CASE Launch(e, Head(wg[e].opened.net)) /\ wg' = [wg EXCEPT ![e].opened.net = Tail(@)]
  <2>1. /\ net' \in NetType /\ faults' \in 0..MaxFaults
        /\ \A d \in net'.flying : Carries(Other(d.to), d.msg)
    BY <1>3, <1>4, LaunchHolds
  <2>2. /\ wg'[e] = [wg[e] EXCEPT !.opened = rest] /\ wg' = [wg EXCEPT ![e] = wg'[e]]
        /\ \A f \in Ends : f # e => wg'[f] = wg[f]
    <3>1. wg' = [wg EXCEPT ![e] = [wg[e] EXCEPT !.opened = [wg[e].opened EXCEPT !.net = Tail(@)]]]
      BY <1>4
    <3>2. [wg[e].opened EXCEPT !.net = Tail(@)] = rest
      <4>1. wg[e].opened \in [net : Seq(Wire), frame : Packets \cup {NoPacket}]
        BY <1>2 DEF Wg
      <4>2. \A tail : [wg[e].opened EXCEPT !.net = tail] = [net |-> tail, frame |-> wg[e].opened.frame]
        BY <4>1
      <4> QED BY <4>2
    <3> HIDE DEF rest
    <3> QED BY <1>2, <3>1, <3>2
  <2>3. rest \in [net : Seq(Wire), frame : Packets \cup {NoPacket}]
    BY <1>2, <1>3
  <2>4. rest.net = Tail(wg[e].opened.net) /\ rest.frame = wg[e].opened.frame
    OBVIOUS
  <2> HIDE DEF rest
  <2>5. /\ wg'[e] \in Wg /\ wg'[e].tunn = wg[e].tunn /\ wg'[e].sealed = wg[e].sealed
        /\ wg'[e].opened = rest
    BY <1>2, <2>2, <2>3 DEF Wg
  <2>6. PlaneTypeOK'
    BY <1>1, <1>2, <2>1, <2>2, <2>5 DEF PipeInv, PlaneTypeOK, NetType
  <2>7. Placed(e) /\ \A q : Arrived(e, q)' <=> Arrived(e, q)
    BY <1>1, <2>5 DEF PipeInv, Arrived, Gone
  <2>8. /\ \A q \in Range(wg'[e].tunn.queue) : q \in Gone(e)
        /\ \A msg \in Range(wg'[e].sealed) \cup Range(wg'[e].opened.net) : Carries(e, msg)
    BY <1>3, <2>4, <2>5 DEF PipeInv, InFlight
  <2>9. wg'[e].opened.frame # NoPacket =>
          /\ Arrived(e, wg[e].opened.frame)'
          /\ wg'[e].opened.frame \notin Range(channel[e]) \cup Range(written[e])
    BY <2>4, <2>5, <2>7 DEF Placed
  <2> QED BY <1>1, <2>1, <2>2, <2>5, <2>6, <2>8, <2>9, WireStep
<1>5. CASE /\ Fault /\ net' = [net EXCEPT !.lost = @ \cup Range(wg[e].opened.net)]
           /\ wg' = [wg EXCEPT ![e].opened = Nothing]
  <2>1. net \in NetType /\ faults \in 0..MaxFaults /\ Range(wg[e].opened.net) \subseteq Wire
    BY <1>2, RangeOfSeq DEF PipeInv, PlaneTypeOK, NetType
  <2>2. net' \in NetType /\ net'.flying = net.flying /\ faults' \in 0..MaxFaults
    BY <1>5, <2>1, FaultHolds DEF NetType
  <2>3. /\ wg'[e] = [wg[e] EXCEPT !.opened = Nothing] /\ wg' = [wg EXCEPT ![e] = wg'[e]]
        /\ \A f \in Ends : f # e => wg'[f] = wg[f]
    BY <1>2, <1>5
  <2>4. /\ Nothing \in [net : Seq(Wire), frame : Packets \cup {NoPacket}] /\ Nothing.net = <<>>
        /\ Nothing.frame = NoPacket
    BY DEF Nothing
  <2>5. /\ wg'[e] \in Wg /\ wg'[e].tunn = wg[e].tunn /\ wg'[e].sealed = wg[e].sealed
        /\ wg'[e].opened = Nothing
    BY <1>2, <2>3, <2>4 DEF Wg
  <2>6. PlaneTypeOK'
    BY <1>1, <1>2, <2>2, <2>3, <2>5 DEF PipeInv, PlaneTypeOK, NetType
  <2> QED BY <1>1, <2>2, <2>3, <2>4, <2>5, <2>6, WireStep, RangeEmpty DEF PipeInv, InFlight
<1> QED BY <1>4, <1>5 DEF SendCollected

\* A frame comes out of a Tunn only for a datagram that was not seen: it has not come out before.
LEMMA ReceiveStep == ASSUME NEW e \in Ends PROVE PipeInv /\ Receive(e) => PipeInv'
<1> SUFFICES ASSUME PipeInv, Receive(e) PROVE PipeInv'
  OBVIOUS
<1>1. wg[e].opened = Nothing /\ UNCHANGED <<setup, pending, channel, written, task, cancelled>>
  BY DEF Receive
<1>2. PICK d \in net.flying :
        /\ d.to = e
        /\ \/ net' = [net EXCEPT !.flying = @ \ {d},
                                 !.lost = IF ExpectedSource(e, d) THEN @ ELSE @ \cup {d.msg}]
              /\ UNCHANGED faults
           \/ Fault /\ UNCHANGED net
        /\ wg' = IF ExpectedSource(e, d)
                 THEN LET o == Open(e, d.msg) IN
                      [wg EXCEPT ![e].tunn = o.tunn, ![e].opened = [net |-> o.net, frame |-> o.frame]]
                 ELSE wg
  BY DEF Receive
<1>3. net \in NetType /\ faults \in 0..MaxFaults /\ wg \in [Ends -> Wg] /\ wg[e] \in Wg
  BY DEF PipeInv, PlaneTypeOK, NetType
<1>4. d.msg \in Wire /\ Carries(Other(e), d.msg) /\ wg[e].tunn \in Tunn
  BY <1>2, <1>3 DEF PipeInv, InFlight, NetType, Wg
<1>5. net' \in NetType /\ net'.flying \subseteq net.flying
  <2>1. CASE UNCHANGED net
    BY <1>3, <2>1
  <2>2. CASE net' = [net EXCEPT !.flying = @ \ {d},
                                !.lost = IF ExpectedSource(e, d) THEN @ ELSE @ \cup {d.msg}]
    <3>1. net'.flying = net.flying \ {d} /\ net'.port = net.port
          /\ net'.lost \in {net.lost, net.lost \cup {d.msg}}
          /\ net' = [flying |-> net'.flying, lost |-> net'.lost, port |-> net'.port]
      BY <1>3, <2>2 DEF NetType
    <3>2. net'.flying \in SUBSET [to : Ends, port : {0, 1}, msg : Wire] /\ net'.port \in {0, 1}
      BY <1>3, <3>1 DEF NetType
    <3>3. net'.lost \in SUBSET Wire
      BY <1>3, <1>4, <3>1 DEF NetType
    <3> QED BY <3>1, <3>2, <3>3 DEF NetType
  <2> QED BY <1>2, <2>1, <2>2
<1>6. faults' \in 0..MaxFaults
  BY <1>2, <1>3, FaultHolds
<1>7. \A x \in net'.flying : Carries(Other(x.to), x.msg)
  BY <1>5 DEF PipeInv, InFlight
<1>8. CASE wg' = wg
  <2>1. PlaneTypeOK'
    BY <1>1, <1>3, <1>5, <1>6, <1>8 DEF PipeInv, PlaneTypeOK, NetType
  <2>2. Nothing.frame = NoPacket
    BY DEF Nothing
  <2> QED BY <1>1, <1>7, <1>8, <2>1, <2>2, WireStep DEF PipeInv, InFlight
<1> DEFINE o == Open(e, d.msg)
           got == [net |-> o.net, frame |-> o.frame]
<1>9. CASE wg' = [wg EXCEPT ![e].tunn = o.tunn, ![e].opened = got]
  <2>1. /\ o.tunn \in Tunn /\ Range(o.tunn.queue) \subseteq Range(wg[e].tunn.queue)
        /\ wg[e].tunn.seen \subseteq o.tunn.seen
        /\ o.net \in Seq(Wire) /\ o.frame \in Packets \cup {NoPacket}
        /\ o.frame # NoPacket => o.frame = d.msg.pkt /\ d.msg \notin wg[e].tunn.seen /\ d.msg \in o.tunn.seen
        /\ \A msg \in Range(o.net) :
               IF msg.kind = "data" THEN msg.pkt \in Range(wg[e].tunn.queue) ELSE msg.pkt = NoPacket
    BY <1>4, OpenHolds
  <2> HIDE DEF o
  <2>2. got.net = o.net /\ got.frame = o.frame /\ got \in [net : Seq(Wire), frame : Packets \cup {NoPacket}]
    BY <2>1
  <2> HIDE DEF got
  <2>3. /\ wg'[e] = [wg[e] EXCEPT !.tunn = o.tunn, !.opened = got] /\ wg' = [wg EXCEPT ![e] = wg'[e]]
        /\ \A f \in Ends : f # e => wg'[f] = wg[f]
    BY <1>3, <1>9
  <2>4. /\ wg'[e] \in Wg /\ wg'[e].tunn = o.tunn /\ wg'[e].sealed = wg[e].sealed
        /\ wg'[e].opened = got
    BY <1>3, <2>1, <2>2, <2>3 DEF Wg
  <2>5. PlaneTypeOK'
    BY <1>1, <1>3, <1>5, <1>6, <2>3, <2>4 DEF PipeInv, PlaneTypeOK, NetType
  <2>6. \A q \in Range(wg'[e].tunn.queue) : q \in Gone(e)
    BY <2>1, <2>4 DEF PipeInv, InFlight
  <2>7. \A msg \in Range(wg'[e].sealed) \cup Range(wg'[e].opened.net) : Carries(e, msg)
    <3>1. \A q \in Range(wg[e].tunn.queue) : q \in Gone(e)
      BY DEF PipeInv, InFlight
    <3>2. \A msg \in Range(o.net) : Carries(e, msg)
      BY <2>1, <3>1 DEF Carries
    <3> QED BY <2>2, <2>4, <3>2 DEF PipeInv, InFlight
  <2>8. ASSUME wg'[e].opened.frame # NoPacket
        PROVE  /\ Arrived(e, wg[e].opened.frame)'
               /\ wg'[e].opened.frame \notin Range(channel[e]) \cup Range(written[e])
    <3> DEFINE p == d.msg.pkt
    <3>1. wg'[e].opened.frame = p /\ d.msg \notin wg[e].tunn.seen /\ d.msg \in wg'[e].tunn.seen /\ p # NoPacket
      BY <2>1, <2>2, <2>4, <2>8
    <3>2. d.msg.kind = "data"
      BY <1>4, <3>1 DEF Carries
    <3>3. d.msg = Data(p) /\ p \in Gone(Other(e))
      BY <1>4, <3>2 DEF Carries, Wire, Data
    <3>4. Arrived(e, p)'
      BY <1>1, <3>1, <3>3 DEF Arrived, Gone
    <3>5. ~Arrived(e, p)
      BY <3>1, <3>3 DEF Arrived
    <3>6. Placed(e)
      BY DEF PipeInv
    <3> QED BY <3>1, <3>4, <3>5, <3>6 DEF Placed
  <2> QED BY <1>1, <1>7, <2>1, <2>3, <2>4, <2>5, <2>6, <2>7, <2>8, WireStep
<1> QED BY <1>2, <1>8, <1>9

\* Another port changes no datagram.
LEMMA RebindStep == PipeInv /\ Rebind => PipeInv'
<1> SUFFICES ASSUME PipeInv, Rebind PROVE PipeInv'
  OBVIOUS
<1>1. Fault /\ net' = [net EXCEPT !.port = 1]
      /\ UNCHANGED <<setup, pending, channel, wg, written, task, cancelled>>
  BY DEF Rebind
<1>2. net \in NetType /\ faults \in 0..MaxFaults
  BY DEF PipeInv, PlaneTypeOK, NetType
<1>3. net' \in NetType /\ net'.flying = net.flying /\ faults' \in 0..MaxFaults
  BY <1>1, <1>2, FaultHolds DEF NetType
<1>4. PlaneTypeOK'
  BY <1>1, <1>3 DEF PipeInv, PlaneTypeOK, NetType
<1>5. InFlight' /\ \A f \in Ends : Placed(f)'
  BY <1>1, <1>3 DEF PipeInv, InFlight, Carries, Placed, Arrived, Gone
<1> QED BY <1>4, <1>5 DEF PipeInv

\* A frame goes into the channel, or is gone with its reader.
LEMMA HandOverStep == ASSUME NEW e \in Ends PROVE PipeInv /\ HandOver(e) => PipeInv'
<1> SUFFICES ASSUME PipeInv, HandOver(e) PROVE PipeInv'
  OBVIOUS
<1> DEFINE p == wg[e].opened.frame
<1>1. /\ wg[e].opened.net = <<>> /\ p # NoPacket /\ Takes(e)
      /\ channel' = IF Receiving(e) THEN [channel EXCEPT ![e] = Append(@, p)] ELSE channel
      /\ wg' = [wg EXCEPT ![e].opened = Nothing]
      /\ UNCHANGED <<setup, pending, net, written, task, cancelled, faults>>
  BY DEF HandOver
<1>2. /\ wg \in [Ends -> Wg] /\ wg[e] \in Wg /\ e \in {"out", "client", "exit"}
      /\ channel \in [{"out", "client", "exit"} -> Seq(Packets)] /\ channel[e] \in Seq(Packets)
      /\ Len(channel[e]) \in Nat /\ p \in Packets
  BY <1>1 DEF PipeInv, PlaneTypeOK, Wg, Ends
<1>3. Arrived(e, p) /\ p \notin Range(channel[e]) \cup Range(written[e]) /\ Once(channel[e])
  BY <1>1 DEF PipeInv, Placed
<1> HIDE DEF p
<1>4. /\ Append(channel[e], p) \in Seq(Packets) /\ Once(Append(channel[e], p))
      /\ Range(Append(channel[e], p)) = Range(channel[e]) \cup {p}
      /\ Len(Append(channel[e], p)) = Len(channel[e]) + 1
  BY <1>2, <1>3, RangeAppend, OnceAppend
<1>5. /\ channel' \in [{"out", "client", "exit"} -> Seq(Packets)]
      /\ \A c \in {"out", "client", "exit"} : c # e => channel'[c] = channel[c]
      /\ channel'[e] = channel[e] \/ (channel'[e] = Append(channel[e], p) /\ Len(channel[e]) < Bound)
  <2>1. Receiving(e) => Len(channel[e]) < Bound
    BY <1>1, <1>2, BoundAssumption DEF Takes, Full
  <2> QED BY <1>1, <1>2, <1>4, <2>1
<1>6. ASSUME NEW c \in DOMAIN channel' PROVE Len(channel'[c]) <= Bound
  <2>1. c \in {"out", "client", "exit"} /\ Len(channel[c]) <= Bound
    BY <1>2, <1>5 DEF PipeInv, PlaneTypeOK
  <2>2. CASE c = e
    BY <1>2, <1>4, <1>5, <2>1, <2>2, BoundAssumption
  <2>3. CASE c # e
    BY <1>5, <2>1, <2>3
  <2> QED BY <2>2, <2>3
<1>7. /\ Nothing \in [net : Seq(Wire), frame : Packets \cup {NoPacket}] /\ Nothing.net = <<>>
      /\ Nothing.frame = NoPacket
  BY DEF Nothing
<1>8. /\ wg'[e] = [wg[e] EXCEPT !.opened = Nothing] /\ wg' = [wg EXCEPT ![e] = wg'[e]]
      /\ \A f \in Ends : f # e => wg'[f] = wg[f]
  BY <1>1, <1>2
<1>9. /\ wg'[e] \in Wg /\ wg'[e].tunn = wg[e].tunn /\ wg'[e].sealed = wg[e].sealed
      /\ wg'[e].opened = Nothing
  BY <1>2, <1>7, <1>8 DEF Wg
<1>10. PlaneTypeOK'
  BY <1>1, <1>2, <1>5, <1>6, <1>8, <1>9 DEF PipeInv, PlaneTypeOK
<1>11. InFlight'
  <2>1. channel'.out = channel.out
    BY <1>5 DEF Ends
  <2>2. \A f : Gone(f)' = Gone(f) /\ \A msg : Carries(f, msg)' <=> Carries(f, msg)
    BY <1>1 DEF Gone, Carries
  <2>3. \A f \in Ends : /\ wg'[f].tunn = wg[f].tunn /\ wg'[f].sealed = wg[f].sealed
                        /\ Range(wg'[f].opened.net) \subseteq Range(wg[f].opened.net)
    BY <1>7, <1>8, <1>9, RangeEmpty
  <2> QED BY <1>1, <2>1, <2>2, <2>3 DEF PipeInv, InFlight
<1>12. \A f \in Ends : Placed(f)'
  <2> SUFFICES ASSUME NEW f \in Ends PROVE Placed(f)'
    OBVIOUS
  <2>1. Placed(f) /\ wg'[f].tunn = wg[f].tunn /\ written'[f] = written[f]
    BY <1>1, <1>8, <1>9 DEF PipeInv
  <2>2. \A q : Arrived(f, q)' <=> Arrived(f, q)
    BY <1>1, <2>1 DEF Arrived, Gone
  <2>3. CASE f # e
    <3>1. channel'[f] = channel[f] /\ wg'[f] = wg[f]
      BY <1>5, <1>8, <2>3 DEF Ends
    <3> QED BY <2>1, <2>2, <3>1 DEF Placed
  <2>4. CASE f = e
    <3>1. Once(channel'[e]) /\ Range(channel'[e]) \subseteq Range(channel[e]) \cup {p}
      BY <1>3, <1>4, <1>5
    <3> QED BY <1>3, <1>7, <1>9, <2>1, <2>2, <2>4, <3>1 DEF Placed
  <2> QED BY <2>3, <2>4
<1> QED BY <1>10, <1>11, <1>12 DEF PipeInv

\* Every step of the plane keeps the invariant.
LEMMA PipeStep == PipeInv /\ [PlaneNext]_planeVars => PipeInv'
<1> SUFFICES ASSUME PipeInv, [PlaneNext]_planeVars PROVE PipeInv'
  OBVIOUS
<1>1. CASE UNCHANGED planeVars
  <2>1. PlaneTypeOK'
    BY <1>1 DEF PipeInv, PlaneTypeOK, planeVars
  <2> QED BY <1>1, <2>1, IdleStep DEF planeVars
<1>2. CASE ReadFails \/ (\E t \in Loops : LoopCancelled(t)) \/ Cancel
  BY <1>2, TaskStep
<1>3. CASE \E e \in Ends : WritePacket(e) \/ SendSealed(e) \/ Receive(e) \/ SendCollected(e) \/ HandOver(e)
  BY <1>3, WritePacketStep, SendSealedStep, ReceiveStep, SendCollectedStep, HandOverStep
<1>4. CASE ReadPacket \/ ReadClosed \/ StageGone \/ SealRequest \/ SealReply \/ Rebind
  BY <1>4, ReadPacketStep, ReadClosedStep, StageGoneStep, SealRequestStep, SealReplyStep, RebindStep
<1> QED BY <1>1, <1>2, <1>3, <1>4 DEF PlaneNext, Work

\* Before anything was read there is nothing on the way.
LEMMA PipeInit == PlaneInit => PipeInv
<1> SUFFICES ASSUME PlaneInit PROVE PipeInv
  OBVIOUS
<1>1. \A S : <<>> \in Seq(S) /\ Len(<<>>) = 0
  OBVIOUS
<1>2. NewTunn \in Tunn /\ NewTunn.queue = <<>> /\ NewTunn.seen = {}
  BY <1>1 DEF NewTunn, Tunn
<1>3. /\ Nothing \in [net : Seq(Wire), frame : Packets \cup {NoPacket}] /\ Nothing.net = <<>>
      /\ Nothing.frame = NoPacket
  BY <1>1 DEF Nothing
<1>4. NewWg \in Wg /\ NewWg.tunn = NewTunn /\ NewWg.sealed = <<>> /\ NewWg.opened = Nothing
  BY <1>1, <1>2, <1>3 DEF NewWg, Wg
<1>5. wg \in [Ends -> Wg] /\ \A e \in Ends : wg[e] = NewWg
  BY <1>4 DEF PlaneInit
<1>6. net \in NetType /\ net.flying = {}
  BY DEF PlaneInit, NetType
<1>7. /\ channel \in [{"out", "client", "exit"} -> Seq(Packets)]
      /\ \A c \in {"out", "client", "exit"} : channel[c] = <<>>
  <2>1. channel = [out |-> <<>>, client |-> <<>>, exit |-> <<>>]
    BY DEF PlaneInit
  <2>2. <<>> \in Seq(Packets)
    OBVIOUS
  <2>3. DOMAIN channel = {"out", "client", "exit"}
    BY <2>1
  <2>4. \A c \in {"out", "client", "exit"} : channel[c] = <<>>
    BY <2>1
  <2>5. channel = [c \in {"out", "client", "exit"} |-> channel[c]]
    BY <2>1
  <2> QED BY <2>2, <2>4, <2>5
<1>8. written \in [Ends -> Seq(Packets)] /\ \A e \in Ends : written[e] = <<>>
  BY <1>1 DEF PlaneInit
<1>9. PlaneTypeOK
  <2>1. task \in [Tasks -> {"running", "ended", "failed"}]
    BY DEF PlaneInit, Loops, Tasks
  <2>2. \A c \in DOMAIN channel : Len(channel[c]) <= Bound
    BY <1>1, <1>7, BoundAssumption
  <2>3. \A e \in Ends : Len(wg[e].sealed) <= 1
    <3>1. Len(<<>>) = 0
      OBVIOUS
    <3> QED BY <1>4, <1>5, <3>1
  <2>4. setup \in Setups /\ pending \subseteq Packets /\ cancelled \in BOOLEAN /\ faults \in 0..MaxFaults
    <3>1. 0 \in 0..MaxFaults /\ FALSE \in BOOLEAN
      BY BoundAssumption
    <3> QED BY <3>1 DEF PlaneInit
  <2> QED BY <1>5, <1>6, <1>7, <1>8, <2>1, <2>2, <2>3, <2>4 DEF PlaneTypeOK, NetType
<1>10. InFlight
  BY <1>2, <1>3, <1>4, <1>5, <1>6, <1>7, RangeEmpty DEF InFlight
<1>11. \A e \in Ends : Placed(e)
  <2> SUFFICES ASSUME NEW e \in Ends PROVE Placed(e)
    OBVIOUS
  <2>1. channel[e] = <<>> /\ written[e] = <<>> /\ wg[e].opened.frame = NoPacket
    BY <1>3, <1>4, <1>5, <1>7, <1>8 DEF Ends
  <2>2. Once(<<>>)
    BY DEF Once
  <2> QED BY <2>1, <2>2, RangeEmpty DEF Placed
<1> QED BY <1>9, <1>10, <1>11 DEF PipeInv

LEMMA PipeInvariant == PlaneSpec => []PipeInv
BY PipeInit, PipeStep, PTL DEF PlaneSpec

-----------------------------------------------------------------------------

\* The plane starts where the pipes start.
LEMMA PipesInit == PlaneInit => UpPipe!Init /\ DownPipe!Init
BY PacketsAssumption DEF PlaneInit, UpPipe!Init, DownPipe!Init, Ends

\* A step of the plane is a step of the pipe of either direction, or leaves it as it is.
LEMMA PlaneRefines ==
    ASSUME PipeInv, [PlaneNext]_planeVars
    PROVE  [UpPipe!Enter \/ UpPipe!Leave]_UpPipe!pipeVars /\ [DownPipe!Enter \/ DownPipe!Leave]_DownPipe!pipeVars
<1>1. CASE UNCHANGED <<pending, written>>
  BY <1>1 DEF UpPipe!pipeVars, DownPipe!pipeVars
<1>2. CASE \E p \in pending \cap (Requests \cup Replies) : pending' = pending \ {p} /\ UNCHANGED written
  <2>1. PICK p \in pending \cap (Requests \cup Replies) : pending' = pending \ {p} /\ UNCHANGED written
    BY <1>2
  <2>2. [UpPipe!Enter]_UpPipe!pipeVars
    <3>1. CASE p \in Requests
      <4>1. p \in Requests \ (Requests \ pending) /\ Requests \ pending' = (Requests \ pending) \cup {p}
        BY <2>1, <3>1
      <4> QED BY <2>1, <4>1 DEF UpPipe!Enter
    <3>2. CASE p \notin Requests
      <4>1. Requests \ pending' = Requests \ pending
        BY <2>1, <3>2
      <4> QED BY <2>1, <4>1 DEF UpPipe!pipeVars
    <3> QED BY <3>1, <3>2
  <2>3. [DownPipe!Enter]_DownPipe!pipeVars
    <3>1. CASE p \in Replies
      <4>1. p \in Replies \ (Replies \ pending) /\ Replies \ pending' = (Replies \ pending) \cup {p}
        BY <2>1, <3>1
      <4> QED BY <2>1, <4>1 DEF DownPipe!Enter
    <3>2. CASE p \notin Replies
      <4>1. Replies \ pending' = Replies \ pending
        BY <2>1, <3>2
      <4> QED BY <2>1, <4>1 DEF DownPipe!pipeVars
    <3> QED BY <3>1, <3>2
  <2> QED BY <2>2, <2>3
<1>3. ASSUME NEW e \in Ends, WritePacket(e), ~UNCHANGED written
      PROVE  /\ UNCHANGED pending /\ \A f \in Ends : f # e => written'[f] = written[f]
             /\ \E p \in (From(Other(e)) \ pending) \ Range(written[e]) : written'[e] = Append(written[e], p)
  <2> DEFINE p == Head(channel[e])
  <2>1. written \in [Ends -> Seq(Packets)] /\ channel[e] \in Seq(Packets) /\ channel[e] # <<>>
    BY <1>3 DEF PipeInv, PlaneTypeOK, WritePacket, Ends
  <2>2. written' = [written EXCEPT ![e] = Append(@, p)] /\ UNCHANGED pending
    BY <1>3 DEF WritePacket
  <2>3. p \in Range(channel[e])
    BY <2>1, RangeTail
  <2>4. p \in From(Other(e)) \ pending /\ p \notin Range(written[e])
    BY <2>3 DEF PipeInv, Placed, Arrived, Gone
  <2> HIDE DEF p
  <2> QED BY <2>1, <2>2, <2>4
<1>4. CASE (\E e \in Ends : WritePacket(e)) /\ ~UNCHANGED written
  <2>1. PICK e \in Ends : WritePacket(e)
    BY <1>4
  <2>2. PICK p \in (From(Other(e)) \ pending) \ Range(written[e]) : written'[e] = Append(written[e], p)
    BY <1>3, <1>4, <2>1
  <2>3. UNCHANGED pending /\ \A f \in Ends : f # e => written'[f] = written[f]
    BY <1>3, <1>4, <2>1
  <2>4. CASE e = "exit"
    <3>1. UpPipe!Leave
      BY <2>2, <2>3, <2>4 DEF UpPipe!Leave, UpPipe!Range, Range, From, Other
    <3>2. UNCHANGED DownPipe!pipeVars
      BY <2>3, <2>4 DEF DownPipe!pipeVars, Ends
    <3> QED BY <3>1, <3>2
  <2>5. CASE e = "client"
    <3>1. DownPipe!Leave
      BY <2>2, <2>3, <2>5 DEF DownPipe!Leave, DownPipe!Range, Range, From, Other
    <3>2. UNCHANGED UpPipe!pipeVars
      BY <2>3, <2>5 DEF UpPipe!pipeVars, Ends
    <3> QED BY <3>1, <3>2
  <2> QED BY <2>4, <2>5 DEF Ends
<1>5. CASE ReadPacket \/ ReadClosed \/ SealReply
  BY <1>2, <1>5 DEF ReadPacket, ReadClosed, SealReply
<1>6. CASE \E e \in Ends : WritePacket(e)
  BY <1>1, <1>4, <1>6 DEF WritePacket
<1>7. CASE \E e \in Ends : SendSealed(e) \/ Receive(e) \/ SendCollected(e) \/ HandOver(e)
  BY <1>1, <1>7 DEF SendSealed, Receive, SendCollected, HandOver
<1>8. CASE (\E t \in Loops : LoopCancelled(t)) \/ ReadFails \/ StageGone \/ SealRequest \/ Rebind \/ Cancel
           \/ UNCHANGED planeVars
  BY <1>1, <1>8 DEF LoopCancelled, ReadFails, StageGone, SealRequest, Rebind, Cancel, planeVars
<1> QED BY <1>5, <1>6, <1>7, <1>8 DEF PlaneNext, Work

\* Every reachable state of channels, tunnels, network and loops is well typed.
THEOREM PlaneTypeCorrect == PlaneSpec => []PlaneTypeOK
BY PipeInvariant, PTL DEF PipeInv

\* Each direction of the data plane implements a lossy pipe: what a device is given was read at the
\* other end and is given once, whatever is lost, doubled, reordered, queued for the handshake or
\* dropped at a full channel.
THEOREM PipeImplemented == PlaneSpec => PlaneIsLossyPipe
BY PipeInvariant, PipesInit, PlaneRefines, PTL DEF PlaneSpec, PlaneIsLossyPipe, UpPipe!Spec, DownPipe!Spec
=============================================================================
