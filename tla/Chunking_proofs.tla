---------------------------- MODULE Chunking_proofs ----------------------------
(* Proofs about Chunking, for texts of any length and any arguments.       *)
EXTENDS Chunking, TLAPS

(* What the checks leave through, and where the loop stands: all chunks so *)
(* far are whole, and i is one step after the last of them.                *)
Accepted ==
  /\ size > 0
  /\ alg = "fixed" => 0 <= arg /\ arg < size
  /\ alg = "sliding" => arg > 0
Last == chunks[Len(chunks)]
LoopInv ==
  pc = "loop" /\ alg # "semantic" =>
    /\ Accepted
    /\ \A k \in 1..Len(chunks) : chunks[k].to - chunks[k].from = size
    /\ Len(chunks) = 0 => i = 0
    /\ Len(chunks) > 0 => /\ i = Last.from + Step
                          /\ alg = "fixed" => Last.to < length
    /\ Len(chunks) <= i

(* There are at most as many chunks as characters. *)
CountBounded == Len(chunks) <= length

Coverage == alg # "semantic" /\ Step <= size => \A p \in 0..(Reach - 1) : Covered(p)
Ending == pc = "done" /\ alg # "semantic" /\ Step <= size => Reach = length

(* semanticChunk pushes at most one chunk for each segment it passes.      *)
Passed ==
  alg = "semantic" => /\ i <= length /\ Len(chunks) <= i
                      /\ length = Len(text)

Inv ==
  /\ TypeOK /\ Passed
  /\ pc = "check" => i = 0 /\ chunks = <<>>
  /\ pc = "error" => chunks = <<>>
  /\ LoopInv
  /\ SizesHold /\ OverlapIsExact /\ NothingRedundant /\ CountBounded
  /\ Coverage /\ Ending

LEMMA Append1 ==
  ASSUME NEW s \in Seq(Interval), NEW c \in Interval, NEW t, t = Append(s, c)
  PROVE  /\ t \in Seq(Interval) /\ t # <<>>
         /\ Len(t) = Len(s) + 1 /\ Len(s) \in Nat
         /\ \A k \in 1..Len(s) : t[k] = s[k] /\ s[k] \in Interval
         /\ t[Len(t)] = c
OBVIOUS

LEMMA InitInv == Init => Inv
<1> SUFFICES ASSUME Init PROVE Inv
  OBVIOUS
<1>1. text \in Seq(Characters) /\ length \in Nat /\ size \in Int /\ arg \in Int
  <2>1. Texts \subseteq Seq(Characters) /\ Lengths \subseteq Nat /\ Numbers \subseteq Int
    BY ConstantsAssumption DEF ConstantsAssumption
  <2>2. CASE alg # "semantic"
    <3>1. text = <<>> /\ length \in Lengths /\ size \in Numbers /\ arg \in Numbers
      BY <2>2 DEF Init
    <3>2. <<>> \in Seq(Characters)
      OBVIOUS
    <3> QED BY <2>1, <3>1, <3>2
  <2>3. CASE alg = "semantic"
    BY <2>1, <2>3 DEF Init
  <2> QED BY <2>2, <2>3
<1> QED BY <1>1
        DEF Init, Inv, TypeOK, Passed, LoopInv, SizesHold, OverlapIsExact,
            NothingRedundant, CountBounded, Coverage, Ending, Reach

(* The loop pushes a chunk that begins where the loop stands.              *)
LEMMA PushKeeps ==
  ASSUME Inv, pc = "loop", alg # "semantic", UNCHANGED input,
         NEW c \in Interval, chunks' = Append(chunks, c),
         c.from = i, c.from < c.to, c.to <= length, c.to - c.from <= size,
         alg = "fixed" => c.to = length \/ c.to - c.from = size
  PROVE  /\ SizesHold' /\ OverlapIsExact' /\ NothingRedundant' /\ CountBounded'
         /\ Coverage'
         /\ chunks' \in Seq(Interval) /\ Len(chunks') = Len(chunks) + 1
         /\ chunks'[Len(chunks')] = c /\ Reach' = c.to
         /\ \A k \in 1..Len(chunks) : chunks'[k] = chunks[k]
<1> USE DEF Inv, TypeOK, input
<1>1. /\ chunks' \in Seq(Interval) /\ chunks' # <<>>
      /\ Len(chunks') = Len(chunks) + 1 /\ Len(chunks) \in Nat
      /\ \A k \in 1..Len(chunks) : chunks'[k] = chunks[k] /\ chunks[k] \in Interval
      /\ chunks'[Len(chunks')] = c
  <2>1. chunks \in Seq(Interval)
    OBVIOUS
  <2> HIDE DEF Inv, TypeOK
  <2> QED BY <2>1, Append1
<1>2. Reach' = c.to
  BY <1>1 DEF Reach
<1>3. SizesHold'
  <2> SUFFICES ASSUME NEW k \in 1..Len(chunks')
               PROVE  /\ chunks'[k].from < chunks'[k].to
                      /\ chunks'[k].to <= length
                      /\ chunks'[k].to - chunks'[k].from <= size
                      /\ k < Len(chunks') => chunks'[k].to - chunks'[k].from = size
    BY DEF SizesHold
  <2>1. CASE k = Len(chunks')
    BY <1>1, <2>1
  <2>2. CASE k # Len(chunks')
    <3>1. k \in 1..Len(chunks) /\ chunks'[k] = chunks[k]
      BY <1>1, <2>2
    <3> QED BY <3>1 DEF SizesHold, LoopInv, Accepted
  <2> QED BY <2>1, <2>2
<1>4. Accepted /\ \A k \in 1..Len(chunks) : chunks[k].to - chunks[k].from = size
  BY DEF LoopInv
<1>5. ASSUME alg = "fixed", Len(chunks) > 0
      PROVE  Last.to - c.from = arg /\ Last.to < c.to
  <2>1. /\ Last \in Interval /\ Last.to - Last.from = size
        /\ i = Last.from + (size - arg) /\ Last.to < length
    BY <1>1, <1>4, <1>5 DEF LoopInv, Last, Step, FixedStep
  <2>2. Last.from \in Nat /\ Last.to \in Nat /\ c.from \in Nat /\ c.to \in Nat
    BY <2>1 DEF Interval
  <2>3. Last.to - c.from = arg
    <3>1. size \in Int /\ arg \in Int
      OBVIOUS
    <3> HIDE DEF Inv, TypeOK
    <3> QED BY <2>1, <2>2, <3>1
  <2>4. Last.to < c.to
    <3>1. CASE c.to = length
      BY <2>1, <2>2, <3>1
    <3>2. CASE c.to - c.from = size
      BY <1>4, <1>5, <2>1, <2>2, <3>2 DEF Accepted
    <3> QED BY <1>5, <3>1, <3>2
  <2> QED BY <2>3, <2>4
<1>6. OverlapIsExact' /\ NothingRedundant'
  <2> SUFFICES ASSUME alg = "fixed", NEW k \in 2..Len(chunks')
               PROVE  /\ chunks'[k - 1].to - chunks'[k].from = arg
                      /\ chunks'[k - 1].to < chunks'[k].to
    BY DEF OverlapIsExact, NothingRedundant
  <2>1. k - 1 \in 1..Len(chunks) /\ chunks'[k - 1] = chunks[k - 1]
    BY <1>1
  <2>2. CASE k = Len(chunks')
    <3>1. Len(chunks) > 0 /\ k - 1 = Len(chunks) /\ chunks'[k] = c
      BY <1>1, <2>2
    <3> QED BY <1>5, <2>1, <3>1 DEF Last
  <2>3. CASE k # Len(chunks')
    <3>1. k \in 2..Len(chunks) /\ chunks'[k] = chunks[k]
      BY <1>1, <2>3
    <3> QED BY <2>1, <3>1 DEF OverlapIsExact, NothingRedundant
  <2> QED BY <2>2, <2>3
<1>7. CountBounded'
  BY <1>1 DEF CountBounded, LoopInv, Interval
<1>8. Coverage'
  <2> SUFFICES ASSUME Step <= size, NEW p \in 0..(c.to - 1) PROVE Covered(p)'
    BY <1>2 DEF Coverage, Step, Interval
  <2>1. CASE p < Reach /\ chunks # <<>>
    <3>0. Len(chunks) \in 1..Len(chunks)
      BY <1>1, <2>1
    <3>1. p \in 0..(Reach - 1)
      <4>1. Reach \in Nat
        BY <1>1, <2>1, <3>0 DEF Reach, Interval
      <4>2. p \in Nat
        BY DEF Interval
      <4> QED BY <2>1, <4>1, <4>2
    <3>2. PICK k \in 1..Len(chunks) : chunks[k].from <= p /\ p < chunks[k].to
      BY <3>1 DEF Coverage, Covered
    <3> QED BY <1>1, <3>2 DEF Covered
  <2>2. CASE c.from <= p
    <3>1. /\ Len(chunks') \in 1..Len(chunks')
          /\ chunks'[Len(chunks')].from <= p /\ p < chunks'[Len(chunks')].to
      BY <1>1, <2>2 DEF Interval
    <3> QED BY <3>1 DEF Covered
  <2>3. chunks # <<>> => c.from <= Reach
    <3>1. SUFFICES ASSUME chunks # <<>> PROVE i <= Reach
      OBVIOUS
    <3>2. Len(chunks) > 0
      BY <3>1, <1>1
    <3>3. Last \in Interval /\ Last.to - Last.from = size /\ i = Last.from + Step
      BY <1>1, <1>4, <3>2 DEF LoopInv, Last
    <3>4. Reach = Last.to
      BY ONLY <3>1 DEF Reach, Last
    <3>5. Last.from \in Nat /\ Last.to \in Nat
      BY ONLY <3>3 DEF Interval
    <3>6. size \in Int /\ arg \in Int
      OBVIOUS
    <3>7. Step \in Int /\ Step <= size
      BY ONLY <3>6, Step <= size DEF Step, FixedStep
    <3> HIDE DEF Inv, TypeOK, Step, Last, Reach
    <3> QED BY ONLY <3>3, <3>4, <3>5, <3>6, <3>7
  <2>4. chunks = <<>> => c.from = 0
    BY DEF LoopInv
  <2>5. chunks # <<>> => Reach \in Nat
    BY <1>1 DEF Reach, Interval
  <2> QED BY <2>1, <2>2, <2>3, <2>4, <2>5 DEF Interval
<1> QED BY <1>1, <1>2, <1>3, <1>6, <1>7, <1>8

LEMMA NextInv == Inv /\ [Next]_vars => Inv'
<1> SUFFICES ASSUME Inv, [Next]_vars PROVE Inv'
  OBVIOUS
<1> USE DEF Inv, TypeOK
<1>1. CASE Check
  <2>1. chunks = <<>> /\ i = 0 /\ UNCHANGED <<alg, text, length, size, arg, i, chunks>>
    BY <1>1 DEF Check, input
  <2>2. /\ pc' \in {"loop", "done", "error"}
        /\ pc' = "loop" /\ alg # "semantic" => Accepted'
    BY <1>1, <2>1 DEF Check, Accepted, FixedAccepts
  <2>3. pc' = "done" => length = 0
    BY <1>1 DEF Check
  <2> QED BY <2>1, <2>2, <2>3
          DEF Passed, LoopInv, SizesHold, OverlapIsExact, NothingRedundant, CountBounded,
              Coverage, Ending, Reach
<1>2. CASE FixedIteration
  <2> DEFINE c == Slice(i, i + size, length)
  <2>1. /\ pc = "loop" /\ alg = "fixed" /\ i < length /\ Accepted
        /\ UNCHANGED input /\ chunks' = Append(chunks, c)
    BY <1>2 DEF FixedIteration, LoopInv
  <2>2. /\ c \in Interval /\ c.from = i /\ c.from < c.to /\ c.to <= length
        /\ c.to - c.from <= size /\ (c.to = length \/ c.to - c.from = size)
    BY <2>1 DEF Slice, Interval, Accepted
  <2>3. /\ SizesHold' /\ OverlapIsExact' /\ NothingRedundant' /\ CountBounded'
        /\ Coverage'
        /\ chunks' \in Seq(Interval) /\ Len(chunks') = Len(chunks) + 1
        /\ chunks'[Len(chunks')] = c /\ Reach' = c.to
        /\ \A k \in 1..Len(chunks) : chunks'[k] = chunks[k]
    BY <2>1, <2>2, PushKeeps
  <2>4. CASE IsLast(i, size, length)
    <3>1. pc' = "done" /\ i' = i
      BY <1>2, <2>4 DEF FixedIteration
    <3>2. c.to = length
      BY <2>1, <2>4 DEF IsLast, Slice
    <3> QED BY <2>1, <2>3, <3>1, <3>2 DEF Passed, LoopInv, Ending, input
  <2>5. CASE ~IsLast(i, size, length)
    <3>1. pc' = "loop" /\ i' = i + (size - arg)
      BY <1>2, <2>5 DEF FixedIteration, FixedStep
    <3>2. c.to = i + size /\ c.to < length
      BY <2>1, <2>5 DEF IsLast, Slice
    <3>3. LoopInv'
      <4>1. Accepted' /\ Step' = size - arg
        BY <2>1 DEF Accepted, Step, FixedStep, input
      <4>2. \A k \in 1..Len(chunks') : chunks'[k].to - chunks'[k].from = size
        BY <2>1, <2>2, <2>3, <3>2 DEF LoopInv
      <4>3. Last' = c
        BY <2>3 DEF Last
      <4>4. Len(chunks') > 0 /\ Len(chunks') <= i'
        BY <2>1, <2>3, <3>1 DEF LoopInv, Accepted
      <4> QED BY <2>1, <2>2, <3>1, <3>2, <4>1, <4>2, <4>3, <4>4 DEF LoopInv, input
    <3>4. i' \in Nat
      BY <2>1, <3>1 DEF Accepted
    <3> QED BY <2>1, <2>3, <3>1, <3>3, <3>4 DEF Passed, Ending, input
  <2> QED BY <2>4, <2>5
<1>3. CASE FixedExit
  <2>1. /\ pc = "loop" /\ alg = "fixed" /\ i >= length /\ pc' = "done" /\ Accepted
        /\ UNCHANGED <<alg, text, length, size, arg, i, chunks>>
    BY <1>3 DEF FixedExit, input, LoopInv
  <2>2. Len(chunks) = 0 /\ length = 0
    <3>1. CASE Len(chunks) > 0
      <4>1. /\ Last \in Interval /\ Last.to - Last.from = size
            /\ i = Last.from + (size - arg) /\ Last.to < length
        BY <2>1, <3>1 DEF LoopInv, Last, Step, FixedStep
      <4> QED BY <2>1, <4>1 DEF Accepted, Interval
    <3> QED BY <2>1, <3>1 DEF LoopInv
  <2>3. chunks = <<>>
    BY <2>2
  <2> QED BY <2>1, <2>2, <2>3
          DEF Passed, LoopInv, SizesHold, OverlapIsExact, NothingRedundant,
              CountBounded, Coverage, Ending, Reach
<1>4. CASE SlidingIteration
  <2> DEFINE c == Slice(i, i + size, length)
  <2>1. /\ pc = "loop" /\ alg = "sliding" /\ i + size <= length /\ Accepted
        /\ UNCHANGED input /\ chunks' = Append(chunks, c)
        /\ pc' = "loop" /\ i' = i + arg
    BY <1>4 DEF SlidingIteration, LoopInv, Fits
  <2>2. /\ c \in Interval /\ c.from = i /\ c.from < c.to /\ c.to <= length
        /\ c.to - c.from = size
    BY <2>1 DEF Slice, Interval, Accepted
  <2>3. /\ SizesHold' /\ OverlapIsExact' /\ NothingRedundant' /\ CountBounded'
        /\ Coverage'
        /\ chunks' \in Seq(Interval) /\ Len(chunks') = Len(chunks) + 1
        /\ chunks'[Len(chunks')] = c /\ Reach' = c.to
        /\ \A k \in 1..Len(chunks) : chunks'[k] = chunks[k]
    <3>1. c.to - c.from <= size
      BY <2>2
    <3> QED BY <2>1, <2>2, <3>1, PushKeeps
  <2>4. LoopInv'
    <3>1. Accepted' /\ Step' = arg
      BY <2>1 DEF Accepted, Step, input
    <3>2. \A k \in 1..Len(chunks') : chunks'[k].to - chunks'[k].from = size
      BY <2>1, <2>2, <2>3 DEF LoopInv
    <3>3. Last' = c
      BY <2>3 DEF Last
    <3>4. Len(chunks') > 0 /\ Len(chunks') <= i'
      BY <2>1, <2>3 DEF LoopInv, Accepted
    <3> QED BY <2>1, <2>2, <3>1, <3>2, <3>3, <3>4 DEF LoopInv, input
  <2>5. i' \in Nat
    BY <2>1 DEF Accepted
  <2> QED BY <2>1, <2>3, <2>4, <2>5 DEF Passed, Ending, input
<1>5. CASE SlidingExit
  <2>1. /\ pc = "loop" /\ alg = "sliding" /\ i + size > length /\ Accepted
        /\ UNCHANGED input /\ i' = i /\ pc' = "done"
    BY <1>5 DEF SlidingExit, LoopInv, Fits
  <2>2. CASE i < length
    <3> DEFINE c == Slice(i, length, length)
    <3>1. chunks' = Append(chunks, c)
      BY <1>5, <2>2 DEF SlidingExit
    <3>2. /\ c \in Interval /\ c.from = i /\ c.from < c.to /\ c.to <= length
          /\ c.to - c.from <= size /\ c.to = length
      BY <2>1, <2>2 DEF Slice, Interval
    <3>3. /\ SizesHold' /\ OverlapIsExact' /\ NothingRedundant' /\ CountBounded'
          /\ Coverage' /\ chunks' \in Seq(Interval) /\ Reach' = c.to
      BY <2>1, <3>1, <3>2, PushKeeps
    <3> QED BY <2>1, <3>2, <3>3 DEF Passed, LoopInv, Ending, input
  <2>3. CASE i >= length
    <3>1. UNCHANGED <<alg, text, length, size, arg, i, chunks>>
      BY <1>5, <2>1, <2>3 DEF SlidingExit, input
    <3>2. Step <= size => Reach = length
      <4>1. CASE Len(chunks) > 0
        <5>1. /\ Last \in Interval /\ Last.to - Last.from = size
              /\ i = Last.from + arg /\ Last.to <= length /\ Reach = Last.to
          BY <2>1, <4>1 DEF LoopInv, Last, Step, SizesHold, Reach
        <5>2. Last.from \in Nat /\ Last.to \in Nat
          BY <5>1 DEF Interval
        <5>3. Step = arg /\ arg \in Int /\ size \in Int /\ length \in Nat
          BY <2>1 DEF Step
        <5> HIDE DEF Inv, TypeOK
        <5> QED BY <2>1, <2>3, <5>1, <5>2, <5>3
      <4>2. CASE Len(chunks) = 0
        <5>1. chunks = <<>> /\ length = 0
          BY <2>1, <2>3, <4>2 DEF LoopInv
        <5> QED BY <5>1 DEF Reach
      <4> QED BY <4>1, <4>2
    <3> QED BY <2>1, <3>1, <3>2
            DEF Passed, LoopInv, SizesHold, OverlapIsExact, NothingRedundant,
                CountBounded, Coverage, Covered, Ending, Reach, Step
  <2> QED BY <2>1, <2>2, <2>3
<1>7. CASE SemanticIteration
  <2>1. /\ pc = "loop" /\ alg = "semantic" /\ UNCHANGED input
        /\ pc' \in {"loop", "done"}
    BY <1>7 DEF SemanticIteration
  <2>2. PICK end \in i..length, next \in i..length :
          /\ end <= next /\ i' = next
          /\ LET shown == {p \in i..(end - 1) : Visible(p)}
             IN  \/ shown = {} /\ UNCHANGED chunks
                 \/ \E f, l \in shown :
                      chunks' = Append(chunks, [from |-> f, to |-> l + 1])
    BY <1>7 DEF SemanticIteration
  <2>3. /\ chunks' \in Seq(Interval) /\ Len(chunks') \in Nat
        /\ Len(chunks') = Len(chunks) \/ (Len(chunks') = Len(chunks) + 1 /\ i < next)
    <3>1. CASE UNCHANGED chunks
      BY <3>1
    <3>2. ASSUME NEW f \in i..(end - 1), NEW l \in i..(end - 1),
                 chunks' = Append(chunks, [from |-> f, to |-> l + 1])
          PROVE  /\ chunks' \in Seq(Interval) /\ Len(chunks') = Len(chunks) + 1
                 /\ i < next
      <4>1. [from |-> f, to |-> l + 1] \in Interval
        BY DEF Interval
      <4> QED BY <2>2, <3>2, <4>1, Append1
    <3>3. \/ UNCHANGED chunks
          \/ \E f \in i..(end - 1), l \in i..(end - 1) :
               chunks' = Append(chunks, [from |-> f, to |-> l + 1])
      BY <2>2
    <3>4. ASSUME NEW f \in i..(end - 1), NEW l \in i..(end - 1),
                 chunks' = Append(chunks, [from |-> f, to |-> l + 1])
          PROVE  Len(chunks') \in Nat
      BY <3>2, <3>4
    <3> QED BY <3>1, <3>2, <3>3, <3>4
  <2>4. Passed'
    BY <2>1, <2>2, <2>3 DEF Passed, input
  <2> QED BY <2>1, <2>2, <2>3, <2>4
          DEF input, Passed, LoopInv, SizesHold, OverlapIsExact,
              NothingRedundant, CountBounded, Coverage, Ending
<1>6. CASE UNCHANGED vars
  BY <1>6 DEF vars, input, Passed, LoopInv, Accepted, Last, SizesHold, OverlapIsExact,
              NothingRedundant, CountBounded, Coverage, Covered, Ending, Reach, Step
<1> QED BY <1>1, <1>2, <1>3, <1>4, <1>5, <1>6, <1>7 DEF Next

LEMMA InvHolds == Spec => []Inv
BY InitInv, NextInv, PTL DEF Spec

(* Types, whatever the text and the arguments. *)
THEOREM TypeCorrect == Spec => []TypeOK
<1>1. Inv => TypeOK
  BY DEF Inv
<1> QED BY InvHolds, <1>1, PTL

(* No fixed chunk or window is empty or longer than was asked for, and     *)
(* only the last one is shorter.                                           *)
THEOREM SizesCorrect == Spec => []SizesHold
<1>1. Inv => SizesHold
  BY DEF Inv
<1> QED BY InvHolds, <1>1, PTL

(* Neighbouring fixed chunks overlap by exactly what was asked for.        *)
THEOREM OverlapCorrect == Spec => []OverlapIsExact
<1>1. Inv => OverlapIsExact
  BY DEF Inv
<1> QED BY InvHolds, <1>1, PTL

(* Every fixed chunk reaches further than the one before it.               *)
THEOREM EachChunkBringsMore == Spec => []NothingRedundant
<1>1. Inv => NothingRedundant
  BY DEF Inv
<1> QED BY InvHolds, <1>1, PTL

(* No character of any text is lost. *)
THEOREM CoverageCorrect == Spec => []NothingLost
<1>1. Inv => NothingLost
  BY DEF Inv, Coverage, Ending, NothingLost
<1> QED BY InvHolds, <1>1, PTL

(* No chunker returns more chunks than its text has characters. *)
THEOREM LoopsEnd == Spec => []CountBounded
<1>1. Inv => CountBounded
  BY DEF Inv
<1> QED BY InvHolds, <1>1, PTL

----------------------------------------------------------------------------
(* semanticChunk.  Chunks lie in order, visible at both ends, without an   *)
(* empty line inside and with one between any two of them, and they hold   *)
(* what the loop has passed; while it goes on, an empty line has just been *)
(* passed.                                                                 *)
Empty(x) == {At(x), At(x + 1)} = {"newline"}
Whole(c) ==
  /\ c.from < c.to
  /\ Visible(c.from) /\ Visible(c.to - 1)
  /\ \A x \in c.from..(c.to - 2) : ~Empty(x)
Apart(a, b) == \E x \in a..(b - 1) : Empty(x)
Paragraphs ==
  alg = "semantic" =>
    /\ \A k \in 1..Len(chunks) : Whole(chunks[k]) /\ chunks[k].to <= i
    /\ \A k, l \in 1..Len(chunks) : k < l =>
         chunks[k].to <= chunks[l].from /\ Apart(chunks[k].to, chunks[l].from)
    /\ \A p \in Read : \E k \in 1..Len(chunks) :
         chunks[k].from <= p /\ p < chunks[k].to
    /\ pc = "loop" => \A k \in 1..Len(chunks) : Apart(chunks[k].to, i - 1)
    /\ pc = "done" => i = length

LEMMA EmptyIsBreak ==
  ASSUME NEW x \in Int, x + 1 < length
  PROVE  Break(x) <=> Empty(x)
BY DEF Break, Empty

LEMMA ParagraphsInit == Init => Paragraphs
BY DEF Init, Paragraphs, Read

LEMMA ParagraphsNext == Inv /\ Paragraphs /\ [Next]_vars => Paragraphs'
<1> SUFFICES ASSUME Inv, Paragraphs, [Next]_vars, alg' = "semantic"
             PROVE  Paragraphs'
  BY DEF Paragraphs
<1>1. CASE Check
  <2>1. /\ chunks = <<>> /\ i = 0 /\ i' = i /\ chunks' = chunks
        /\ UNCHANGED <<text, length, alg>>
        /\ pc' = "done" => length = 0
    BY <1>1 DEF Check, Inv, input
  <2> QED BY <2>1 DEF Paragraphs, Read
<1>2. CASE SemanticIteration
  <2>1. /\ pc = "loop" /\ alg = "semantic" /\ UNCHANGED <<alg, text, length>>
        /\ length \in Nat /\ i \in Nat /\ i <= length /\ chunks \in Seq(Interval)
    BY <1>2 DEF SemanticIteration, input, Inv, TypeOK, Passed
  <2> DEFINE shown(e) == {p \in i..(e - 1) : Visible(p)}
  <2>2. PICK end \in i..length, next \in i..length :
          /\ end = length \/ Break(end)
          /\ \A p \in i..(end - 1) : ~Break(p)
          /\ end <= next /\ \A p \in end..(next - 1) : At(p) = "newline"
          /\ next < length => At(next) # "newline"
          /\ \/ shown(end) = {} /\ UNCHANGED chunks
             \/ \E f, l \in shown(end) :
                  /\ shown(end) \subseteq f..l
                  /\ chunks' = Append(chunks, [from |-> f, to |-> l + 1])
          /\ i' = next
          /\ pc' = IF next = length THEN "done" ELSE "loop"
    BY <1>2 DEF SemanticIteration
  <2>3. end \in Int /\ next \in Int /\ i <= end /\ end <= next /\ next <= length
    BY <2>1, <2>2
  <2>4. \A p : At(p)' = At(p) /\ Visible(p)' = Visible(p) /\ Empty(p)' = Empty(p)
    BY <2>1 DEF At, Visible, Empty
  <2>5. pc' = "loop" => end + 2 <= next /\ Empty(end)
    <3>0. SUFFICES ASSUME next < length PROVE end + 2 <= next /\ Empty(end)
      BY <2>2, <2>3, <2>1
    <3>1. Break(end) /\ end + 1 < length
      BY <3>0, <2>1, <2>2, <2>3 DEF Break
    <3>2. At(end) = "newline" /\ At(end + 1) = "newline" /\ At(next) # "newline"
      BY <3>0, <2>2, <3>1 DEF Break
    <3>3. next # end /\ next # end + 1
      BY <3>2
    <3>4. Empty(end)
      BY <3>2 DEF Empty
    <3>5. end + 2 <= next
      BY <2>3, <3>3
    <3> QED BY <3>4, <3>5
  <2>6. \A p \in Read' : p \in Read \/ p \in shown(end)
    <3> SUFFICES ASSUME NEW p \in 0..(next - 1), Visible(p), p \notin Read
                 PROVE  p \in shown(end)
      BY <2>2, <2>4 DEF Read
    <3>1. i <= p
      BY <2>1, <2>3 DEF Read
    <3>2. p < end
      BY <2>2, <2>3 DEF Visible
    <3> QED BY <2>1, <2>3, <3>1, <3>2
  <2>7. ASSUME NEW k \in 1..Len(chunks)
        PROVE  /\ chunks[k].from \in Nat /\ chunks[k].to \in Nat
               /\ Whole(chunks[k]) /\ chunks[k].to <= i
               /\ Apart(chunks[k].to, i - 1)
    <3>1. chunks[k] \in Interval
      BY <2>1
    <3> QED BY <2>1, <3>1 DEF Paragraphs, Interval
  <2>8. (\A k \in 1..Len(chunks') : Whole(chunks'[k]))
            => (\A k \in 1..Len(chunks) : Whole(chunks[k]))'
    BY <2>1 DEF Whole, Visible, Empty, At
  <2>9. (\A k, m \in 1..Len(chunks') : k < m => Apart(chunks'[k].to, chunks'[m].from))
          => (\A k, m \in 1..Len(chunks) : k < m => Apart(chunks[k].to, chunks[m].from))'
    BY <2>1 DEF Apart, Empty, At
  <2>14. (\A k \in 1..Len(chunks') : Apart(chunks'[k].to, i' - 1))
          => (\A k \in 1..Len(chunks) : Apart(chunks[k].to, i - 1))'
    BY <2>1 DEF Apart, Empty, At
  <2>10. CASE shown(end) = {} /\ UNCHANGED chunks
    <3>1. \A k \in 1..Len(chunks) : Apart(chunks[k].to, next - 1)
      BY <2>1, <2>3, <2>7 DEF Apart
    <3>2. \A p \in Read' : \E k \in 1..Len(chunks) :
            chunks[k].from <= p /\ p < chunks[k].to
      BY <2>1, <2>6, <2>10 DEF Paragraphs
    <3>3. \A k \in 1..Len(chunks) : Whole(chunks[k]) /\ chunks[k].to <= next
      BY <2>1, <2>3, <2>7
    <3>4. \A k, l \in 1..Len(chunks) : k < l =>
            chunks[k].to <= chunks[l].from /\ Apart(chunks[k].to, chunks[l].from)
      BY <2>1 DEF Paragraphs
    <3> QED BY <2>1, <2>2, <2>8, <2>9, <2>10, <2>14, <3>1, <3>2, <3>3, <3>4
            DEF Paragraphs
  <2>11. CASE \E f, l \in shown(end) :
                /\ shown(end) \subseteq f..l
                /\ chunks' = Append(chunks, [from |-> f, to |-> l + 1])
    <3>1. PICK f \in shown(end), l \in shown(end) :
            /\ shown(end) \subseteq f..l
            /\ chunks' = Append(chunks, [from |-> f, to |-> l + 1])
      BY <2>11
    <3> DEFINE c == [from |-> f, to |-> l + 1]
               n == Len(chunks')
    <3>2. /\ f \in Nat /\ l \in Nat /\ i <= f /\ f <= l /\ l < end
          /\ Visible(f) /\ Visible(l)
      BY <2>1, <2>3, <3>1
    <3>3. c \in Interval /\ c.from = f /\ c.to = l + 1
      BY <3>2 DEF Interval
    <3>4. /\ n = Len(chunks) + 1 /\ Len(chunks) \in Nat /\ chunks'[n] = c
          /\ \A k \in 1..Len(chunks) : chunks'[k] = chunks[k]
      BY <2>1, <3>1, <3>3, Append1
    <3>5. Whole(c)
      <4>1. ASSUME NEW x \in f..(l - 1) PROVE ~Empty(x)
        <5>1. ~Break(x) /\ x + 1 < length /\ x \in Int
          BY <2>1, <2>2, <2>3, <3>2
        <5> QED BY <5>1, EmptyIsBreak
      <4>2. c.to - 1 = l /\ c.to - 2 = l - 1 /\ c.from < c.to
        BY <3>2, <3>3
      <4> HIDE DEF c
      <4> QED BY <3>2, <3>3, <4>1, <4>2 DEF Whole
    <3>6. \A k \in 1..n : Whole(chunks'[k]) /\ chunks'[k].to <= next
      <4> SUFFICES ASSUME NEW k \in 1..n
                   PROVE  Whole(chunks'[k]) /\ chunks'[k].to <= next
        OBVIOUS
      <4>1. CASE k = n
        BY <2>3, <3>2, <3>3, <3>4, <3>5, <4>1
      <4>2. CASE k # n
        <5>1. k \in 1..Len(chunks)
          BY <3>4, <4>2
        <5> QED BY <2>1, <2>3, <2>7, <3>4, <5>1
      <4> QED BY <4>1, <4>2
    <3>7. \A k, m \in 1..n : k < m =>
            /\ chunks'[k].to <= chunks'[m].from
            /\ Apart(chunks'[k].to, chunks'[m].from)
      <4> SUFFICES ASSUME NEW k \in 1..n, NEW m \in 1..n, k < m
                   PROVE  /\ chunks'[k].to <= chunks'[m].from
                          /\ Apart(chunks'[k].to, chunks'[m].from)
        OBVIOUS
      <4>1. k \in 1..Len(chunks) /\ chunks'[k] = chunks[k]
        BY <3>4
      <4>2. CASE m = n
        <5>1. chunks'[m].from = f
          BY <3>3, <3>4, <4>2
        <5>2. PICK x \in chunks[k].to..(i - 1 - 1) : Empty(x)
          BY <2>7, <4>1 DEF Apart
        <5>3. x \in chunks[k].to..(f - 1) /\ chunks[k].to <= f
          BY <2>1, <2>7, <3>2, <4>1
        <5> QED BY <4>1, <5>1, <5>2, <5>3 DEF Apart
      <4>3. CASE m # n
        <5>1. m \in 1..Len(chunks) /\ chunks'[m] = chunks[m]
          BY <3>4, <4>3
        <5> QED BY <2>1, <4>1, <5>1 DEF Paragraphs
      <4> QED BY <4>2, <4>3
    <3>8. \A p \in Read' : \E k \in 1..n : chunks'[k].from <= p /\ p < chunks'[k].to
      <4> SUFFICES ASSUME NEW p \in Read'
                   PROVE  \E k \in 1..n : chunks'[k].from <= p /\ p < chunks'[k].to
        OBVIOUS
      <4>1. CASE p \in Read
        <5>1. PICK k \in 1..Len(chunks) : chunks[k].from <= p /\ p < chunks[k].to
          BY <2>1, <4>1 DEF Paragraphs
        <5> QED BY <3>4, <5>1
      <4>2. CASE p \in shown(end)
        <5>1. p \in Int /\ f <= p /\ p <= l
          BY <3>1, <3>2, <4>2
        <5>2. n \in 1..n /\ chunks'[n].from <= p /\ p < chunks'[n].to
          BY <3>2, <3>3, <3>4, <5>1
        <5> QED BY <5>2
      <4> QED BY <2>6, <4>1, <4>2
    <3>9. ASSUME pc' = "loop", NEW k \in 1..n PROVE Apart(chunks'[k].to, next - 1)
      <4>1. CASE k = n
        <5>1. chunks'[k].to = l + 1
          BY <3>3, <3>4, <4>1
        <5>2. end \in (l + 1)..(next - 1 - 1) /\ Empty(end)
          BY <2>3, <2>5, <3>2, <3>9
        <5> QED BY <5>1, <5>2 DEF Apart
      <4>2. CASE k # n
        <5>1. k \in 1..Len(chunks) /\ chunks'[k] = chunks[k]
          BY <3>4, <4>2
        <5> QED BY <2>1, <2>3, <2>7, <5>1 DEF Apart
      <4> QED BY <4>1, <4>2
    <3>10. pc' = "done" => next = length
      BY <2>2
    <3> HIDE DEF n, c
    <3>11. n = Len(chunks')
      BY DEF n
    <3> QED BY <2>1, <2>2, <2>8, <2>9, <2>14, <3>6, <3>7, <3>8, <3>9, <3>10, <3>11
            DEF Paragraphs
  <2> QED BY <2>2, <2>10, <2>11
<1>3. CASE UNCHANGED vars
  BY <1>3 DEF vars, input, Paragraphs, Read, Whole, Apart, Empty, Visible, At
<1>4. alg' = alg
  BY DEF Next, Check, FixedIteration, FixedExit, SlidingIteration, SlidingExit,
         SemanticIteration, vars, input
<1> QED BY <1>1, <1>2, <1>3, <1>4
        DEF Next, FixedIteration, FixedExit, SlidingIteration, SlidingExit

LEMMA ParagraphsSuffice == Inv /\ Paragraphs => ParagraphsHold
<1> SUFFICES ASSUME Inv, Paragraphs, alg = "semantic" PROVE ParagraphsHold
  BY DEF ParagraphsHold
<1>1. /\ i \in Nat /\ chunks \in Seq(Interval) /\ Len(chunks) \in Nat
      /\ \A k \in 1..Len(chunks) : chunks[k].from \in Nat /\ chunks[k].to \in Nat
  <2>1. i \in Nat /\ chunks \in Seq(Interval)
    BY DEF Inv, TypeOK
  <2>2. \A k \in 1..Len(chunks) : chunks[k] \in Interval
    BY <2>1
  <2> QED BY <2>1, <2>2 DEF Interval
<1>2. \A k, l \in 1..Len(chunks) : k < l => chunks[k].to <= chunks[l].from
  BY DEF Paragraphs
<1>3. ASSUME NEW p \in Read, NEW k \in 1..Len(chunks),
             chunks[k].from <= p, p < chunks[k].to
      PROVE  ChunksWith(p) = {k}
  <2>1. ASSUME NEW l \in 1..Len(chunks), chunks[l].from <= p, p < chunks[l].to
        PROVE  l = k
    <3>1. p \in Int
      BY DEF Read
    <3> QED BY <1>1, <1>2, <1>3, <2>1, <3>1
  <2> QED BY <1>3, <2>1 DEF ChunksWith
<1>4. ASSUME NEW p \in Read
      PROVE  \E k \in 1..Len(chunks) :
               chunks[k].from <= p /\ p < chunks[k].to /\ ChunksWith(p) = {k}
  BY <1>3 DEF Paragraphs
<1>5. ASSUME NEW p \in Read, NEW q \in Read, p < q
      PROVE  ChunksWith(p) = ChunksWith(q) <=> \A x \in p..(q - 1) : ~Empty(x)
  <2>1. PICK k \in 1..Len(chunks) :
          chunks[k].from <= p /\ p < chunks[k].to /\ ChunksWith(p) = {k}
    BY <1>4
  <2>2. PICK l \in 1..Len(chunks) :
          chunks[l].from <= q /\ q < chunks[l].to /\ ChunksWith(q) = {l}
    BY <1>4
  <2>3. p \in Nat /\ q \in Nat
    BY <1>1 DEF Read
  <2>4. CASE k = l
    <3>1. \A x \in p..(q - 1) : x \in chunks[k].from..(chunks[k].to - 2)
      BY <1>1, <2>1, <2>2, <2>3, <2>4
    <3>2. \A x \in p..(q - 1) : ~Empty(x)
      BY <3>1 DEF Paragraphs, Whole
    <3> QED BY <2>1, <2>2, <2>4, <3>2
  <2>5. CASE k < l
    <3>1. PICK x \in chunks[k].to..(chunks[l].from - 1) : Empty(x)
      BY <2>5 DEF Paragraphs, Apart
    <3>2. x \in p..(q - 1)
      BY <1>1, <2>1, <2>2, <2>3, <3>1
    <3>3. k # l
      BY <1>1, <2>5
    <3> QED BY <2>1, <2>2, <3>1, <3>2, <3>3
  <2>6. CASE l < k
    BY <1>1, <1>2, <1>5, <2>1, <2>2, <2>3, <2>6
  <2> QED BY <1>1, <2>4, <2>5, <2>6
<1>6. ASSUME NEW k \in 1..Len(chunks)
      PROVE  {chunks[k].from, chunks[k].to - 1} \subseteq Read
  <2>1. /\ chunks[k].from < chunks[k].to /\ chunks[k].to <= i
        /\ Visible(chunks[k].from) /\ Visible(chunks[k].to - 1)
    BY DEF Paragraphs, Whole
  <2> QED BY <1>1, <2>1 DEF Read
<1>7. \A p, q \in Read : p < q =>
        (ChunksWith(p) = ChunksWith(q) <=>
           \A x \in p..(q - 1) : {At(x), At(x + 1)} # {"newline"})
  BY <1>5 DEF Empty
<1>8. \A p \in Read : \E k \in 1..Len(chunks) : ChunksWith(p) = {k}
  BY <1>4
<1> QED BY <1>6, <1>7, <1>8 DEF ParagraphsHold, Paragraphs

(* Whatever the text, semanticChunk keeps every visible character, in one  *)
(* chunk with those no empty line parts it from and with no others.        *)
THEOREM ParagraphsCorrect == Spec => []ParagraphsHold
<1>1. Spec => []Paragraphs
  <2>1. Init => Paragraphs
    BY ParagraphsInit
  <2>2. Inv /\ Paragraphs /\ [Next]_vars => Paragraphs'
    BY ParagraphsNext
  <2> QED BY <2>1, <2>2, InvHolds, PTL DEF Spec
<1>2. Inv /\ Paragraphs => ParagraphsHold
  BY ParagraphsSuffice
<1> QED BY <1>1, <1>2, InvHolds, PTL

----------------------------------------------------------------------------
(***************************************************************************)
(* The closed form.  Chunk k begins at (k - 1) * Step: the loop adds Step  *)
(* once per chunk, and the quotient in the reference is the number of      *)
(* steps that fit.                                                         *)
(***************************************************************************)
LEMMA QuotientIs ==
  ASSUME NEW a \in Int, NEW b \in Nat \ {0}, NEW q \in Int,
         q * b <= a, a < q * b + b
  PROVE  a \div b = q
<1> DEFINE d == a \div b
<1>1. d \in Int /\ d * b <= a /\ a < d * b + b
  OBVIOUS
<1> HIDE DEF d
<1>2. d <= q
  <2>1. SUFFICES ASSUME d >= q + 1 PROVE FALSE
    BY <1>1
  <2>2. d * b >= (q + 1) * b
    BY <1>1, <2>1
  <2>3. (q + 1) * b = q * b + b
    OBVIOUS
  <2> QED BY <1>1, <2>2, <2>3
<1>3. q <= d
  <2>1. SUFFICES ASSUME q >= d + 1 PROVE FALSE
    BY <1>1
  <2>2. q * b >= (d + 1) * b
    BY <1>1, <2>1
  <2>3. (d + 1) * b = d * b + b
    BY <1>1
  <2> QED BY <1>1, <2>2, <2>3
<1> QED BY <1>1, <1>2, <1>3 DEF d

(* What a product of a count and a step is next to its neighbours.         *)
LEMMA OneMoreStep ==
  ASSUME NEW n \in Nat, NEW b \in Int
  PROVE  /\ n * b \in Int /\ (n - 1) * b \in Int
         /\ (n + 1) * b = n * b + b /\ n * b = (n - 1) * b + b
         /\ b > 0 => n * b >= 0
         /\ b > 0 /\ n > 0 => (n - 1) * b >= 0
         /\ n = 0 => n * b = 0
<1>1. n * b \in Int /\ (n - 1) * b \in Int
  OBVIOUS
<1>2. (n + 1) * b = n * b + b /\ n * b = (n - 1) * b + b
  OBVIOUS
<1>3. b > 0 => n * b >= 0
  OBVIOUS
<1>4. b > 0 /\ n > 0 => (n - 1) * b >= 0
  OBVIOUS
<1> QED BY <1>1, <1>2, <1>3, <1>4

(* The loop has taken one step for each chunk, from 0. *)
LoopForm ==
  pc = "loop" /\ alg # "semantic" =>
    /\ i = Len(chunks) * Step
    /\ \A k \in 1..Len(chunks) : chunks[k].from = (k - 1) * Step
    /\ alg = "sliding" => length > 0

LEMMA FormInit == Init => LoopForm /\ MatchesReference
BY DEF Init, LoopForm, MatchesReference

(* Two lists of as many intervals with the same bounds are the same.       *)
LEMMA SameInterval ==
  ASSUME NEW c \in Interval, NEW d \in Interval, c.from = d.from, c.to = d.to
  PROVE  c = d
BY DEF Interval

LEMMA SameBounds ==
  ASSUME NEW s \in Seq(Interval), NEW n \in Nat, Len(s) = n,
         NEW R \in [1..n -> Interval],
         \A k \in 1..n : s[k].from = R[k].from /\ s[k].to = R[k].to
  PROVE  s = R
<1>1. s \in [1..n -> Interval]
  OBVIOUS
<1>2. ASSUME NEW k \in 1..n PROVE s[k] = R[k]
  <2>1. s[k] \in Interval /\ R[k] \in Interval
    BY <1>1
  <2> QED BY <2>1, SameInterval
<1> QED BY <1>1, <1>2

(* How the last iteration of fixedSizeChunk leaves the list. *)
LEMMA FixedEndsSo ==
  ASSUME Inv, LoopForm, FixedIteration, IsLast(i, size, length)
  PROVE  chunks' = FixedReference(length, size, arg) /\ length > 0
<1> DEFINE L == Len(chunks)  st == size - arg
           c == Slice(i, i + size, length)
<1>1. /\ pc = "loop" /\ alg = "fixed" /\ i < length /\ chunks' = Append(chunks, c)
      /\ i + size >= length /\ Step = st
  BY DEF FixedIteration, IsLast, Step, FixedStep
<1>2. /\ size \in Int /\ arg \in Int /\ length \in Nat /\ i \in Nat /\ L \in Nat
      /\ size > 0 /\ st \in Nat \ {0} /\ chunks \in Seq(Interval)
  BY <1>1 DEF Inv, TypeOK, LoopInv, Accepted
<1>3. /\ i = L * st
      /\ \A k \in 1..L : chunks[k].from = (k - 1) * st
      /\ \A k \in 1..L : chunks[k].to - chunks[k].from = size
      /\ L > 0 => chunks[L].to < length
  BY <1>1 DEF LoopForm, Inv, LoopInv, Last
<1>4. c.from = i /\ c.to = length /\ c \in Interval
  BY <1>1, <1>2 DEF Slice, Interval
<1>5. /\ chunks' \in Seq(Interval) /\ Len(chunks') = L + 1
      /\ \A k \in 1..L : chunks'[k] = chunks[k] /\ chunks[k] \in Interval
      /\ chunks'[L + 1] = c
  <2>1. chunks' = Append(chunks, c)
    BY <1>1
  <2> HIDE DEF c
  <2> QED BY <1>2, <1>4, <2>1, Append1
<1>6. /\ (L - 1) * st \in Int /\ L * st = (L - 1) * st + st
      /\ L > 0 => (L - 1) * st >= 0
      /\ L = 0 => L * st = 0
  BY <1>2, OneMoreStep
<1>7. L > 0 => (L - 1) * st + size < length
  <2> SUFFICES ASSUME L > 0 PROVE (L - 1) * st + size < length
    OBVIOUS
  <2>1. L \in 1..L
    BY <1>2
  <2>2. /\ chunks[L].to - chunks[L].from = size /\ chunks[L].from = (L - 1) * st
        /\ chunks[L].to < length /\ chunks[L] \in Interval
    BY <1>3, <1>5, <2>1
  <2>3. chunks[L].to \in Nat
    BY <2>2 DEF Interval
  <2> HIDE DEF L, st
  <2> QED BY <1>2, <1>6, <2>2, <2>3
<1> DEFINE count == IF length <= size THEN 1 ELSE 1 + CeilDiv(length - size, st)
<1>8. count = L + 1
  <2>1. CASE length <= size
    <3>1. L = 0
      <4> HIDE DEF st
      <4> QED BY <1>2, <1>6, <1>7, <2>1
    <3> QED BY <2>1, <3>1
  <2>2. CASE length > size
    <3> DEFINE a == length - size + st - 1
    <3>1. L > 0
      <4> HIDE DEF st
      <4> QED BY <1>1, <1>2, <1>3, <1>6, <2>2
    <3>2. a \in Int /\ L * st <= a /\ a < L * st + st
      <4> HIDE DEF st, L
      <4> QED BY <1>1, <1>2, <1>3, <1>6, <1>7, <3>1
    <3>3. a \div st = L
      <4> HIDE DEF a, st, L
      <4> QED BY <1>2, <3>2, QuotientIs
    <3>4. CeilDiv(length - size, st) = L
      BY <3>3 DEF CeilDiv
    <3> HIDE DEF L
    <3> QED BY <1>2, <2>2, <3>4
  <2> QED BY <1>2, <2>1, <2>2
<1> DEFINE R == FixedReference(length, size, arg)
<1>9. R = [k \in 1..(L + 1) |->
             [from |-> (k - 1) * st,
              to |-> IF k = L + 1 THEN length ELSE (k - 1) * st + size]]
  BY <1>8 DEF FixedReference
<1>10. \A k \in 1..(L + 1) :
         /\ chunks'[k] \in Interval
         /\ chunks'[k].from = R[k].from /\ chunks'[k].to = R[k].to
  <2> SUFFICES ASSUME NEW k \in 1..(L + 1)
               PROVE  /\ chunks'[k] \in Interval
                      /\ chunks'[k].from = R[k].from /\ chunks'[k].to = R[k].to
    OBVIOUS
  <2>1. R[k].from = (k - 1) * st
        /\ R[k].to = IF k = L + 1 THEN length ELSE (k - 1) * st + size
    BY <1>9
  <2>2. CASE k = L + 1
    <3>1. (k - 1) * st = L * st
      BY <1>2, <2>2
    <3> HIDE DEF L, R, st, c
    <3> QED BY <1>3, <1>4, <1>5, <2>1, <2>2, <3>1
  <2>3. CASE k # L + 1
    <3>1. k \in 1..L
      BY <1>2, <2>3
    <3>2. /\ chunks'[k] = chunks[k] /\ chunks[k] \in Interval
          /\ chunks[k].from = (k - 1) * st /\ chunks[k].to - chunks[k].from = size
      BY <1>3, <1>5, <3>1
    <3>3. chunks[k].to \in Nat /\ chunks[k].from \in Nat
      BY <3>2 DEF Interval
    <3> DEFINE at == (k - 1) * st
    <3>4. /\ chunks[k].from = at /\ chunks[k].to - chunks[k].from = size
          /\ R[k].from = at /\ R[k].to = at + size
      BY <2>1, <2>3, <3>2
    <3>5. chunks[k].to = at + size
      <4> HIDE DEF L, R, st, at
      <4> QED BY <1>2, <3>3, <3>4
    <3> HIDE DEF L, R, st, at
    <3> QED BY <3>2, <3>4, <3>5
  <2> QED BY <2>2, <2>3
<1>11. R \in [1..(L + 1) -> Interval]
  <2>1. \A k \in 1..(L + 1) : R[k] \in Interval
    <3> SUFFICES ASSUME NEW k \in 1..(L + 1) PROVE R[k] \in Interval
      OBVIOUS
    <3>1. /\ R[k] = [from |-> R[k].from, to |-> R[k].to]
      BY <1>9
    <3>2. R[k].from \in Nat /\ R[k].to \in Nat
      BY <1>10 DEF Interval
    <3> HIDE DEF R
    <3> QED BY <3>1, <3>2 DEF Interval
  <2>2. R = [k \in 1..(L + 1) |-> R[k]]
    BY <1>9
  <2> HIDE DEF R
  <2> QED BY <2>1, <2>2
<1> HIDE DEF L, R
<1>12. chunks' = R
  <2> DEFINE n == L + 1
  <2>1. n \in Nat /\ Len(chunks') = n /\ chunks' \in Seq(Interval)
    BY <1>2, <1>5
  <2>2. /\ R \in [1..n -> Interval]
        /\ \A k \in 1..n : chunks'[k].from = R[k].from /\ chunks'[k].to = R[k].to
    BY <1>10, <1>11
  <2> HIDE DEF n
  <2> QED BY <2>1, <2>2, SameBounds
<1> QED BY <1>1, <1>2, <1>12 DEF R

(* The for loop ends by its condition only for an empty text. *)
LEMMA FixedExitIsEmpty ==
  ASSUME Inv, FixedExit
  PROVE  chunks = <<>> /\ length = 0 /\ UNCHANGED <<input, chunks>>
<1>1. /\ pc = "loop" /\ alg = "fixed" /\ i >= length /\ length \in Nat
      /\ size \in Int /\ arg \in Int /\ 0 <= arg /\ arg < size
      /\ chunks \in Seq(Interval) /\ UNCHANGED <<input, chunks>>
  BY DEF FixedExit, Inv, TypeOK, LoopInv, Accepted
<1>2. ASSUME Len(chunks) > 0 PROVE FALSE
  <2>1. Last \in Interval
    BY <1>1, <1>2 DEF Last
  <2>2. /\ Last.to - Last.from = size /\ i = Last.from + (size - arg)
        /\ Last.to < length
    BY <1>1, <1>2 DEF Inv, LoopInv, Last, Step, FixedStep
  <2>3. Last.from \in Nat /\ Last.to \in Nat
    BY <2>1 DEF Interval
  <2> HIDE DEF Last
  <2> QED BY <1>1, <2>2, <2>3
<1>3. Len(chunks) = 0
  BY <1>1, <1>2
<1>4. chunks = <<>>
  BY <1>1, <1>3
<1>5. length = 0
  BY <1>1, <1>3 DEF Inv, LoopInv
<1> QED BY <1>1, <1>4, <1>5

(* How the end of slidingWindowChunk leaves the list: the windows that     *)
(* fit, and the rest of the text if there is any.                          *)
LEMMA SlidingEndsSo ==
  ASSUME Inv, LoopForm, SlidingExit
  PROVE  chunks' = SlidingReference(length, size, arg) /\ length > 0
<1> DEFINE L == Len(chunks)
           c == Slice(i, length, length)
           more == L * arg < length
           count == IF more THEN L + 1 ELSE L
<1>1. /\ pc = "loop" /\ alg = "sliding" /\ i + size > length /\ Step = arg
      /\ chunks' = IF i < length THEN Append(chunks, c) ELSE chunks
  BY DEF SlidingExit, Fits, Step, Inv, TypeOK
<1>2. /\ size \in Int /\ arg \in Nat \ {0} /\ length \in Nat /\ i \in Nat /\ L \in Nat
      /\ size > 0 /\ chunks \in Seq(Interval)
  BY <1>1 DEF Inv, TypeOK, LoopInv, Accepted
<1>3. /\ i = L * arg /\ length > 0
      /\ \A k \in 1..L : chunks[k].from = (k - 1) * arg
  BY <1>1 DEF LoopForm
<1>4. /\ \A k \in 1..L : chunks[k].to - chunks[k].from = size
      /\ \A k \in 1..L : chunks[k].to <= length
  BY <1>1 DEF Inv, LoopInv, SizesHold
<1>5. \A k \in 1..L : chunks[k] \in Interval
  BY <1>2
<1>6. /\ (L - 1) * arg \in Int /\ L * arg = (L - 1) * arg + arg
      /\ L > 0 => (L - 1) * arg >= 0
      /\ L = 0 => L * arg = 0
  BY <1>2, OneMoreStep
<1>7. L > 0 => (L - 1) * arg + size <= length
  <2> SUFFICES ASSUME L > 0 PROVE (L - 1) * arg + size <= length
    OBVIOUS
  <2>1. L \in 1..L
    BY <1>2
  <2>2. /\ chunks[L].to - chunks[L].from = size /\ chunks[L].from = (L - 1) * arg
        /\ chunks[L].to <= length /\ chunks[L] \in Interval
    BY <1>3, <1>4, <1>5, <2>1
  <2>3. chunks[L].to \in Nat
    BY <2>2 DEF Interval
  <2> HIDE DEF L
  <2> QED BY <1>2, <1>6, <2>2, <2>3
<1> DEFINE windows == IF length < size THEN 0 ELSE 1 + (length - size) \div arg
<1>8. windows = L
  <2>1. CASE length < size
    <3>1. L = 0
      <4> HIDE DEF L
      <4> QED BY <1>2, <1>6, <1>7, <2>1
    <3> QED BY <2>1, <3>1
  <2>2. CASE length >= size
    <3> DEFINE a == length - size  q == L - 1
    <3>1. L > 0
      <4> HIDE DEF L
      <4> QED BY <1>1, <1>2, <1>3, <1>6, <2>2
    <3>2. a \in Int /\ q \in Int /\ q * arg <= a /\ a < q * arg + arg
      <4> HIDE DEF L
      <4> QED BY <1>1, <1>2, <1>3, <1>6, <1>7, <3>1
    <3>3. a \div arg = q
      <4> HIDE DEF a, q, L
      <4> QED BY <1>2, <3>2, QuotientIs
    <3> HIDE DEF L
    <3> QED BY <1>2, <2>2, <3>3
  <2> QED BY <1>2, <2>1, <2>2
<1> DEFINE R == SlidingReference(length, size, arg)
<1>9. R = [k \in 1..count |->
             [from |-> (k - 1) * arg,
              to |-> IF k <= L THEN (k - 1) * arg + size ELSE length]]
  BY <1>8 DEF SlidingReference
<1>10. /\ chunks' \in Seq(Interval) /\ Len(chunks') = count
       /\ \A k \in 1..L : chunks'[k] = chunks[k]
       /\ more => chunks'[L + 1] = [from |-> i, to |-> length]
  <2>1. CASE more
    <3>1. c = [from |-> i, to |-> length] /\ c \in Interval
      BY <1>2 DEF Slice, Interval
    <3>2. chunks' = Append(chunks, c)
      BY <1>1, <1>3, <2>1
    <3>3. /\ chunks' \in Seq(Interval) /\ Len(chunks') = L + 1
          /\ \A k \in 1..L : chunks'[k] = chunks[k]
          /\ chunks'[L + 1] = c
      <4> HIDE DEF c
      <4> QED BY <1>2, <3>1, <3>2, Append1
    <3> QED BY <2>1, <3>1, <3>3
  <2>2. CASE ~more
    BY <1>1, <1>2, <1>3, <2>2
  <2> QED BY <2>1, <2>2
<1>11. \A k \in 1..count :
         /\ chunks'[k] \in Interval
         /\ chunks'[k].from = R[k].from /\ chunks'[k].to = R[k].to
  <2> SUFFICES ASSUME NEW k \in 1..count
               PROVE  /\ chunks'[k] \in Interval
                      /\ chunks'[k].from = R[k].from /\ chunks'[k].to = R[k].to
    OBVIOUS
  <2>1. R[k].from = (k - 1) * arg
        /\ R[k].to = IF k <= L THEN (k - 1) * arg + size ELSE length
    BY <1>9
  <2>2. CASE k > L
    <3>1. more /\ k = L + 1
      BY <1>2, <2>2
    <3>2. (k - 1) * arg = L * arg
      BY <1>2, <3>1
    <3>3. chunks'[k] = [from |-> i, to |-> length] /\ ~(k <= L)
      BY <1>2, <1>10, <3>1
    <3>4. chunks'[k] \in Interval
      BY <1>2, <3>3 DEF Interval
    <3> HIDE DEF L, R, count
    <3> QED BY <1>3, <2>1, <3>2, <3>3, <3>4
  <2>3. CASE k <= L
    <3>1. k \in 1..L
      BY <1>2, <2>3
    <3>2. /\ chunks'[k] = chunks[k] /\ chunks[k] \in Interval
          /\ chunks[k].from = (k - 1) * arg /\ chunks[k].to - chunks[k].from = size
      BY <1>3, <1>4, <1>5, <1>10, <3>1
    <3>3. chunks[k].to \in Nat /\ chunks[k].from \in Nat
      BY <3>2 DEF Interval
    <3> DEFINE at == (k - 1) * arg
    <3>4. /\ chunks[k].from = at /\ chunks[k].to - chunks[k].from = size
          /\ R[k].from = at /\ R[k].to = at + size
      BY <2>1, <2>3, <3>2
    <3>5. chunks[k].to = at + size
      <4> HIDE DEF L, R, at
      <4> QED BY <1>2, <3>3, <3>4
    <3> HIDE DEF L, R, at, count
    <3> QED BY <3>2, <3>4, <3>5
  <2> QED BY <1>2, <2>2, <2>3
<1>12. R \in [1..count -> Interval]
  <2>1. \A k \in 1..count : R[k] \in Interval
    <3> SUFFICES ASSUME NEW k \in 1..count PROVE R[k] \in Interval
      OBVIOUS
    <3>1. R[k] = [from |-> R[k].from, to |-> R[k].to]
      BY <1>9
    <3>2. R[k].from \in Nat /\ R[k].to \in Nat
      BY <1>11 DEF Interval
    <3> HIDE DEF R, count
    <3> QED BY <3>1, <3>2 DEF Interval
  <2>2. R = [k \in 1..count |-> R[k]]
    BY <1>9
  <2> HIDE DEF R, count
  <2> QED BY <2>1, <2>2
<1>13. count \in Nat
  BY <1>2
<1> HIDE DEF L, R, count
<1>14. chunks' = R
  BY <1>10, <1>11, <1>12, <1>13, SameBounds
<1> QED BY <1>3, <1>14 DEF R

(* A chunk pushed where the loop stands, and a step, keep the form. *)
LEMMA FormStep ==
  ASSUME Inv, LoopForm, pc = "loop", pc' = "loop", alg # "semantic",
         UNCHANGED input, i' = i + Step, i < length,
         chunks' = Append(chunks, Slice(i, i + size, length))
  PROVE  LoopForm'
<1> DEFINE L == Len(chunks)  c == Slice(i, i + size, length)
<1>1. /\ size \in Int /\ arg \in Int /\ length \in Nat /\ i \in Nat /\ size > 0
      /\ chunks \in Seq(Interval) /\ L \in Nat /\ Step \in Int
  BY DEF Inv, TypeOK, LoopInv, Accepted, Step, FixedStep
<1>2. c \in Interval /\ c.from = i
  BY <1>1 DEF Slice, Interval
<1>3. /\ Len(chunks') = L + 1 /\ chunks'[L + 1] = c
      /\ \A k \in 1..L : chunks'[k] = chunks[k]
  <2>1. chunks' = Append(chunks, c)
    OBVIOUS
  <2> HIDE DEF c
  <2> QED BY <1>1, <1>2, <2>1, Append1
<1>4. Step' = Step /\ alg' = alg /\ length' = length
  BY DEF Step, input
<1>5. i = L * Step /\ \A k \in 1..L : chunks[k].from = (k - 1) * Step
  BY DEF LoopForm
<1>6. i' = (L + 1) * Step
  <2>1. (L + 1) * Step = L * Step + Step
    BY <1>1, OneMoreStep
  <2> QED BY <1>5, <2>1
<1>7. ASSUME NEW k \in 1..(L + 1) PROVE chunks'[k].from = (k - 1) * Step
  <2>1. CASE k = L + 1
    <3>1. k - 1 = L
      BY <1>1, <2>1
    <3> QED BY <1>2, <1>3, <1>5, <2>1, <3>1
  <2>2. CASE k # L + 1
    <3>1. k \in 1..L
      BY <1>1, <2>2
    <3> QED BY <1>3, <1>5, <3>1
  <2> QED BY <2>1, <2>2
<1>8. alg = "sliding" => length > 0
  BY <1>1
<1> HIDE DEF c
<1> QED BY <1>3, <1>4, <1>6, <1>7, <1>8 DEF LoopForm

LEMMA FormNext == Inv /\ LoopForm /\ MatchesReference /\ [Next]_vars
                    => (LoopForm /\ MatchesReference)'
<1> SUFFICES ASSUME Inv, LoopForm, MatchesReference, [Next]_vars
             PROVE  LoopForm' /\ MatchesReference'
  OBVIOUS
<1>1. CASE Check
  <2>1. /\ chunks = <<>> /\ i = 0 /\ chunks' = <<>> /\ i' = 0 /\ UNCHANGED input
        /\ pc' = "done" => length = 0
        /\ pc' = "loop" /\ alg = "sliding" => length # 0
        /\ length \in Nat /\ size \in Int /\ arg \in Int
    BY <1>1 DEF Check, Inv, TypeOK, input
  <2>2. Step \in Int /\ Step' = Step
    BY <2>1 DEF Step, FixedStep, input
  <2>3. 0 * Step = 0
    BY <2>2
  <2>4. LoopForm'
    BY <2>1, <2>2, <2>3 DEF LoopForm, input
  <2>5. MatchesReference'
    BY <2>1 DEF MatchesReference, input
  <2> QED BY <2>4, <2>5
<1>2. CASE FixedIteration /\ IsLast(i, size, length)
  <2>1. /\ chunks' = FixedReference(length, size, arg) /\ length > 0
        /\ alg = "fixed" /\ pc' = "done" /\ UNCHANGED input /\ length \in Nat
    BY <1>2, FixedEndsSo DEF FixedIteration, Inv, TypeOK
  <2> QED BY <2>1 DEF LoopForm, MatchesReference, input
<1>3. CASE FixedIteration /\ ~IsLast(i, size, length)
  <2>1. /\ pc = "loop" /\ pc' = "loop" /\ alg = "fixed" /\ UNCHANGED input
        /\ i' = i + Step /\ i < length
        /\ chunks' = Append(chunks, Slice(i, i + size, length))
    BY <1>3 DEF FixedIteration, Step
  <2> QED BY <2>1, FormStep DEF MatchesReference
<1>4. CASE FixedExit
  <2>1. /\ chunks' = <<>> /\ length = 0 /\ UNCHANGED input
        /\ alg = "fixed" /\ pc' = "done"
    BY <1>4, FixedExitIsEmpty DEF FixedExit
  <2> QED BY <2>1 DEF LoopForm, MatchesReference, input
<1>5. CASE SlidingIteration
  <2>1. /\ pc = "loop" /\ pc' = "loop" /\ alg = "sliding" /\ UNCHANGED input
        /\ i' = i + Step
        /\ chunks' = Append(chunks, Slice(i, i + size, length))
    BY <1>5 DEF SlidingIteration, Step
  <2>2. i < length
    BY <1>5 DEF SlidingIteration, Fits, Inv, TypeOK, LoopInv, Accepted
  <2> QED BY <2>1, <2>2, FormStep DEF MatchesReference
<1>6. CASE SlidingExit
  <2>1. /\ chunks' = SlidingReference(length, size, arg) /\ length > 0
        /\ alg = "sliding" /\ pc' = "done" /\ UNCHANGED input /\ length \in Nat
    BY <1>6, SlidingEndsSo DEF SlidingExit, Inv, TypeOK
  <2> QED BY <2>1 DEF LoopForm, MatchesReference, input
<1>7. CASE SemanticIteration
  BY <1>7 DEF SemanticIteration, LoopForm, MatchesReference, input
<1>8. CASE UNCHANGED vars
  BY <1>8 DEF vars, input, LoopForm, MatchesReference, Step
<1> QED BY <1>1, <1>2, <1>3, <1>4, <1>5, <1>6, <1>7, <1>8 DEF Next

(* fixedSizeChunk and slidingWindowChunk return what the closed form says, *)
(* for every text and all arguments: ceil((n - size) / step) chunks beyond *)
(* the first, or every window that fits and the rest of the text.          *)
THEOREM ResultsMatchReference == Spec => []MatchesReference
<1>1. Spec => [](LoopForm /\ MatchesReference)
  BY FormInit, FormNext, InvHolds, PTL DEF Spec
<1> QED BY <1>1, PTL

(* Every iteration that does not end its loop begins before the end of the *)
(* text and moves on, whichever the chunker: none of the loops runs for    *)
(* ever, and none runs more than length + 1 times.                         *)
THEOREM EveryLoopAdvances == Spec => LoopsAdvance
<1>1. Inv /\ [Next]_vars
        => [pc = "loop" /\ pc' = "loop" => i < length /\ i < i']_vars
  <2> SUFFICES ASSUME Inv, Next, pc = "loop", pc' = "loop"
               PROVE  i < length /\ i < i'
    OBVIOUS
  <2>1. length \in Nat /\ size \in Int /\ arg \in Int /\ i \in Nat
    BY DEF Inv, TypeOK
  <2>2. alg # "semantic" => Accepted
    BY DEF Inv, LoopInv
  <2>3. CASE FixedIteration
    <3>1. i < length /\ i' = i + FixedStep(size, arg) /\ alg = "fixed"
      BY <2>3 DEF FixedIteration
    <3> QED BY <2>1, <2>2, <3>1 DEF Accepted, FixedStep
  <2>4. CASE SlidingIteration
    <3>1. i + size <= length /\ i' = i + arg /\ alg = "sliding"
      BY <2>4 DEF SlidingIteration, Fits
    <3> QED BY <2>1, <2>2, <3>1 DEF Accepted
  <2>5. CASE SemanticIteration
    <3>1. PICK end \in i..length, next \in i..length :
            /\ end = length \/ Break(end)
            /\ end <= next
            /\ next < length => At(next) # "newline"
            /\ i' = next /\ pc' = IF next = length THEN "done" ELSE "loop"
      BY <2>5 DEF SemanticIteration
    <3>2. next < length /\ end < length
      BY <2>1, <3>1
    <3>3. At(end) = "newline" /\ At(next) # "newline"
      BY <3>1, <3>2 DEF Break
    <3>4. end # next
      BY <3>3
    <3> QED BY <2>1, <3>1, <3>2, <3>4
  <2> QED BY <2>3, <2>4, <2>5 DEF Next, Check, FixedExit, SlidingExit
<1> QED BY <1>1, InvHolds, PTL DEF Spec, LoopsAdvance

==============================================================================
