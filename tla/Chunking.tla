------------------------------- MODULE Chunking -------------------------------
(***************************************************************************)
(* The three chunkers of src/src/utils/chunking.ts, one action per chunk.  *)
(* A chunk is the half-open interval of positions it was sliced from; what *)
(* the characters are matters to semanticChunk alone.                      *)
(***************************************************************************)
EXTENDS Integers, Sequences

CONSTANTS Lengths,  \* lengths of the text
          Numbers,  \* values callers pass for size, overlap and step
          Texts     \* texts for semanticChunk

Characters == {"visible", "space", "newline"}

ASSUME ConstantsAssumption ==
  /\ Lengths \subseteq Nat /\ Numbers \subseteq Int
  /\ Texts \subseteq Seq(Characters)

VARIABLES alg,      \* "fixed", "sliding" or "semantic"
          text,     \* of "semantic"
          length,   \* text.length
          size,     \* size, or chunkSize
          arg,      \* overlap of "fixed", step of "sliding"
          i,        \* position of the loop
          chunks,
          pc

input == <<alg, text, length, size, arg>>
vars == <<input, i, chunks, pc>>

Init ==
  /\ \/ /\ alg \in {"fixed", "sliding"}
        /\ text = <<>>
        /\ length \in Lengths /\ size \in Numbers /\ arg \in Numbers
     \/ /\ alg = "semantic"
        /\ text \in Texts
        /\ length = Len(text) /\ size = 0 /\ arg = 0
  /\ i = 0
  /\ chunks = <<>>
  /\ pc = "check"

(* Operators named Bad... are slips this code could have made; nothing     *)
(* uses them, each breaks some property below.                             *)
BadAccepted(z, a) == z > 0 /\ a >= 0 /\ a <= z     \* overlap > size throws
FixedAccepts(z, a) == z > 0 /\ a >= 0 /\ a < z
BadStep(z, a) == z                                 \* the overlap forgotten
BadDirection(z, a) == a - z                        \* a step backwards
FixedStep(z, a) == z - a
BadSlice(a, b, n) == [from |-> a, to |-> b]        \* beyond the end
(* text.slice *)
Slice(a, b, n) == [from |-> a, to |-> IF b < n THEN b ELSE n]
BadIsLast(at, z, n) == FALSE                       \* no break
BadIsLastEarly(at, z, n) == at + z >= n - 1        \* off by one
IsLast(at, z, n) == at + z >= n
BadFits(at, z, n) == at + z < n                    \* not <=
Fits(at, z, n) == at + z <= n

(* The checks on the arguments, if any: an empty text comes first but for  *)
(* fixed.                                                                  *)
Check ==
  /\ pc = "check"
  /\ pc' = IF alg = "fixed"
           THEN IF FixedAccepts(size, arg) THEN "loop" ELSE "error"
           ELSE IF length = 0 THEN "done"
           ELSE IF alg = "semantic" \/ (size > 0 /\ arg > 0)
                THEN "loop" ELSE "error"
  /\ UNCHANGED <<input, i, chunks>>

(* for (i = 0; i < text.length; i += step), with its break. *)
FixedIteration ==
  /\ pc = "loop" /\ alg = "fixed"
  /\ i < length
  /\ chunks' = Append(chunks, Slice(i, i + size, length))
  /\ IF IsLast(i, size, length)
     THEN pc' = "done" /\ UNCHANGED i
     ELSE i' = i + FixedStep(size, arg) /\ UNCHANGED pc
  /\ UNCHANGED input

(* The condition of the for is false: only an empty text ends this way.    *)
FixedExit ==
  /\ pc = "loop" /\ alg = "fixed"
  /\ i >= length
  /\ pc' = "done"
  /\ UNCHANGED <<input, i, chunks>>

(* while (i + chunkSize <= text.length) *)
SlidingIteration ==
  /\ pc = "loop" /\ alg = "sliding"
  /\ Fits(i, size, length)
  /\ chunks' = Append(chunks, Slice(i, i + size, length))
  /\ i' = i + arg
  /\ UNCHANGED <<input, pc>>

SlidingExit ==
  /\ pc = "loop" /\ alg = "sliding"
  /\ ~Fits(i, size, length)
  /\ chunks' = IF i < length THEN Append(chunks, Slice(i, length, length))
                             ELSE chunks
  /\ pc' = "done"
  /\ UNCHANGED <<input, i>>

(* Positions count from 0. *)
At(p) == text[p + 1]
Visible(p) == At(p) = "visible"
BadBreak(p) == p < length /\ At(p) = "newline"       \* /\n+/
(* /\n{2,}/ matches at p. *)
Break(p) == p + 1 < length /\ At(p) = "newline" /\ At(p + 1) = "newline"

(* The next segment ends where the next separator begins, which takes all  *)
(* the newlines there are; it is trimmed, and dropped if nothing is left.  *)
SemanticIteration ==
  /\ pc = "loop" /\ alg = "semantic"
  /\ \E end \in i..length, next \in i..length :
       /\ end = length \/ Break(end)
       /\ \A p \in i..(end - 1) : ~Break(p)
       /\ end <= next /\ \A p \in end..(next - 1) : At(p) = "newline"
       /\ next < length => At(next) # "newline"
       /\ LET shown == {p \in i..(end - 1) : Visible(p)}
          IN  \/ shown = {} /\ UNCHANGED chunks
              \/ \E f, l \in shown :
                   /\ shown \subseteq f..l
                   /\ chunks' = Append(chunks, [from |-> f, to |-> l + 1])
       /\ i' = next
       /\ pc' = IF next = length THEN "done" ELSE "loop"
  /\ UNCHANGED input

Next ==
  \/ Check \/ FixedIteration \/ FixedExit \/ SlidingIteration \/ SlidingExit
  \/ SemanticIteration

Spec == Init /\ [][Next]_vars

----------------------------------------------------------------------------
Interval == [from: Nat, to: Nat]
(* The loop keeps its types. *)
TypeOK ==
  /\ alg \in {"fixed", "sliding", "semantic"}
  /\ text \in Seq(Characters)
  /\ length \in Nat /\ size \in Int /\ arg \in Int /\ i \in Nat
  /\ chunks \in Seq(Interval)
  /\ pc \in {"check", "loop", "done", "error"}

Step == IF alg = "fixed" THEN FixedStep(size, arg) ELSE arg
Reach == IF chunks = <<>> THEN 0 ELSE chunks[Len(chunks)].to

(* No fixed chunk or window is empty, runs past the text or is longer than *)
(* asked, and only the last may be shorter.                                *)
SizesHold ==
  alg # "semantic" =>
    \A k \in 1..Len(chunks) :
      /\ chunks[k].from < chunks[k].to
      /\ chunks[k].to <= length
      /\ chunks[k].to - chunks[k].from <= size
      /\ k < Len(chunks) => chunks[k].to - chunks[k].from = size

(* fixedSizeChunk: each chunk begins with the last `overlap` characters of *)
(* the one before, and brings at least one new character.                  *)
OverlapIsExact ==
  alg = "fixed" => \A k \in 2..Len(chunks) :
                     chunks[k - 1].to - chunks[k].from = arg
NothingRedundant ==
  alg = "fixed" => \A k \in 2..Len(chunks) : chunks[k - 1].to < chunks[k].to

(* No character is lost: those before the end of the last chunk lie in     *)
(* some chunk, and at the end that is all of them; for sliding windows     *)
(* provided the step is not larger than the window.                        *)
Covered(p) == \E k \in 1..Len(chunks) : chunks[k].from <= p /\ p < chunks[k].to
NothingLost ==
  alg # "semantic" /\ Step <= size =>
    /\ \A p \in 0..(Reach - 1) : Covered(p)
    /\ pc = "done" => Reach = length

(* semanticChunk: what it has read so far lies in its chunks except for    *)
(* white space at their ends, each character in one chunk; two characters  *)
(* share a chunk exactly if no empty line lies between them.               *)
Read == {p \in 0..(i - 1) : Visible(p)}
ChunksWith(p) ==
  {k \in 1..Len(chunks) : chunks[k].from <= p /\ p < chunks[k].to}
ParagraphsHold ==
  alg = "semantic" =>
    /\ \A p \in Read : \E k \in 1..Len(chunks) : ChunksWith(p) = {k}
    /\ \A p, q \in Read : p < q =>
         (ChunksWith(p) = ChunksWith(q) <=>
            \A x \in p..(q - 1) : {At(x), At(x + 1)} # {"newline"})
    /\ \A k \in 1..Len(chunks) : {chunks[k].from, chunks[k].to - 1} \subseteq Read
    /\ pc = "done" => i = length

(* An iteration that does not end its loop begins before the end of the    *)
(* text and moves on, so that none of the three loops runs for ever: a     *)
(* step of zero or less is what the checks on the arguments must keep out. *)
LoopsAdvance ==
  [][pc = "loop" /\ pc' = "loop" => i < length /\ i < i']_vars

(* The closed form of the results of fixedSizeChunk and slidingWindowChunk. *)
CeilDiv(a, b) == (a + b - 1) \div b
FixedReference(n, z, a) ==
  LET count == IF n <= z THEN 1 ELSE 1 + CeilDiv(n - z, z - a)
      start(k) == (k - 1) * (z - a)
  IN  [k \in 1..count |-> [from |-> start(k),
                           to |-> IF k = count THEN n ELSE start(k) + z]]
SlidingReference(n, z, s) ==
  LET windows == IF n < z THEN 0 ELSE 1 + (n - z) \div s
      count == IF windows * s < n THEN windows + 1 ELSE windows
  IN  [k \in 1..count |-> [from |-> (k - 1) * s,
                           to |-> IF k <= windows THEN (k - 1) * s + z ELSE n]]
MatchesReference ==
  pc = "done" /\ alg # "semantic" =>
    chunks = IF length = 0 THEN <<>>
             ELSE IF alg = "fixed" THEN FixedReference(length, size, arg)
             ELSE SlidingReference(length, size, arg)

============================================================================
