------------------------------- MODULE Chunker -------------------------------
(***************************************************************************)
(* chunker/ast_chunker.py: which lines of a file become chunks.             *)
(*                                                                         *)
(* A file is the sequence of its lines, of which only matters whether they  *)
(* are blank, and the sequence of its symbols' spans <<start, end, top>>,   *)
(* top saying that the module is their parent.  A chunk is the range of     *)
(* lines <<start, end>> that its id is made of.                             *)
(***************************************************************************)
EXTENDS Integers, SequencesExt, TLC

CONSTANTS
    MaxLines,  \* lines per chunk (200 in the code)
    Overlap    \* lines that two pieces of a definition share (5 in the code)

ASSUME ChunkAssumption == MaxLines \in Nat /\ Overlap \in Nat /\ Overlap < MaxLines

Least(a, b) == IF a < b THEN a ELSE b

Lines(chunk) == chunk[1]..chunk[2]

\* Mutant of SplitToChunks: the last piece is as long as the others.
SplitFull(start, end, overlap) ==
    LET split[s \in Nat] ==
            LET e == s + MaxLines - 1 IN
            IF e >= end THEN <<<<s, e>>>> ELSE <<<<s, e>>>> \o split[e - overlap + 1]
    IN  IF start > end THEN << >> ELSE split[start]

\* _split_to_chunks; a start beyond the end gives no chunk.
SplitToChunks(start, end, overlap) ==
    LET split[s \in Nat] ==
            LET e == Least(s + MaxLines - 1, end) IN
            IF e = end THEN <<<<s, e>>>> ELSE <<<<s, e>>>> \o split[e - overlap + 1]
    IN  IF start > end THEN << >> ELSE split[start]

\* _top_level_symbols, which sorted() leaves in order where they start together.
TopLevel(spans) ==
    LET top == SelectSeq(spans, LAMBDA s : s[3])
        order == SortSeq([k \in DOMAIN top |-> k],
                         LAMBDA j, k : \/ top[j][1] < top[k][1]
                                       \/ top[j][1] = top[k][1] /\ j < k)
    IN  [k \in DOMAIN top |-> top[order[k]]]

SymbolChunks(blank, spans) ==
    FlattenSeq([k \in DOMAIN TopLevel(spans) |->
        SplitToChunks(TopLevel(spans)[k][1], Least(TopLevel(spans)[k][2], Len(blank)), Overlap)])

Covered(chunks) == UNION {Lines(c) : c \in ToSet(chunks)}

\* Mutant of CoverGaps: a gap is taken to be blank by its first line.
CoverGapsByFirst(blank, covered) ==
    LET gap(i) == CHOOSE j \in i..Len(blank) :
                      (i..j) \cap covered = {} /\ (j = Len(blank) \/ j + 1 \in covered)
        from[i \in 1..(Len(blank) + 1)] ==
            IF i > Len(blank) THEN << >>
            ELSE IF i \in covered THEN from[i + 1]
            ELSE (IF blank[i] THEN << >> ELSE SplitToChunks(i, gap(i), 0)) \o from[gap(i) + 1]
    IN  from[1]

\* _cover_gaps: the scan from line i on; a gap that is all blank is left out.
CoverGaps(blank, covered) ==
    LET gap(i) == CHOOSE j \in i..Len(blank) :
                      (i..j) \cap covered = {} /\ (j = Len(blank) \/ j + 1 \in covered)
        from[i \in 1..(Len(blank) + 1)] ==
            IF i > Len(blank) THEN << >>
            ELSE IF i \in covered THEN from[i + 1]
            ELSE (IF \A j \in i..gap(i) : blank[j] THEN << >> ELSE SplitToChunks(i, gap(i), 0))
                 \o from[gap(i) + 1]
    IN  from[1]

\* chunk_file
ChunkFile(blank, spans) ==
    LET chunks == SymbolChunks(blank, spans)
    IN  IF blank = << >> THEN << >> ELSE chunks \o CoverGaps(blank, Covered(chunks))

-----------------------------------------------------------------------------
(***************************************************************************)
(* The same, said of the lines.                                             *)
(***************************************************************************)
\* Lines that belong to some definition of the module.
Owned(blank, spans) ==
    UNION {s[1]..Least(s[2], Len(blank)) : s \in {x \in ToSet(spans) : x[3]}}

\* Line i is outside every definition, and nothing but blank lines separates
\* it from the definitions before and after it.
Idle(i, blank, spans) ==
    \E j, k \in DOMAIN blank :
        /\ i \in j..k
        /\ \A l \in j..k : blank[l] /\ l \notin Owned(blank, spans)
        /\ j = 1 \/ j - 1 \in Owned(blank, spans)
        /\ k = Len(blank) \/ k + 1 \in Owned(blank, spans)

\* Every line is in a chunk, apart from the idle ones.
CoversExactly(blank, spans) ==
    Covered(ChunkFile(blank, spans)) = {i \in DOMAIN blank : ~Idle(i, blank, spans)}

\* A chunk is a piece of one definition or of the lines between two.
NeverMixes(blank, spans) ==
    \A c \in ToSet(ChunkFile(blank, spans)) :
        /\ c[1] <= c[2] /\ c[2] - c[1] < MaxLines
        /\ \/ Lines(c) \cap Owned(blank, spans) = {}
           \/ \E s \in ToSet(spans) : s[3] /\ Lines(c) \subseteq s[1]..s[2]
=============================================================================
