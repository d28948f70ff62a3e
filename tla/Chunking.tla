------------------------------ MODULE Chunking ------------------------------
(***************************************************************************)
(* How the text of a source is cut into chunks (ingest/chunking.py).       *)
(*                                                                         *)
(* A section that fits the target is one chunk; a longer one is cut into   *)
(* windows that end at a blank where there is one and start an overlap     *)
(* before the end of the one before.  Pieces are stripped, and a piece is  *)
(* not stored if one that differs from it in blanks only has been          *)
(* (ingest/hashing.py).  Offsets count from 0, as in the code; sizes are   *)
(* in characters.                                                          *)
(***************************************************************************)
EXTENDS Integers, Sequences, FiniteSets, FiniteSetsExt

CONSTANTS
  Letters,    \* characters that are not blank
  MaxLength,  \* bound: characters of a section
  MaxTarget,  \* bound: target_tokens * 4
  MaxOverlap  \* bound: overlap_tokens * 4

Space == " "
Newline == "\n"
Blank == {Space, Newline}

ASSUME ChunkingAssumption ==
  /\ Letters \cap Blank = {}
  /\ MaxLength \in Nat /\ MaxTarget \in Nat \ {0} /\ MaxOverlap \in Nat

VARIABLES
  text,     \* the section in hand
  target, overlap,
  start,    \* where the next window begins
  chunks,   \* the pieces stored
  spans,    \* history: <<from, to>> of every window, to excluded
  phase        \* "section", "windows", "done"

chunkVars == <<text, target, overlap, start, chunks, spans, phase>>

Texts == UNION {[1..n -> Letters \cup Blank] : n \in 0..MaxLength}

Slice(s, from, to) == SubSeq(s, from + 1, to)
Strip(s) ==
  LET solid == {i \in DOMAIN s : s[i] \notin Blank}
  IN IF solid = {} THEN <<>> ELSE SubSeq(s, Min(solid), Max(solid))

(* hash_text of what has been stripped: each run of blanks is one space. *)
Squeezed(s) ==
  LET Upto[i \in 0..Len(s)] ==
        IF i = 0 THEN <<>>
        ELSE IF s[i] \notin Blank THEN Append(Upto[i - 1], s[i])
        ELSE IF s[i - 1] \in Blank THEN Upto[i - 1]
        ELSE Append(Upto[i - 1], Space)
  IN  Upto[Len(s)]

(* text.rfind(c, from, to): -1 if there is none. *)
RFind(s, c, from, to) ==
  LET found == {i \in from..(to - 1) : s[i + 1] = c}
  IN IF found = {} THEN -1 ELSE Max(found)

ChunkInit ==
  /\ text \in Texts
  /\ target \in 1..MaxTarget /\ overlap \in 0..MaxOverlap
  /\ start = 0 /\ chunks = {} /\ spans = {} /\ phase = "section"

HashSeen(piece) == \E c \in chunks : Squeezed(c) = Squeezed(piece)

(* Add a window's text, unless nothing is left of it or its hash is there. *)
AddChunk(from, to) ==
  LET piece == Strip(Slice(text, from, to))
  IN /\ chunks' = IF piece = <<>> \/ HashSeen(piece) THEN chunks ELSE chunks \cup {piece}
     /\ spans' = spans \cup {<<from, to>>}

Fits(s) == Len(s) <= target

(* Strip the section, and cut it only if it does not fit. *)
Section ==
  LET body == Strip(text)
  IN /\ phase = "section"
     /\ text' = body
     /\ IF ~Fits(body)
        THEN phase' = "windows" /\ UNCHANGED <<chunks, spans>>
        ELSE /\ phase' = "done"
             /\ chunks' = {body} \ {<<>>}
             /\ spans' = IF body = <<>> THEN {} ELSE {<<0, Len(body)>>}
     /\ UNCHANGED <<target, overlap, start>>

(* The last space behind the start, else the last newline, else a hard cut. *)
Boundary(from, to) ==
  LET space == RFind(text, Space, from + 1, to)
      newline == RFind(text, Newline, from + 1, to)
  IN IF space > from THEN space ELSE IF newline > from THEN newline ELSE to

(* Mutant of NextStart: the overlap is taken whatever comes of it. *)
NextStartAlways(from, boundary) == Max({0, boundary - overlap})
NextStart(from, boundary) ==
  IF boundary - overlap > from THEN boundary - overlap ELSE boundary

Window ==
  LET boundary == Boundary(start, start + target)
  IN /\ phase = "windows" /\ start + target < Len(text)
     /\ AddChunk(start, boundary)
     /\ start' = NextStart(start, boundary)
     /\ UNCHANGED <<text, target, overlap, phase>>

(* Mutant of LastWindow: a remainder shorter than the overlap is dropped. *)
LastWindowDrops ==
  /\ phase = "windows" /\ start + target >= Len(text)
  /\ IF Len(text) - start > overlap THEN AddChunk(start, Len(text))
     ELSE UNCHANGED <<chunks, spans>>
  /\ phase' = "done"
  /\ UNCHANGED <<text, target, overlap, start>>
LastWindow ==
  /\ phase = "windows" /\ start + target >= Len(text)
  /\ AddChunk(start, Len(text))
  /\ phase' = "done"
  /\ UNCHANGED <<text, target, overlap, start>>

ChunkNext == Section \/ Window \/ LastWindow

ChunkSpec == ChunkInit /\ [][ChunkNext]_chunkVars /\ WF_chunkVars(ChunkNext)

-----------------------------------------------------------------------------
(* Properties.                                                             *)

(* Nothing of a section is lost: every character that is not blank is in a
   window of the section, and what the window has is stored, or a piece of the
   same words is (hashing.py:20-25); no two stored pieces have the same words,
   and none is longer than the target (chunking.py:41-42). *)
NothingLost ==
  /\ \A w \in spans : w[1] \in 0..(w[2] - 1) /\ w[2] <= Len(text)
  /\ \A c \in chunks : Len(c) \in 1..target
  /\ \A c, d \in chunks : Squeezed(c) = Squeezed(d) => c = d
  /\ phase = "done" =>
       \A i \in DOMAIN text : text[i] \notin Blank =>
         \E w \in spans :
           w[1] < i /\ i <= w[2] /\ HashSeen(Strip(Slice(text, w[1], w[2])))

(* The loop goes forward: a window starts behind the start of every earlier one
   and does not end before it, though the end is looked for anew in text that
   the earlier window may have had. *)
WindowsAdvance ==
  [][/\ phase = "windows" /\ phase' = "windows" => start < start'
     /\ \A w \in spans' \ spans : \A v \in spans :
          v[1] < w[1] /\ v[2] <= w[2]]_chunkVars

(* The loop ends, whatever the sizes: an overlap as long as the window, or longer,
   does not set it back. *)
Ends == <>(phase = "done")
=============================================================================
