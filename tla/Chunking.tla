------------------------------ MODULE Chunking ------------------------------
(***************************************************************************)
(* How the text of a document is cut for indexing (knowledge/chunking.py): *)
(* its lines are gathered into blocks, one line at a time, and each block  *)
(* is split into fragments that overlap.                                   *)
(*                                                                         *)
(* A line is what the regular expressions tell apart: a page marker, a     *)
(* heading of level 1 or 2, a table row, a blank line, a clause number on  *)
(* a line of its own (indented or not), a clause that opens with its text, *)
(* a clause that introduces a list, an item of the lists' upper or lower   *)
(* level, or other text: a clause that opens with its text is other text   *)
(* where it is indented, or where nothing is between number and text.  A   *)
(* line is named by its position.                                          *)
(***************************************************************************)
EXTENDS Integers, Sequences, FiniteSets

CONSTANTS
  MaxLines,   \* bound: lines of a document
  MaxLength,  \* bound: characters of a block
  MaxSize     \* bound: max_chars of a policy

ASSUME ChunkingAssumption ==
  MaxLines \in Nat /\ MaxLength \in Nat \ {0} /\ MaxSize \in Nat \ {0}

VARIABLES
  text,      \* the lines read so far
  headings,  \* the headings over the current line
  page,      \* the current page, 0 before the first marker
  open,      \* the block being gathered
  blocks,    \* the blocks that are closed
  split      \* the block being split

vars == <<text, headings, page, open, blocks, split>>

\* Clauses that begin their line and introduce no list.
Clauses == {"clause", "opening"}
Items   == {"parent", "item"}
Bodies  == {"table", "text", "intro", "indented"} \cup Clauses \cup Items
Lines   == {"page", "h1", "h2", "blank"} \cup Bodies

Level(line) == IF line = "h1" THEN 1 ELSE 2

NoBlock == [lines |-> <<>>, type |-> "paragraph", from |-> 0]

\* max, overlap: the policy; start: where the next fragment begins; cut: the fragments,
\* each from its first character to the one after its last.
NoSplit == [phase |-> "none", length |-> 0, breaks |-> {}, max |-> 1, overlap |-> 0,
            start |-> 0, cut |-> <<>>]

Init ==
  /\ text = <<>> /\ headings = <<>> /\ page = 0
  /\ open = NoBlock /\ blocks = <<>> /\ split = NoSplit

-----------------------------------------------------------------------------
(* chunk(): the lines *)

First == text[open.lines[1]]
Last  == text[open.lines[Len(open.lines)]]

\* flush()
Flushed ==
  IF open.lines = <<>> THEN blocks
  ELSE Append(blocks, [lines |-> open.lines, type |-> open.type, path |-> headings,
                       from |-> open.from, to |-> IF page # 0 THEN page ELSE open.from])

\* Mutant: the block begins on the page of its last line.
GatheredOnOldPage(b) ==
  [b EXCEPT !.lines = Append(@, Len(text) + 1), !.from = page]
\* The next line joins block b.
Gathered(b) ==
  [b EXCEPT !.lines = Append(@, Len(text) + 1), !.from = IF @ = 0 THEN page ELSE @]

Reads(line) ==
  /\ split.phase = "none" /\ Len(text) < MaxLines
  /\ text' = Append(text, line)
  /\ UNCHANGED split

ReadPage ==
  /\ Reads("page")
  /\ page' = page + 1
  /\ UNCHANGED <<headings, open, blocks>>

ReadHeading ==
  \E line \in {"h1", "h2"} :
    /\ Reads(line)
    /\ blocks' = Flushed /\ open' = NoBlock
    /\ LET kept == IF Len(headings) < Level(line) THEN headings
                   ELSE SubSeq(headings, 1, Level(line) - 1)
       IN headings' = Append(kept, Len(text) + 1)
    /\ UNCHANGED page

ReadTable ==
  /\ Reads("table")
  /\ IF open.lines # <<>> /\ open.type # "table"
     THEN blocks' = Flushed /\ open' = [Gathered(NoBlock) EXCEPT !.type = "table"]
     ELSE blocks' = blocks /\ open' = [Gathered(open) EXCEPT !.type = "table"]
  /\ UNCHANGED <<headings, page>>

\* _pending_tail_is_enumeration(), or a clause that introduces a list
Listing == open.lines # <<>> /\ Last \in Items \cup {"intro"}

\* A clause number, and nothing else yet.
LoneNumber == Len(open.lines) = 1 /\ First \in {"clause", "indented"}

\* Mutant: a blank line ends a list.
JoinedToClause == LoneNumber
\* A blank line after a lone clause number or within a list does not end the block.
Joined == Listing \/ LoneNumber

ReadBlank ==
  /\ Reads("blank")
  /\ IF Joined THEN UNCHANGED <<blocks, open>> ELSE blocks' = Flushed /\ open' = NoBlock
  /\ UNCHANGED <<headings, page>>

\* In a list, a clause that begins its line and introduces no list begins a block, and so
\* does an item of the upper level after one of the lower, unless a clause introduced them
\* all.  The clause is looked for in the line as it is: an indented one joins the list.
Parted(line) ==
  /\ Listing
  /\ \/ line \in Clauses
     \/ line = "parent" /\ Last = "item" /\ First # "intro"

ReadText ==
  \E line \in Bodies \ {"table"} :
    /\ Reads(line)
    /\ IF Parted(line) THEN blocks' = Flushed /\ open' = Gathered(NoBlock)
       ELSE blocks' = blocks /\ open' = Gathered(open)
    /\ UNCHANGED <<headings, page>>

-----------------------------------------------------------------------------
(* _split(): each block by itself *)

Policies == {p \in [max: 1 .. MaxSize, overlap: 0 .. MaxSize] : p.overlap < p.max}

\* The last block is closed; each block is split by itself, so one is.
TakeBlock ==
  /\ split.phase = "none" /\ Flushed # <<>>
  /\ split' = [split EXCEPT !.phase = "taken"]
  /\ text' = <<>> /\ headings' = <<>> /\ page' = 0 /\ open' = NoBlock /\ blocks' = <<>>

\* It has some number of characters, and full stops or line ends among them.
BeginSplit ==
  /\ split.phase = "taken"
  /\ \E length \in 1 .. MaxLength, policy \in Policies :
       \E breaks \in SUBSET (0 .. length - 1) :
         split' = [NoSplit EXCEPT !.phase = "cutting", !.length = length, !.breaks = breaks,
                                  !.max = policy.max, !.overlap = policy.overlap]
  /\ UNCHANGED <<text, headings, page, open, blocks>>

\* The window ends after its last break, if that is past its middle.
WindowEnd(s) == IF s.start + s.max < s.length THEN s.start + s.max ELSE s.length
Breaks(s) == {b \in s.breaks : s.start + s.max \div 2 < b /\ b < WindowEnd(s)}
CutEnd(s) ==
  IF WindowEnd(s) < s.length /\ Breaks(s) # {}
    THEN 1 + CHOOSE b \in Breaks(s) : \A c \in Breaks(s) : c <= b
    ELSE WindowEnd(s)

\* Mutant: the next fragment skips what overlaps.
NextStartAfter(s, end) == end + s.overlap
NextStart(s, end) == IF s.start < end - s.overlap THEN end - s.overlap ELSE s.start + 1

CutFragment ==
  /\ split.phase = "cutting"
  /\ LET end == CutEnd(split)
     IN split' = [split EXCEPT
          !.cut = Append(@, [from |-> split.start, to |-> end]),
          !.start = IF end = split.length THEN @ ELSE NextStart(split, end),
          !.phase = IF end = split.length THEN "done" ELSE "cutting"]
  /\ UNCHANGED <<text, headings, page, open, blocks>>

-----------------------------------------------------------------------------
Next == ReadPage \/ ReadHeading \/ ReadTable \/ ReadBlank \/ ReadText
        \/ TakeBlock \/ BeginSplit \/ CutFragment

Spec == Init /\ [][Next]_vars

-----------------------------------------------------------------------------
(* Properties *)

In(seq) == {seq[k] : k \in 1 .. Len(seq)}
Positions(kinds) == {i \in 1 .. Len(text) : text[i] \in kinds}
Headings == Positions({"h1", "h2"})
PageOf(i) == Cardinality({j \in Positions({"page"}) : j < i})

\* Nothing of a document is lost on the way into its blocks: every line with content is in
\* one block, in its place, under its heading, and on a page the block names.
NothingLost ==
  /\ In(open.lines) \cup UNION {In(blocks[k].lines) : k \in 1 .. Len(blocks)}
       = Positions(Bodies)
  /\ \A k \in 1 .. Len(blocks) :
       LET b == blocks[k] IN
       /\ \A m, n \in 1 .. Len(b.lines) : m < n => b.lines[m] < b.lines[n]
       /\ \A l \in k + 1 .. Len(blocks) : \A i \in In(b.lines), j \in In(blocks[l].lines) : i < j
       /\ \A j \in In(open.lines) : \A i \in In(b.lines) : i < j
       /\ \A i \in In(b.lines) :
            /\ \A h \in Headings : h < i =>
                 b.path # <<>> /\ h <= b.path[Len(b.path)] /\ b.path[Len(b.path)] < i
            /\ PageOf(i) # 0 => b.from <= PageOf(i) /\ PageOf(i) <= b.to

\* Lines with only blank lines or page markers between them.
Adjacent(i, j) ==
  /\ i < j /\ {i, j} \subseteq Positions(Bodies)
  /\ \A k \in i + 1 .. j - 1 : text[k] \in {"blank", "page"}

Block(i) == IF i \in In(open.lines) THEN open.lines
            ELSE blocks[CHOOSE k \in 1 .. Len(blocks) : i \in In(blocks[k].lines)].lines

\* Blank lines and page markers do not scatter a list over blocks: what comes next after an
\* item, or after the clause that introduces the list, is in one block with it, and that is
\* the next clause too if it is indented or introduces a list of its own.  The list keeps
\* apart from any other clause and, unless a clause introduced it, from an item of the upper
\* level after one of the lower.
ListsHoldTogether ==
  \A i, j \in Positions(Bodies) :
    Adjacent(i, j) /\ text[i] \in Items \cup {"intro"} /\ text[j] # "table" =>
      (Block(i) = Block(j) <=>
         /\ text[j] \notin Clauses
         /\ text[i] = "item" /\ text[j] = "parent" => text[Block(i)[1]] = "intro")

\* Whatever the policy and wherever the breaks are, no fragment is larger than the policy
\* allows, each begins later than the one before and leaves no gap to it, and together
\* they are the whole block (strip() then takes the white space off a fragment's ends).
FragmentsCover ==
  LET cut == split.cut IN
  /\ cut # <<>> => cut[1].from = 0
  /\ \A k \in 1 .. Len(cut) :
       /\ cut[k].from < cut[k].to /\ cut[k].to <= split.length
       /\ cut[k].to - cut[k].from <= split.max
       /\ k < Len(cut) => cut[k].from < cut[k + 1].from /\ cut[k + 1].from <= cut[k].to
  /\ split.phase = "done" => cut # <<>> /\ cut[Len(cut)].to = split.length
=============================================================================
