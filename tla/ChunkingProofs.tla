--------------------------- MODULE ChunkingProofs ---------------------------
(***************************************************************************)
(* Proofs about Chunking, for documents of any length and any block,       *)
(* policy and breaks: the fragments of a block keep to the policy and      *)
(* leave nothing out, every line is in its place in one block, and lists   *)
(* hold together.                                                          *)
(***************************************************************************)
EXTENDS Chunking, FiniteSetTheorems, WellFoundedInduction, TLAPS

-----------------------------------------------------------------------------
(* The window: where the next fragment ends and the one after it begins.   *)

\* A bounded set of numbers has a largest one.
LEMMA LargestExists ==
  ASSUME NEW S \in SUBSET Nat, S # {}, NEW n \in Nat, \A b \in S : b <= n
  PROVE  \E b \in S : \A c \in S : c <= b
<1> DEFINE T == {n - b : b \in S}
           R == OpToRel(<, Nat)
<1>1. T \subseteq Nat /\ T # {}
  <2>1. \A b \in S : n - b \in Nat
    OBVIOUS
  <2> QED
    BY ONLY <2>1, S # {}
<1>2. PICK x \in T : \A y \in T : <<y, x>> \notin R
  <2>1. IsWellFoundedOn(R, Nat)
    BY NatLessThanWellFounded
  <2> HIDE DEF R, T
  <2> QED
    BY ONLY <1>1, <2>1, WFMin, Zenon
<1>3. PICK b \in S : x = n - b
  BY <1>2
<1>4. \A c \in S : ~(n - c < x)
  BY <1>1, <1>2 DEF OpToRel
<1> QED
  BY <1>3, <1>4

\* A block that is being cut, at a place inside it.
Cutting(s) ==
  /\ s.length \in Nat /\ s.max \in Nat \ {0} /\ s.overlap \in Nat /\ s.overlap < s.max
  /\ s.breaks \subseteq Nat /\ s.start \in Nat /\ s.start < s.length

\* The fragment is neither empty nor longer than the policy allows.
LEMMA CutEndFits ==
  ASSUME NEW s, Cutting(s)
  PROVE  /\ CutEnd(s) \in Nat
         /\ s.start < CutEnd(s) /\ CutEnd(s) <= s.length
         /\ CutEnd(s) <= s.start + s.max
<1> USE DEF Cutting
<1>1. /\ WindowEnd(s) \in Nat /\ s.start < WindowEnd(s)
      /\ WindowEnd(s) <= s.length /\ WindowEnd(s) <= s.start + s.max
  BY DEF WindowEnd
<1>2. CASE WindowEnd(s) < s.length /\ Breaks(s) # {}
  <2> DEFINE S == Breaks(s)
             end == CHOOSE b \in S : \A c \in S : c <= b
  <2>1. s.max \div 2 \in Nat
    BY DEF Cutting
  <2>2. /\ S \in SUBSET Nat
        /\ \A b \in S : s.start <= b /\ b < WindowEnd(s)
    BY <1>1, <2>1 DEF Breaks
  <2>3. \E b \in S : \A c \in S : c <= b
    <3> HIDE DEF S
    <3>1. \A b \in S : b <= s.length
      BY <1>1, <2>2
    <3> QED
      BY <1>2, <2>2, <3>1, LargestExists DEF S
  <2>4. end \in S
    BY <2>3
  <2>5. CutEnd(s) = 1 + end
    BY <1>2 DEF CutEnd
  <2> HIDE DEF S, end
  <2> QED
    BY <1>1, <2>2, <2>4, <2>5
<1>3. CASE ~(WindowEnd(s) < s.length /\ Breaks(s) # {})
  BY <1>1, <1>3 DEF CutEnd
<1> QED
  BY <1>2, <1>3

\* The next fragment begins after this one does, and no later than this one ends.
LEMMA NextStartFits ==
  ASSUME NEW s, Cutting(s), NEW end \in Nat, s.start < end
  PROVE  /\ NextStart(s, end) \in Nat
         /\ s.start < NextStart(s, end) /\ NextStart(s, end) <= end
  BY DEF Cutting, NextStart

-----------------------------------------------------------------------------
(* The inductive invariant: the fragments so far cover the block up to the *)
(* place where the next one begins.                                        *)

Fragment == [from: Nat, to: Nat]

SplitInv ==
  /\ split \in [phase: {"none", "taken", "cutting", "done"}, length: Nat,
                breaks: SUBSET Nat, max: Nat \ {0}, overlap: Nat, start: Nat,
                cut: Seq(Fragment)]
  /\ split.overlap < split.max
  /\ split.phase \in {"none", "taken"} => split.cut = <<>>
  /\ split.phase = "cutting" =>
       LET cut == split.cut IN
       /\ split.start < split.length
       /\ cut = <<>> => split.start = 0
       /\ cut # <<>> => cut[Len(cut)].from < split.start /\ split.start <= cut[Len(cut)].to

CInv == SplitInv /\ FragmentsCover

LEMMA InitCInv == Init => CInv
  BY DEF Init, CInv, SplitInv, FragmentsCover, NoSplit, Fragment

LEMMA NextCInv == CInv /\ [Next]_vars => CInv'
<1> SUFFICES ASSUME CInv, [Next]_vars PROVE CInv'
  OBVIOUS
<1> USE DEF CInv
\* Reading a document splits nothing.
<1>1. ASSUME UNCHANGED split PROVE CInv'
  BY <1>1 DEF SplitInv, FragmentsCover
<1>2. ASSUME TakeBlock PROVE CInv'
  <2>1. split.phase = "none" /\ split' = [split EXCEPT !.phase = "taken"]
    BY <1>2 DEF TakeBlock
  <2> QED
    BY <2>1 DEF SplitInv, FragmentsCover
<1>3. ASSUME BeginSplit PROVE CInv'
  <2>1. PICK length \in 1 .. MaxLength, policy \in Policies, breaks \in SUBSET Nat :
          split' = [phase |-> "cutting", length |-> length, breaks |-> breaks,
                    max |-> policy.max, overlap |-> policy.overlap, start |-> 0,
                    cut |-> <<>>]
    <3>1. PICK length \in 1 .. MaxLength, policy \in Policies :
            \E breaks \in SUBSET (0 .. length - 1) :
              split' = [NoSplit EXCEPT !.phase = "cutting", !.length = length,
                          !.breaks = breaks, !.max = policy.max, !.overlap = policy.overlap]
      BY <1>3 DEF BeginSplit
    <3>2. PICK breaks \in SUBSET (0 .. length - 1) :
            split' = [NoSplit EXCEPT !.phase = "cutting", !.length = length,
                        !.breaks = breaks, !.max = policy.max, !.overlap = policy.overlap]
      BY <3>1
    <3>3. breaks \in SUBSET Nat
      <4>1. \A b \in 0 .. length - 1 : b \in Nat
        OBVIOUS
      <4> QED
        BY ONLY <4>1
    <3> QED
      BY <3>2, <3>3 DEF NoSplit
  <2>2. /\ policy.max \in Nat \ {0} /\ policy.overlap \in Nat
        /\ policy.overlap < policy.max
    BY ChunkingAssumption DEF Policies
  <2>3. length \in Nat /\ 0 < length
    BY ChunkingAssumption
  <2> QED
    BY <2>1, <2>2, <2>3 DEF SplitInv, FragmentsCover, Fragment
<1>4. ASSUME CutFragment PROVE CInv'
  <2> DEFINE s   == split
             end == CutEnd(s)
             new == [from |-> s.start, to |-> end]
             cut == s.cut
  <2>1. Cutting(s)
    BY <1>4 DEF CutFragment, SplitInv, Cutting
  <2>2. /\ end \in Nat /\ s.start < end /\ end <= s.length
        /\ end - s.start <= s.max /\ s.max \in Nat /\ s.start \in Nat
    BY <2>1, CutEndFits DEF Cutting
  <2>3. /\ NextStart(s, end) \in Nat
        /\ s.start < NextStart(s, end) /\ NextStart(s, end) <= end
    BY <2>1, <2>2, NextStartFits
  <2>4. split' = [s EXCEPT !.cut = Append(cut, new),
                           !.start = IF end = s.length THEN @ ELSE NextStart(s, end),
                           !.phase = IF end = s.length THEN "done" ELSE "cutting"]
    BY <1>4 DEF CutFragment
  <2>5. s.phase = "cutting"
    BY <1>4 DEF CutFragment
  <2> HIDE DEF end
  <2>6. /\ new \in Fragment /\ cut \in Seq(Fragment)
        /\ split'.cut = Append(cut, new)
        /\ split'.length = s.length /\ split'.max = s.max
    BY <2>2, <2>4 DEF SplitInv, Fragment
  <2>7. /\ Len(split'.cut) = Len(cut) + 1 /\ Len(cut) \in Nat
        /\ \A k \in 1 .. Len(cut) : split'.cut[k] = cut[k] /\ cut[k] \in Fragment
        /\ split'.cut[Len(cut) + 1] = new
        /\ split'.cut # <<>>
    BY <2>6
  <2>8. SplitInv'
    <3>1. split' \in [phase: {"none", "taken", "cutting", "done"}, length: Nat,
                      breaks: SUBSET Nat, max: Nat \ {0}, overlap: Nat, start: Nat,
                      cut: Seq(Fragment)]
      <4>1. /\ (IF end = s.length THEN s.start ELSE NextStart(s, end)) \in Nat
            /\ (IF end = s.length THEN "done" ELSE "cutting") \in {"cutting", "done"}
            /\ Append(cut, new) \in Seq(Fragment)
        BY <2>2, <2>3, <2>6
      <4> QED
        BY <2>4, <4>1 DEF SplitInv
    <3>2. split'.phase \in {"cutting", "done"} /\ split'.overlap = split.overlap
      BY <2>4 DEF SplitInv
    <3>3. ASSUME split'.phase = "cutting"
          PROVE  end # s.length /\ split'.start = NextStart(s, end)
      BY <2>4, <3>3 DEF SplitInv
    <3>4. ASSUME split'.phase = "cutting"
          PROVE  /\ split'.start < split'.length /\ split'.cut # <<>>
                 /\ split'.cut[Len(split'.cut)].from < split'.start
                 /\ split'.start <= split'.cut[Len(split'.cut)].to
      <4>1. split'.cut[Len(split'.cut)] = new /\ split'.cut # <<>>
        BY <2>7
      <4>2. split'.start < s.length
        BY <2>2, <2>3, <3>3, <3>4 DEF SplitInv
      <4> QED
        BY <2>3, <2>6, <3>3, <3>4, <4>1, <4>2
    <3> QED
      BY <2>6, <3>1, <3>2, <3>4 DEF SplitInv
  <2>9. FragmentsCover'
    <3>1. split'.phase = "done" => end = s.length
      BY <2>4 DEF SplitInv
    <3>2. split'.cut[1].from = 0
      <4>1. CASE cut = <<>>
        BY <2>5, <2>7, <4>1 DEF SplitInv
      <4>2. CASE cut # <<>>
        BY <2>6, <2>7, <4>2 DEF FragmentsCover
      <4> QED
        BY <4>1, <4>2
    <3>3. ASSUME NEW k \in 1 .. Len(cut)
          PROVE  /\ cut[k].from < cut[k].to /\ cut[k].to <= s.length
                 /\ cut[k].to - cut[k].from <= s.max
                 /\ cut[k].from < split'.cut[k + 1].from
                 /\ split'.cut[k + 1].from <= cut[k].to
      <4>1. CASE k = Len(cut)
        <5>1. cut # <<>>
          BY <2>7, <4>1
        <5> QED
          BY <2>5, <2>7, <4>1, <5>1 DEF FragmentsCover, SplitInv
      <4>2. CASE k # Len(cut)
        <5>1. k + 1 \in 1 .. Len(cut) /\ k < Len(cut)
          BY <2>7, <4>2
        <5> QED
          BY <2>7, <5>1 DEF FragmentsCover
      <4> QED
        BY <4>1, <4>2
    <3>4. ASSUME NEW k \in 1 .. Len(split'.cut)
          PROVE  /\ split'.cut[k].from < split'.cut[k].to
                 /\ split'.cut[k].to <= split'.length
                 /\ split'.cut[k].to - split'.cut[k].from <= split'.max
                 /\ k < Len(split'.cut) =>
                      /\ split'.cut[k].from < split'.cut[k + 1].from
                      /\ split'.cut[k + 1].from <= split'.cut[k].to
      <4>1. CASE k = Len(cut) + 1
        BY <2>2, <2>6, <2>7, <4>1
      <4>2. CASE k # Len(cut) + 1
        <5>1. k \in 1 .. Len(cut)
          BY <2>7, <4>2
        <5> QED
          BY <2>6, <2>7, <3>3, <5>1
      <4> QED
        BY <4>1, <4>2
    <3> QED
      BY <2>6, <2>7, <3>1, <3>2, <3>4 DEF FragmentsCover
  <2> QED
    BY <2>8, <2>9
<1>5. ASSUME ReadPage \/ ReadHeading \/ ReadTable \/ ReadBlank \/ ReadText
      PROVE  UNCHANGED split
  BY <1>5 DEF ReadPage, ReadHeading, ReadTable, ReadBlank, ReadText, Reads
<1> QED
  BY <1>1, <1>2, <1>3, <1>4, <1>5 DEF Next, vars

\* ChunkingPolicy._split(): whatever the policy, the length of the block and its breaks,
\* the fragments keep to max_chars, move on, leave no gap and reach the end.
THEOREM SplitLosesNothing == Spec => []FragmentsCover
<1>1. Spec => []CInv
  BY InitCInv, NextCInv, PTL DEF Spec
<1> QED
  BY <1>1, PTL DEF CInv
-----------------------------------------------------------------------------
(* Reading: the text t, the headings h, the page p, the open block o and   *)
(* the closed ones bs.  They are parameters, so that a step that closes a  *)
(* block and begins another one is a step of closing, then one of          *)
(* gathering.                                                              *)

Types     == {"paragraph", "table"}
OpenBlock == [lines: Seq(Nat), type: Types, from: Nat]
Closed    == [lines: Seq(Nat), type: Types, path: Seq(Nat), from: Nat, to: Nat]
ListKinds == Items \cup {"intro"}

At(t, kinds)      == {i \in 1 .. Len(t) : t[i] \in kinds}
PagesBefore(t, i) == Cardinality({j \in At(t, {"page"}) : j < i})

Increasing(s) == \A m, n \in 1 .. Len(s) : m < n => s[m] < s[n]
Before(r, s)  == \A i \in In(r), j \in In(s) : i < j

Typed(t, h, p, o, bs) ==
  t \in Seq(Lines) /\ h \in Seq(Nat) /\ p \in Nat /\ o \in OpenBlock /\ bs \in Seq(Closed)

\* The last heading over the line is the last one read.
Headed(t, h) ==
  /\ \A i \in At(t, {"h1", "h2"}) : h # <<>> /\ i <= h[Len(h)]
  /\ h # <<>> => h[Len(h)] \in At(t, {"h1", "h2"})

Kept(t, o, bs) ==
  /\ In(o.lines) \subseteq At(t, Bodies)
  /\ \A k \in 1 .. Len(bs) : In(bs[k].lines) \subseteq At(t, Bodies)
  /\ \A i \in At(t, Bodies) : i \in In(o.lines) \/ \E k \in 1 .. Len(bs) : i \in In(bs[k].lines)

Ordered(o, bs) ==
  /\ Increasing(o.lines)
  /\ \A k \in 1 .. Len(bs) :
       /\ Increasing(bs[k].lines) /\ Before(bs[k].lines, o.lines)
       /\ \A l \in k + 1 .. Len(bs) : Before(bs[k].lines, bs[l].lines)

\* The open block began under the last heading, on the page of its first numbered line.
OpenFits(t, p, o) ==
  /\ o.from <= p
  /\ \A i \in In(o.lines) :
       /\ \A hd \in At(t, {"h1", "h2"}) : hd < i
       /\ o.from = 0 => PagesBefore(t, i) = 0
       /\ PagesBefore(t, i) # 0 => o.from <= PagesBefore(t, i)

Fits(t, b) ==
  \A i \in In(b.lines) :
    /\ \A hd \in At(t, {"h1", "h2"}) :
         hd < i => b.path # <<>> /\ hd <= b.path[Len(b.path)] /\ b.path[Len(b.path)] < i
    /\ PagesBefore(t, i) # 0 => b.from <= PagesBefore(t, i) /\ PagesBefore(t, i) <= b.to

Gathering(t, h, p, o, bs) ==
  /\ Typed(t, h, p, o, bs)
  /\ p = PagesBefore(t, Len(t) + 1)
  /\ Headed(t, h)
  /\ Kept(t, o, bs)
  /\ Ordered(o, bs)
  /\ OpenFits(t, p, o)
  /\ \A k \in 1 .. Len(bs) : Fits(t, bs[k])

\* flush(), and a line that joins a block.
Closes(h, p, o, bs) ==
  IF o.lines = <<>> THEN bs
  ELSE Append(bs, [lines |-> o.lines, type |-> o.type, path |-> h,
                   from |-> o.from, to |-> IF p # 0 THEN p ELSE o.from])
Joins(t, p, o, type) ==
  [lines |-> Append(o.lines, Len(t) + 1), type |-> type, from |-> IF o.from = 0 THEN p ELSE o.from]

\* Line j of the text is the next one after line i.
NextTo(t, i, j) ==
  /\ i < j /\ {i, j} \subseteq At(t, Bodies)
  /\ \A k \in i + 1 .. j - 1 : t[k] \in {"blank", "page"}

ListsHeld(t, s) ==
  \A i \in In(s) : \A j \in At(t, Bodies) :
    NextTo(t, i, j) /\ t[i] \in ListKinds /\ t[j] # "table" =>
      (j \in In(s) <=>
         /\ t[j] \notin Clauses
         /\ t[i] = "item" /\ t[j] = "parent" => t[s[1]] = "intro")

\* A list that only blank lines and page markers follow is still open.
ListOpen(t, o) ==
  \A i \in At(t, ListKinds) :
    (\A k \in i + 1 .. Len(t) : t[k] \in {"blank", "page"}) =>
      o.lines # <<>> /\ o.lines[Len(o.lines)] = i

Listed(t, o, bs) ==
  /\ ListsHeld(t, o.lines)
  /\ \A k \in 1 .. Len(bs) : ListsHeld(t, bs[k].lines)
  /\ ListOpen(t, o)

ReadInv == Gathering(text, headings, page, open, blocks) /\ Listed(text, open, blocks)

\* A line more: the lines before it stay where they are.
LEMMA OneLineMore ==
  ASSUME NEW t \in Seq(Lines), NEW x \in Lines
  PROVE  LET u == Append(t, x)
         IN /\ u \in Seq(Lines) /\ Len(t) \in Nat /\ Len(u) = Len(t) + 1
            /\ u[Len(t) + 1] = x /\ \A i \in 1 .. Len(t) : u[i] = t[i]
  OBVIOUS

LEMMA OneMoreAt ==
  ASSUME NEW t \in Seq(Lines), NEW x \in Lines, NEW kinds
  PROVE  /\ At(t, kinds) \subseteq 1 .. Len(t)
         /\ x \in kinds => At(Append(t, x), kinds) = At(t, kinds) \cup {Len(t) + 1}
         /\ x \notin kinds => At(Append(t, x), kinds) = At(t, kinds)
  BY OneLineMore DEF At

\* One line joins a block's lines.
LEMMA OneJoins ==
  ASSUME NEW s \in Seq(Nat), NEW i \in Nat
  PROVE  /\ Append(s, i) \in Seq(Nat) /\ Append(s, i) # <<>>
         /\ Len(s) \in Nat /\ Len(Append(s, i)) = Len(s) + 1
         /\ Append(s, i)[Len(s) + 1] = i
         /\ s # <<>> => Len(s) >= 1 /\ Append(s, i)[1] = s[1]
         /\ In(Append(s, i)) = In(s) \cup {i}
<1> DEFINE r == Append(s, i)
<1>1. /\ r \in Seq(Nat) /\ r # <<>> /\ Len(s) \in Nat /\ Len(r) = Len(s) + 1
      /\ r[Len(s) + 1] = i /\ \A k \in 1 .. Len(s) : r[k] = s[k]
  OBVIOUS
<1>2. s # <<>> => Len(s) >= 1
  OBVIOUS
<1> HIDE DEF r
<1>3. In(r) = In(s) \cup {i}
  <2>1. ASSUME NEW x \in In(r) PROVE x \in In(s) \cup {i}
    <3>1. PICK k \in 1 .. Len(r) : x = r[k]
      BY DEF In
    <3>2. CASE k = Len(s) + 1
      BY <1>1, <3>1, <3>2
    <3>3. CASE k # Len(s) + 1
      <4>1. k \in 1 .. Len(s)
        BY ONLY <1>1, <3>3, k \in 1 .. Len(r)
      <4>2. x = s[k]
        BY ONLY <1>1, <3>1, <4>1
      <4> QED
        BY <4>1, <4>2 DEF In
    <3> QED
      BY <3>2, <3>3
  <2>2. ASSUME NEW x \in In(s) PROVE x \in In(r)
    <3>1. PICK k \in 1 .. Len(s) : x = s[k]
      BY DEF In
    <3>2. k \in 1 .. Len(r) /\ x = r[k]
      BY <1>1, <3>1
    <3> QED
      BY <3>2 DEF In
  <2>3. i \in In(r)
    <3>1. Len(s) + 1 \in 1 .. Len(r) /\ i = r[Len(s) + 1]
      BY <1>1
    <3> QED
      BY <3>1 DEF In
  <2> QED
    BY <2>1, <2>2, <2>3
<1> QED
  BY <1>1, <1>2, <1>3 DEF r

LEMMA InEmpty == In(<<>>) = {}
  BY DEF In

\* The pages before a line are counted, and no fewer are before a later one.
LEMMA PagesGrow ==
  ASSUME NEW t \in Seq(Lines), NEW i \in Nat, NEW j \in Nat, i <= j
  PROVE  /\ IsFiniteSet({k \in At(t, {"page"}) : k < i})
         /\ PagesBefore(t, i) \in Nat /\ PagesBefore(t, i) <= PagesBefore(t, j)
<1> DEFINE P(n) == {k \in At(t, {"page"}) : k < n}
<1>1. IsFiniteSet(1 .. Len(t))
  BY FS_Interval
<1>2. ASSUME NEW n PROVE P(n) \in SUBSET (1 .. Len(t))
  BY DEF At
<1>3. ASSUME NEW n PROVE IsFiniteSet(P(n))
  BY <1>1, <1>2, FS_Subset
<1>4. P(i) \in SUBSET P(j)
  BY DEF At
<1> QED
  BY <1>3, <1>4, FS_Subset, FS_CardinalityType DEF PagesBefore

\* Another line is on its page, and a page marker begins the next one.
LEMMA PagesOfLine ==
  ASSUME NEW t \in Seq(Lines), NEW x \in Lines
  PROVE  LET u == Append(t, x)
         IN /\ \A i \in 1 .. Len(t) + 1 : PagesBefore(u, i) = PagesBefore(t, i)
            /\ PagesBefore(u, Len(u) + 1) =
                 PagesBefore(t, Len(t) + 1) + (IF x = "page" THEN 1 ELSE 0)
<1> DEFINE u == Append(t, x)
           P(s, n) == {k \in At(s, {"page"}) : k < n}
<1>1. /\ Len(t) \in Nat /\ Len(u) = Len(t) + 1 /\ At(t, {"page"}) \subseteq 1 .. Len(t)
      /\ x = "page" => At(u, {"page"}) = At(t, {"page"}) \cup {Len(t) + 1}
      /\ x # "page" => At(u, {"page"}) = At(t, {"page"})
  BY OneLineMore, OneMoreAt
<1> HIDE DEF u
<1>2. ASSUME NEW i \in 1 .. Len(t) + 1 PROVE PagesBefore(u, i) = PagesBefore(t, i)
  <2>1. P(u, i) = P(t, i)
    BY <1>1
  <2> QED
    BY <2>1 DEF PagesBefore
<1>3. P(u, Len(u) + 1) = P(t, Len(t) + 1) \cup (IF x = "page" THEN {Len(t) + 1} ELSE {})
  BY <1>1
<1>4. IsFiniteSet(P(t, Len(t) + 1)) /\ Len(t) + 1 \notin P(t, Len(t) + 1)
      /\ PagesBefore(t, Len(t) + 1) \in Nat
  <2>1. Len(t) + 1 \in Nat /\ Len(t) + 1 <= Len(t) + 1
    BY <1>1
  <2>2. IsFiniteSet(P(t, Len(t) + 1)) /\ PagesBefore(t, Len(t) + 1) \in Nat
    BY <2>1, PagesGrow
  <2>3. Len(t) + 1 \notin P(t, Len(t) + 1)
    BY <1>1
  <2> QED
    BY <2>2, <2>3
<1>5. PagesBefore(u, Len(u) + 1) = PagesBefore(t, Len(t) + 1) + (IF x = "page" THEN 1 ELSE 0)
  <2>1. CASE x = "page"
    <3>1. P(u, Len(u) + 1) = P(t, Len(t) + 1) \cup {Len(t) + 1}
      BY <1>3, <2>1
    <3> HIDE DEF P
    <3>2. Cardinality(P(u, Len(u) + 1)) = Cardinality(P(t, Len(t) + 1)) + 1
      BY <1>4, <3>1, FS_AddElement DEF P
    <3> QED
      BY <2>1, <3>2 DEF PagesBefore, P
  <2>2. CASE x # "page"
    <3>1. P(u, Len(u) + 1) = P(t, Len(t) + 1)
      BY <1>3, <2>2
    <3>2. PagesBefore(u, Len(u) + 1) = PagesBefore(t, Len(t) + 1)
      BY <3>1 DEF PagesBefore
    <3> QED
      BY <1>4, <2>2, <3>2
  <2> QED
    BY <2>1, <2>2
<1> QED
  BY <1>2, <1>5 DEF u

\* A block that fits the text fits the text with a line more.
LEMMA StillFits ==
  ASSUME NEW t \in Seq(Lines), NEW x \in Lines, NEW b,
         In(b.lines) \subseteq At(t, Bodies), Fits(t, b)
  PROVE  Fits(Append(t, x), b)
<1> DEFINE u == Append(t, x)
<1>1. /\ In(b.lines) \subseteq 1 .. Len(t) /\ Len(t) \in Nat
      /\ At(u, {"h1", "h2"}) \subseteq At(t, {"h1", "h2"}) \cup {Len(t) + 1}
  BY OneLineMore, OneMoreAt
<1>2. \A i \in 1 .. Len(t) : PagesBefore(u, i) = PagesBefore(t, i)
  BY <1>1, PagesOfLine
<1> HIDE DEF u
<1>3. ASSUME NEW i \in In(b.lines), NEW hd \in At(u, {"h1", "h2"}), hd < i
      PROVE  hd \in At(t, {"h1", "h2"})
  BY <1>1, <1>3
<1>4. Fits(u, b)
  BY <1>1, <1>2, <1>3 DEF Fits
<1> QED
  BY <1>4 DEF u

\* Nothing is read yet.
LEMMA NothingRead == Gathering(<<>>, <<>>, 0, NoBlock, <<>>) /\ Listed(<<>>, NoBlock, <<>>)
<1>1. \A kinds : At(<<>>, kinds) = {}
  BY DEF At
<1>2. PagesBefore(<<>>, 1) = 0
  <2>1. {j \in At(<<>>, {"page"}) : j < 1} = {}
    BY <1>1
  <2> QED
    BY <2>1, FS_EmptySet DEF PagesBefore
<1>3. /\ NoBlock.lines = <<>> /\ NoBlock.from = 0 /\ In(NoBlock.lines) = {}
      /\ NoBlock \in OpenBlock
  BY InEmpty DEF NoBlock, OpenBlock, Types
<1>4. Len(<<>>) = 0
  OBVIOUS
<1>5. Gathering(<<>>, <<>>, 0, NoBlock, <<>>)
  BY <1>1, <1>2, <1>3, <1>4
  DEF Gathering, Typed, Headed, Kept, Ordered, Increasing, OpenFits
<1>6. Listed(<<>>, NoBlock, <<>>)
  BY <1>1, <1>3, <1>4 DEF Listed, ListsHeld, ListOpen
<1> QED
  BY <1>5, <1>6

\* flush(): the open block is closed under its heading and up to its page.
LEMMA ClosingKeeps ==
  ASSUME NEW t, NEW h, NEW p, NEW o, NEW bs, Gathering(t, h, p, o, bs)
  PROVE  Gathering(t, h, p, NoBlock, Closes(h, p, o, bs))
<1> DEFINE cs == Closes(h, p, o, bs)
           b  == [lines |-> o.lines, type |-> o.type, path |-> h,
                  from |-> o.from, to |-> IF p # 0 THEN p ELSE o.from]
<1>1. /\ NoBlock.lines = <<>> /\ NoBlock.from = 0 /\ In(NoBlock.lines) = {}
      /\ NoBlock \in OpenBlock
  BY InEmpty DEF NoBlock, OpenBlock, Types
<1>2. CASE o.lines = <<>>
  <2>1. cs = bs /\ In(o.lines) = {}
    BY <1>2, InEmpty DEF Closes
  <2>2. Ordered(NoBlock, bs)
    BY <1>1, <1>2 DEF Gathering, Ordered
  <2>3. Kept(t, NoBlock, bs)
    BY <1>1, <1>2 DEF Gathering, Kept
  <2>4. OpenFits(t, p, NoBlock)
    BY <1>1 DEF Gathering, OpenFits, Typed
  <2> HIDE DEF cs
  <2> QED
    BY <1>1, <2>1, <2>2, <2>3, <2>4 DEF Gathering, Typed, cs
<1>3. CASE o.lines # <<>>
  <2>1. /\ b \in Closed /\ bs \in Seq(Closed) /\ cs = Append(bs, b)
        /\ b.lines = o.lines /\ b.path = h /\ b.from = o.from
        /\ b.to = IF p # 0 THEN p ELSE o.from
    BY <1>3 DEF Gathering, Typed, Closed, OpenBlock, Closes
  <2> HIDE DEF b, cs
  <2>2. /\ cs \in Seq(Closed) /\ Len(bs) \in Nat /\ Len(cs) = Len(bs) + 1
        /\ cs[Len(bs) + 1] = b /\ \A k \in 1 .. Len(bs) : cs[k] = bs[k]
    BY <2>1
  <2>3. Kept(t, NoBlock, cs)
    <3>1. \A k \in 1 .. Len(cs) : In(cs[k].lines) \subseteq At(t, Bodies)
      BY <2>1, <2>2 DEF Gathering, Kept
    <3>2. ASSUME NEW i \in At(t, Bodies)
          PROVE  \E k \in 1 .. Len(cs) : i \in In(cs[k].lines)
      BY <2>1, <2>2 DEF Gathering, Kept
    <3> QED
      BY <1>1, <3>1, <3>2 DEF Kept
  <2>4. Ordered(NoBlock, cs)
    <3>1. Increasing(NoBlock.lines)
      BY <1>1 DEF Increasing
    <3>2. ASSUME NEW k \in 1 .. Len(cs)
          PROVE  Increasing(cs[k].lines) /\ Before(cs[k].lines, NoBlock.lines)
      BY <1>1, <2>1, <2>2 DEF Gathering, Ordered, Before
    <3>3. ASSUME NEW k \in 1 .. Len(cs), NEW l \in k + 1 .. Len(cs)
          PROVE  Before(cs[k].lines, cs[l].lines)
      <4>1. k \in 1 .. Len(bs) /\ (l \in k + 1 .. Len(bs) \/ l = Len(bs) + 1)
        BY <2>2
      <4> QED
        BY <2>1, <2>2, <4>1 DEF Gathering, Ordered
    <3> QED
      BY <3>1, <3>2, <3>3 DEF Ordered
  <2>5. OpenFits(t, p, NoBlock)
    BY <1>1 DEF Gathering, OpenFits, Typed
  <2>6. Fits(t, b)
    <3> SUFFICES ASSUME NEW i \in In(o.lines)
                 PROVE  /\ \A hd \in At(t, {"h1", "h2"}) :
                             hd < i => h # <<>> /\ hd <= h[Len(h)] /\ h[Len(h)] < i
                        /\ PagesBefore(t, i) # 0 =>
                             b.from <= PagesBefore(t, i) /\ PagesBefore(t, i) <= b.to
      BY <2>1 DEF Fits
    <3>1. \A hd \in At(t, {"h1", "h2"}) : h # <<>> /\ hd <= h[Len(h)] /\ h[Len(h)] < i
      BY DEF Gathering, Headed, OpenFits
    <3>2. t \in Seq(Lines) /\ i \in Nat /\ i <= Len(t) + 1 /\ Len(t) + 1 \in Nat
      BY DEF Gathering, Typed, Kept, At
    <3>3. PagesBefore(t, i) \in Nat /\ PagesBefore(t, i) <= p
      BY <3>2, PagesGrow DEF Gathering
    <3>4. PagesBefore(t, i) # 0 => o.from <= PagesBefore(t, i)
      BY DEF Gathering, OpenFits
    <3>5. p \in Nat
      BY DEF Gathering, Typed
    <3> QED
      BY <2>1, <3>1, <3>3, <3>4, <3>5
  <2>7. \A k \in 1 .. Len(cs) : Fits(t, cs[k])
    BY <2>2, <2>6 DEF Gathering
  <2>8. Typed(t, h, p, NoBlock, cs)
    BY <1>1, <2>2 DEF Gathering, Typed
  <2> QED
    BY <2>3, <2>4, <2>5, <2>7, <2>8 DEF Gathering, cs
<1> QED
  BY <1>2, <1>3

\* A page marker or a blank line joins no block.
LEMMA SkippingKeeps ==
  ASSUME NEW t, NEW h, NEW p, NEW o, NEW bs, Gathering(t, h, p, o, bs),
         NEW x \in {"page", "blank"}
  PROVE  Gathering(Append(t, x), h, IF x = "page" THEN p + 1 ELSE p, o, bs)
<1> DEFINE u == Append(t, x)
           q == IF x = "page" THEN p + 1 ELSE p
<1>1. t \in Seq(Lines) /\ x \in Lines /\ p \in Nat /\ q \in Nat /\ p <= q
  BY DEF Gathering, Typed, Lines
<1>2. u \in Seq(Lines) /\ Len(t) \in Nat /\ Len(u) = Len(t) + 1
  BY <1>1, OneLineMore
<1>3. At(u, Bodies) = At(t, Bodies) /\ At(u, {"h1", "h2"}) = At(t, {"h1", "h2"})
  <2>1. x \notin Bodies /\ x \notin {"h1", "h2"}
    BY DEF Bodies, Clauses, Items
  <2> QED
    BY <1>1, <2>1, OneMoreAt
<1>4. /\ \A i \in At(t, Bodies) : PagesBefore(u, i) = PagesBefore(t, i)
      /\ q = PagesBefore(u, Len(u) + 1)
  <2>1. \A i \in At(t, Bodies) : i \in 1 .. Len(t) + 1
    BY <1>2 DEF At
  <2>2. p = PagesBefore(t, Len(t) + 1)
    BY DEF Gathering
  <2> QED
    BY <1>1, <2>1, <2>2, PagesOfLine
<1> HIDE DEF u, q
<1>5. Typed(u, h, q, o, bs) /\ Headed(u, h) /\ Kept(u, o, bs)
  BY <1>1, <1>2, <1>3 DEF Gathering, Typed, Headed, Kept
<1>6. OpenFits(u, q, o)
  <2>1. o.from \in Nat /\ In(o.lines) \subseteq At(t, Bodies)
    BY DEF Gathering, Typed, OpenBlock, Kept
  <2> QED
    BY <1>1, <1>3, <1>4, <2>1 DEF Gathering, OpenFits
<1>7. \A k \in 1 .. Len(bs) : Fits(u, bs[k])
  BY <1>1, StillFits DEF Gathering, Kept, u
<1> QED
  BY <1>4, <1>5, <1>6, <1>7 DEF Gathering, u, q

\* A line with content joins the open block.
LEMMA JoiningKeeps ==
  ASSUME NEW t, NEW h, NEW p, NEW o, NEW bs, Gathering(t, h, p, o, bs),
         NEW x \in Bodies, NEW type \in Types
  PROVE  Gathering(Append(t, x), h, p, Joins(t, p, o, type), bs)
<1> DEFINE u == Append(t, x)
           n == Len(t) + 1
           c == Joins(t, p, o, type)
<1>1. t \in Seq(Lines) /\ x \in Lines /\ p \in Nat /\ o \in OpenBlock
  BY DEF Gathering, Typed, Lines
<1>2. u \in Seq(Lines) /\ n \in Nat /\ Len(u) = n /\ Len(t) \in Nat
  BY <1>1, OneLineMore
<1>3. /\ At(u, Bodies) = At(t, Bodies) \cup {n} /\ At(t, Bodies) \subseteq 1 .. Len(t)
      /\ At(u, {"h1", "h2"}) = At(t, {"h1", "h2"})
      /\ At(t, {"h1", "h2"}) \subseteq 1 .. Len(t)
  <2>1. x \notin {"h1", "h2"}
    BY DEF Bodies, Clauses, Items
  <2> QED
    BY <1>1, <2>1, OneMoreAt
<1>4. /\ \A i \in 1 .. n : PagesBefore(u, i) = PagesBefore(t, i)
      /\ p = PagesBefore(u, Len(u) + 1) /\ p = PagesBefore(u, n)
  <2>1. p = PagesBefore(t, n) /\ x # "page"
    BY DEF Gathering, Bodies, Clauses, Items
  <2>2. PagesBefore(u, Len(u) + 1) = PagesBefore(t, n) + 0
    BY <1>1, <2>1, PagesOfLine
  <2>3. \A i \in 1 .. n : PagesBefore(u, i) = PagesBefore(t, i)
    BY <1>1, PagesOfLine
  <2> QED
    BY <1>1, <1>2, <2>1, <2>2, <2>3
<1>5. /\ c \in OpenBlock /\ c.lines = Append(o.lines, n)
      /\ c.from = IF o.from = 0 THEN p ELSE o.from
      /\ In(c.lines) = In(o.lines) \cup {n}
  <2>1. o.lines \in Seq(Nat) /\ o.from \in Nat
    BY <1>1 DEF OpenBlock
  <2>2. Append(o.lines, n) \in Seq(Nat) /\ In(Append(o.lines, n)) = In(o.lines) \cup {n}
    BY <1>2, <2>1, OneJoins
  <2> QED
    BY <1>1, <2>1, <2>2 DEF Joins, OpenBlock
<1> HIDE DEF u, n, c
<1>6. Typed(u, h, p, c, bs) /\ Headed(u, h)
  BY <1>2, <1>3, <1>5 DEF Gathering, Typed, Headed
<1>7. Kept(u, c, bs)
  <2>1. \A k \in 1 .. Len(bs) : In(bs[k].lines) \subseteq At(u, Bodies)
    BY <1>3 DEF Gathering, Kept
  <2>2. In(c.lines) \subseteq At(u, Bodies)
    BY <1>3, <1>5 DEF Gathering, Kept
  <2>3. ASSUME NEW i \in At(u, Bodies)
        PROVE  i \in In(c.lines) \/ \E k \in 1 .. Len(bs) : i \in In(bs[k].lines)
    BY <1>3, <1>5 DEF Gathering, Kept
  <2> QED
    BY <2>1, <2>2, <2>3 DEF Kept
<1>8. Ordered(c, bs)
  <2>1. Increasing(c.lines)
    <3>1. /\ o.lines \in Seq(Nat) /\ Increasing(o.lines)
          /\ \A m \in 1 .. Len(o.lines) : o.lines[m] < n
      <4>1. \A m \in 1 .. Len(o.lines) : o.lines[m] \in In(o.lines)
        BY DEF In
      <4>2. \A i \in In(o.lines) : i < n
        BY <1>2, <1>3 DEF Gathering, Kept, n
      <4> QED
        BY <1>1, <4>1, <4>2 DEF Gathering, Ordered, OpenBlock
    <3>2. /\ Len(o.lines) \in Nat /\ Len(c.lines) = Len(o.lines) + 1
          /\ c.lines[Len(o.lines) + 1] = n
          /\ \A m \in 1 .. Len(o.lines) : c.lines[m] = o.lines[m]
      BY <1>2, <1>5, <3>1
    <3>3. ASSUME NEW k \in 1 .. Len(c.lines), NEW m \in 1 .. Len(c.lines), k < m
          PROVE  c.lines[k] < c.lines[m]
      <4>1. k \in 1 .. Len(o.lines) /\ c.lines[k] = o.lines[k]
        BY <3>2, <3>3
      <4>2. CASE m = Len(o.lines) + 1
        BY <3>1, <3>2, <4>1, <4>2
      <4>3. CASE m # Len(o.lines) + 1
        <5>1. m \in 1 .. Len(o.lines) /\ c.lines[m] = o.lines[m]
          BY <3>2, <4>3
        <5> QED
          BY <3>1, <3>3, <4>1, <5>1 DEF Increasing
      <4> QED
        BY <4>2, <4>3
    <3> QED
      BY <3>3 DEF Increasing
  <2>2. ASSUME NEW k \in 1 .. Len(bs) PROVE Before(bs[k].lines, c.lines)
    <3>1. \A i \in In(bs[k].lines) : i < n
      BY <1>2, <1>3 DEF Gathering, Kept, n
    <3> QED
      BY <1>5, <3>1 DEF Gathering, Ordered, Before
  <2> QED
    BY <2>1, <2>2 DEF Gathering, Ordered
<1>9. OpenFits(u, p, c)
  <2>1. /\ o.from \in Nat /\ o.from <= p /\ In(o.lines) \subseteq 1 .. Len(t)
        /\ \A i \in In(o.lines) :
             /\ \A hd \in At(t, {"h1", "h2"}) : hd < i
             /\ o.from = 0 => PagesBefore(t, i) = 0
             /\ PagesBefore(t, i) # 0 => o.from <= PagesBefore(t, i)
    BY <1>1, <1>3 DEF Gathering, OpenFits, OpenBlock, Kept
  <2>2. \A i \in 1 .. Len(t) : i \in 1 .. n
    BY <1>2 DEF n
  <2>3. \A hd \in At(t, {"h1", "h2"}) : hd < n
    BY <1>2, <1>3 DEF n
  <2>4. c.from <= p
    BY <1>1, <1>5, <2>1
  <2>5. ASSUME NEW i \in In(c.lines)
        PROVE  /\ \A hd \in At(u, {"h1", "h2"}) : hd < i
               /\ c.from = 0 => PagesBefore(u, i) = 0
               /\ PagesBefore(u, i) # 0 => c.from <= PagesBefore(u, i)
    <3>1. CASE i = n
      BY <1>1, <1>3, <1>4, <1>5, <2>1, <2>3, <3>1
    <3>2. CASE i \in In(o.lines)
      <4>1. PagesBefore(u, i) = PagesBefore(t, i)
        BY <1>4, <2>1, <2>2, <3>2
      <4> QED
        BY <1>1, <1>3, <1>5, <2>1, <3>2, <4>1
    <3> QED
      BY <1>5, <3>1, <3>2
  <2> QED
    BY <2>4, <2>5 DEF OpenFits
<1>10. \A k \in 1 .. Len(bs) : Fits(u, bs[k])
  BY <1>1, StillFits DEF Gathering, Kept, u
<1> QED
  BY <1>4, <1>6, <1>7, <1>8, <1>9, <1>10 DEF Gathering, u, c

\* A heading is over what comes, while no block is open.
LEMMA HeadingKeeps ==
  ASSUME NEW t, NEW h, NEW p, NEW bs, Gathering(t, h, p, NoBlock, bs),
         NEW x \in {"h1", "h2"}, NEW kept \in Seq(Nat)
  PROVE  Gathering(Append(t, x), Append(kept, Len(t) + 1), p, NoBlock, bs)
<1> DEFINE u == Append(t, x)
           n == Len(t) + 1
           g == Append(kept, n)
<1>1. t \in Seq(Lines) /\ x \in Lines /\ p \in Nat
  BY DEF Gathering, Typed, Lines
<1>2. u \in Seq(Lines) /\ n \in Nat /\ Len(u) = n /\ Len(t) \in Nat
  BY <1>1, OneLineMore
<1>3. /\ At(u, Bodies) = At(t, Bodies)
      /\ At(u, {"h1", "h2"}) = At(t, {"h1", "h2"}) \cup {n}
      /\ At(t, {"h1", "h2"}) \subseteq 1 .. Len(t)
  <2>1. x \notin Bodies
    BY DEF Bodies, Clauses, Items
  <2> QED
    BY <1>1, <2>1, OneMoreAt
<1>4. p = PagesBefore(u, Len(u) + 1)
  <2>1. p = PagesBefore(t, n)
    BY DEF Gathering
  <2>2. PagesBefore(u, Len(u) + 1) = PagesBefore(t, n) + 0
    BY <1>1, PagesOfLine
  <2> QED
    BY <1>1, <2>1, <2>2
<1>5. g \in Seq(Nat) /\ g # <<>> /\ g[Len(g)] = n
  BY <1>2, OneJoins
<1>6. /\ NoBlock.lines = <<>> /\ NoBlock.from = 0 /\ In(NoBlock.lines) = {}
      /\ NoBlock \in OpenBlock
  BY InEmpty DEF NoBlock, OpenBlock, Types
<1> HIDE DEF u, g
<1>7. Typed(u, g, p, NoBlock, bs)
  BY <1>2, <1>5 DEF Gathering, Typed
<1>8. Headed(u, g)
  <2>1. \A i \in At(u, {"h1", "h2"}) : i <= n
    BY <1>2, <1>3
  <2>2. n \in At(u, {"h1", "h2"})
    BY <1>3
  <2> HIDE DEF n
  <2> QED
    BY <1>5, <2>1, <2>2 DEF Headed
<1>9. Kept(u, NoBlock, bs)
  BY <1>3 DEF Gathering, Kept
<1>10. OpenFits(u, p, NoBlock)
  BY <1>1, <1>6 DEF OpenFits
<1>11. \A k \in 1 .. Len(bs) : Fits(u, bs[k])
  BY <1>1, StillFits DEF Gathering, Kept, u
<1> QED
  BY <1>4, <1>7, <1>8, <1>9, <1>10, <1>11 DEF Gathering, u, g

-----------------------------------------------------------------------------
(* Lists.  Only the last line of the open block can be a list's that goes  *)
(* on with the next line.                                                  *)

LEMMA NextToStays ==
  ASSUME NEW t \in Seq(Lines), NEW x \in Lines, NEW i \in 1 .. Len(t), NEW j \in 1 .. Len(t)
  PROVE  NextTo(Append(t, x), i, j) <=> NextTo(t, i, j)
<1> DEFINE u == Append(t, x)
<1>1. Len(t) \in Nat /\ \A k \in 1 .. Len(t) : u[k] = t[k]
  BY OneLineMore
<1>2. \A k \in 1 .. Len(t) : k \in At(u, Bodies) <=> k \in At(t, Bodies)
  BY <1>1, OneLineMore DEF At
<1>3. \A k \in i + 1 .. j - 1 : u[k] = t[k]
  BY <1>1
<1> HIDE DEF u
<1>4. NextTo(u, i, j) <=> NextTo(t, i, j)
  BY <1>2, <1>3 DEF NextTo
<1> QED
  BY <1>4 DEF u

\* What keeps line i of a block s and a later line j together, or apart.
Holds(t, s, i, j) ==
  j \in In(s) <=> /\ t[j] \notin Clauses
                  /\ t[i] = "item" /\ t[j] = "parent" => t[s[1]] = "intro"

\* Block s, which line x does not join, still holds its lists.
LEMMA ListsStay ==
  ASSUME NEW t \in Seq(Lines), NEW x \in Lines, NEW s \in Seq(Nat),
         In(s) \subseteq At(t, Bodies), ListsHeld(t, s),
         x \in Bodies =>
           \A i \in In(s) :
             NextTo(Append(t, x), i, Len(t) + 1) /\ t[i] \in ListKinds /\ x # "table" =>
             x \in Clauses \/ (t[i] = "item" /\ x = "parent" /\ t[s[1]] # "intro")
  PROVE  ListsHeld(Append(t, x), s)
<1> DEFINE u == Append(t, x)
           n == Len(t) + 1
<1>1. /\ Len(t) \in Nat /\ u[n] = x /\ \A k \in 1 .. Len(t) : u[k] = t[k]
      /\ n \notin 1 .. Len(t)
  BY OneLineMore
<1>2. /\ At(t, Bodies) \subseteq 1 .. Len(t)
      /\ \A j \in At(u, Bodies) : j \in At(t, Bodies) \/ (j = n /\ x \in Bodies)
  BY OneMoreAt
<1> SUFFICES ASSUME NEW i \in In(s), NEW j \in At(u, Bodies),
                    NextTo(u, i, j), u[i] \in ListKinds, u[j] # "table"
             PROVE  Holds(u, s, i, j)
  BY DEF ListsHeld, Holds
<1>3. i \in 1 .. Len(t) /\ u[i] = t[i]
  BY <1>1, <1>2
<1>4. s[1] \in 1 .. Len(t) /\ u[s[1]] = t[s[1]]
  <2>1. s # <<>>
    BY InEmpty
  <2>2. 1 \in 1 .. Len(s)
    BY <2>1
  <2>3. s[1] \in In(s)
    BY <2>2 DEF In
  <2> QED
    BY <1>1, <1>2, <2>3
<1>5. CASE j \in At(t, Bodies)
  <2>1. j \in 1 .. Len(t) /\ u[j] = t[j]
    BY <1>1, <1>2, <1>5
  <2>2. NextTo(t, i, j)
    BY <1>3, <2>1, NextToStays
  <2>3. Holds(t, s, i, j)
    BY <1>3, <1>5, <2>1, <2>2 DEF ListsHeld, Holds
  <2> HIDE DEF u
  <2> QED
    BY <1>3, <1>4, <2>1, <2>3 DEF Holds
<1>6. CASE j = n /\ x \in Bodies
  <2>1. j \notin In(s) /\ u[j] = x
    BY <1>1, <1>2, <1>6
  <2>2. x \in Clauses \/ (t[i] = "item" /\ x = "parent" /\ t[s[1]] # "intro")
    BY <1>3, <1>6, <2>1
  <2> HIDE DEF u
  <2> QED
    BY <1>3, <1>4, <2>1, <2>2 DEF Holds
<1> QED
  BY <1>2, <1>5, <1>6

\* So does block s with line x, if x goes on with the list.
LEMMA ListsJoin ==
  ASSUME NEW t \in Seq(Lines), NEW x \in Bodies, NEW s \in Seq(Nat),
         In(s) \subseteq At(t, Bodies), ListsHeld(t, s),
         \A i \in In(s) :
           NextTo(Append(t, x), i, Len(t) + 1) /\ t[i] \in ListKinds /\ x # "table" =>
           x \notin Clauses /\ (t[i] = "item" /\ x = "parent" => t[s[1]] = "intro")
  PROVE  ListsHeld(Append(t, x), Append(s, Len(t) + 1))
<1> DEFINE u == Append(t, x)
           n == Len(t) + 1
           r == Append(s, n)
<1>1. /\ Len(t) \in Nat /\ u[n] = x /\ \A k \in 1 .. Len(t) : u[k] = t[k]
      /\ n \notin 1 .. Len(t) /\ n \in Nat /\ x \in Lines
  <2>1. x \in Lines
    BY DEF Lines
  <2> QED
    BY <2>1, OneLineMore
<1>2. /\ At(t, Bodies) \subseteq 1 .. Len(t)
      /\ At(u, Bodies) = At(t, Bodies) \cup {n}
  BY <1>1, OneMoreAt
<1>3. In(r) = In(s) \cup {n} /\ (s # <<>> => r[1] = s[1])
  BY <1>1, OneJoins
<1> SUFFICES ASSUME NEW i \in In(r), NEW j \in At(u, Bodies),
                    NextTo(u, i, j), u[i] \in ListKinds, u[j] # "table"
             PROVE  Holds(u, r, i, j)
  BY DEF ListsHeld, Holds
<1>4. i \in In(s) /\ i \in 1 .. Len(t) /\ u[i] = t[i]
  <2>1. i < j /\ j <= n
    BY <1>1, <1>2 DEF NextTo
  <2> QED
    BY <1>1, <1>2, <1>3, <2>1
<1>5. r[1] = s[1] /\ s[1] \in 1 .. Len(t) /\ u[r[1]] = t[s[1]]
  <2>1. s # <<>>
    BY <1>4, InEmpty
  <2>2. 1 \in 1 .. Len(s)
    BY <2>1
  <2>3. s[1] \in In(s)
    BY <2>2 DEF In
  <2> QED
    BY <1>1, <1>2, <1>3, <2>1, <2>3
<1>6. CASE j \in At(t, Bodies)
  <2>1. j \in 1 .. Len(t) /\ u[j] = t[j] /\ (j \in In(r) <=> j \in In(s))
    BY <1>1, <1>2, <1>3, <1>6
  <2>2. NextTo(t, i, j)
    BY <1>1, <1>4, <2>1, NextToStays
  <2>3. Holds(t, s, i, j)
    BY <1>4, <1>6, <2>1, <2>2 DEF ListsHeld, Holds
  <2> HIDE DEF u, r
  <2> QED
    BY <1>4, <1>5, <2>1, <2>3 DEF Holds
<1>7. CASE j = n
  <2>1. j \in In(r) /\ u[j] = x
    BY <1>1, <1>3, <1>7
  <2>2. x \notin Clauses /\ (t[i] = "item" /\ x = "parent" => t[s[1]] = "intro")
    BY <1>4, <1>7, <2>1
  <2> HIDE DEF u, r
  <2> QED
    BY <1>4, <1>5, <2>1, <2>2 DEF Holds
<1> QED
  BY <1>2, <1>6, <1>7

\* The list that goes on with the next line is that of the open block's last line.
LEMMA OnlyTheLast ==
  ASSUME NEW t, NEW h, NEW p, NEW o, NEW bs, Gathering(t, h, p, o, bs), ListOpen(t, o),
         NEW x \in Lines, NEW i \in 1 .. Len(t), t[i] \in ListKinds,
         NextTo(Append(t, x), i, Len(t) + 1)
  PROVE  /\ o.lines # <<>> /\ o.lines[Len(o.lines)] = i /\ i \in In(o.lines)
         /\ \A k \in 1 .. Len(bs) : i \notin In(bs[k].lines)
<1>1. t \in Seq(Lines) /\ o.lines \in Seq(Nat)
  BY DEF Gathering, Typed, OpenBlock
<1>2. Len(t) \in Nat /\ \A k \in 1 .. Len(t) : Append(t, x)[k] = t[k]
  BY <1>1, OneLineMore
<1>3. \A k \in i + 1 .. Len(t) : t[k] \in {"blank", "page"}
  BY <1>2 DEF NextTo
<1>4. o.lines # <<>> /\ o.lines[Len(o.lines)] = i
  BY <1>3 DEF ListOpen, At
<1>5. Len(o.lines) \in 1 .. Len(o.lines)
  BY <1>1, <1>4
<1>6. i \in In(o.lines)
  BY <1>4, <1>5 DEF In
<1>7. \A k \in 1 .. Len(bs) : i \notin In(bs[k].lines)
  <2>1. ~(i < i)
    BY <1>2
  <2> QED
    BY <1>6, <2>1 DEF Gathering, Ordered, Before
<1> QED
  BY <1>4, <1>6, <1>7

\* Listing and Parted() of the next line.
ListingAt(t, o) == o.lines # <<>> /\ t[o.lines[Len(o.lines)]] \in ListKinds
PartedAt(t, o, x) ==
  /\ ListingAt(t, o)
  /\ \/ x \in Clauses
     \/ x = "parent" /\ t[o.lines[Len(o.lines)]] = "item" /\ t[o.lines[1]] # "intro"

\* The blocks of a text, as far as lists are concerned.
LEMMA BlocksTyped ==
  ASSUME NEW t, NEW h, NEW p, NEW o, NEW bs, Gathering(t, h, p, o, bs)
  PROVE  /\ t \in Seq(Lines) /\ o \in OpenBlock /\ bs \in Seq(Closed)
         /\ o.lines \in Seq(Nat) /\ In(o.lines) \subseteq At(t, Bodies)
         /\ In(o.lines) \subseteq 1 .. Len(t) /\ Len(t) \in Nat
         /\ \A k \in 1 .. Len(bs) : /\ bs[k].lines \in Seq(Nat)
                                    /\ In(bs[k].lines) \subseteq At(t, Bodies)
                                    /\ In(bs[k].lines) \subseteq 1 .. Len(t)
<1>1. t \in Seq(Lines) /\ o \in OpenBlock /\ bs \in Seq(Closed)
  BY DEF Gathering, Typed
<1>2. \A k \in 1 .. Len(bs) : bs[k] \in Closed
  BY <1>1
<1>3. o.lines \in Seq(Nat) /\ \A k \in 1 .. Len(bs) : bs[k].lines \in Seq(Nat)
  BY <1>1, <1>2 DEF OpenBlock, Closed
<1>4. At(t, Bodies) \subseteq 1 .. Len(t) /\ Len(t) \in Nat
  BY <1>1 DEF At
<1> QED
  BY <1>1, <1>3, <1>4 DEF Gathering, Kept

\* The lists of the closed blocks stay when line x joins none of them.
LEMMA ClosedListsStay ==
  ASSUME NEW t, NEW h, NEW p, NEW o, NEW bs, Gathering(t, h, p, o, bs), Listed(t, o, bs),
         NEW x \in Lines
  PROVE  \A k \in 1 .. Len(bs) : ListsHeld(Append(t, x), bs[k].lines)
<1> SUFFICES ASSUME NEW k \in 1 .. Len(bs) PROVE ListsHeld(Append(t, x), bs[k].lines)
  OBVIOUS
<1> DEFINE s == bs[k].lines
<1>1. t \in Seq(Lines) /\ s \in Seq(Nat) /\ In(s) \subseteq At(t, Bodies)
      /\ In(s) \subseteq 1 .. Len(t) /\ ListsHeld(t, s) /\ ListOpen(t, o)
  BY BlocksTyped DEF Listed
<1>2. ASSUME NEW i \in In(s), NextTo(Append(t, x), i, Len(t) + 1), t[i] \in ListKinds
      PROVE  FALSE
  BY <1>1, <1>2, OnlyTheLast
<1> QED
  BY <1>1, <1>2, ListsStay

\* A page marker or a blank line.
LEMMA SkippingKeepsLists ==
  ASSUME NEW t, NEW h, NEW p, NEW o, NEW bs, Gathering(t, h, p, o, bs), Listed(t, o, bs),
         NEW x \in {"page", "blank"}
  PROVE  Listed(Append(t, x), o, bs)
<1>1. x \in Lines /\ x \notin Bodies /\ x \notin ListKinds
  BY DEF Lines, Bodies, Clauses, Items, ListKinds
<1>2. ListsHeld(Append(t, x), o.lines)
  BY <1>1, BlocksTyped, ListsStay DEF Listed
<1>3. \A k \in 1 .. Len(bs) : ListsHeld(Append(t, x), bs[k].lines)
  BY <1>1, ClosedListsStay
<1>4. ListOpen(Append(t, x), o)
  <2> DEFINE u == Append(t, x)
  <2>1. /\ t \in Seq(Lines) /\ Len(t) \in Nat /\ Len(u) = Len(t) + 1
        /\ \A k \in 1 .. Len(t) : u[k] = t[k]
        /\ At(u, ListKinds) = At(t, ListKinds) /\ At(t, ListKinds) \subseteq 1 .. Len(t)
    BY <1>1, BlocksTyped, OneLineMore, OneMoreAt
  <2> HIDE DEF u
  <2>2. ASSUME NEW i \in At(u, ListKinds), \A k \in i + 1 .. Len(u) : u[k] \in {"blank", "page"}
        PROVE  o.lines # <<>> /\ o.lines[Len(o.lines)] = i
    <3>1. \A k \in i + 1 .. Len(t) : t[k] \in {"blank", "page"}
      BY <2>1, <2>2
    <3> QED
      BY <2>1, <3>1 DEF Listed, ListOpen
  <2> QED
    BY <2>2 DEF ListOpen, u
<1> QED
  BY <1>2, <1>3, <1>4 DEF Listed

\* Closing the open block.
LEMMA ClosedLists ==
  ASSUME NEW t, NEW h, NEW p, NEW o, NEW bs, NEW u, Gathering(t, h, p, o, bs),
         ListsHeld(u, o.lines), \A k \in 1 .. Len(bs) : ListsHeld(u, bs[k].lines)
  PROVE  \A k \in 1 .. Len(Closes(h, p, o, bs)) : ListsHeld(u, Closes(h, p, o, bs)[k].lines)
<1>1. CASE o.lines = <<>>
  BY <1>1 DEF Closes
<1>2. CASE o.lines # <<>>
  <2> DEFINE b == [lines |-> o.lines, type |-> o.type, path |-> h,
                   from |-> o.from, to |-> IF p # 0 THEN p ELSE o.from]
             cs == Closes(h, p, o, bs)
  <2>1. /\ b \in Closed /\ bs \in Seq(Closed) /\ cs = Append(bs, b) /\ b.lines = o.lines
    BY <1>2 DEF Gathering, Typed, Closed, OpenBlock, Closes
  <2> HIDE DEF b, cs
  <2>2. /\ Len(bs) \in Nat /\ Len(cs) = Len(bs) + 1
        /\ cs[Len(bs) + 1] = b /\ \A k \in 1 .. Len(bs) : cs[k] = bs[k]
    BY <2>1
  <2>3. \A k \in 1 .. Len(cs) : k = Len(bs) + 1 \/ k \in 1 .. Len(bs)
    BY <2>2
  <2> QED
    BY <2>1, <2>2, <2>3 DEF cs
<1> QED
  BY <1>1, <1>2

LEMMA NoLists == \A u : ListsHeld(u, NoBlock.lines)
<1>1. In(NoBlock.lines) = {}
  BY InEmpty DEF NoBlock
<1> QED
  BY <1>1 DEF ListsHeld

\* A heading, or a blank line after something that is no list.
LEMMA EndingKeepsLists ==
  ASSUME NEW t, NEW h, NEW p, NEW o, NEW bs, Gathering(t, h, p, o, bs), Listed(t, o, bs),
         NEW x \in {"blank", "h1", "h2"}, x = "blank" => ~ListingAt(t, o)
  PROVE  Listed(Append(t, x), NoBlock, Closes(h, p, o, bs))
<1>1. x \in Lines /\ x \notin Bodies /\ x \notin ListKinds
  BY DEF Lines, Bodies, Clauses, Items, ListKinds
<1>2. ListsHeld(Append(t, x), o.lines)
  BY <1>1, BlocksTyped, ListsStay DEF Listed
<1>3. \A k \in 1 .. Len(bs) : ListsHeld(Append(t, x), bs[k].lines)
  BY <1>1, ClosedListsStay
<1>4. ListOpen(Append(t, x), NoBlock)
  <2> DEFINE u == Append(t, x)
  <2>1. /\ t \in Seq(Lines) /\ Len(t) \in Nat /\ Len(u) = Len(t) + 1
        /\ u[Len(t) + 1] = x /\ \A k \in 1 .. Len(t) : u[k] = t[k]
        /\ At(u, ListKinds) = At(t, ListKinds) /\ At(t, ListKinds) \subseteq 1 .. Len(t)
    BY <1>1, BlocksTyped, OneLineMore, OneMoreAt
  <2> HIDE DEF u
  <2>2. ASSUME NEW i \in At(u, ListKinds), \A k \in i + 1 .. Len(u) : u[k] \in {"blank", "page"}
        PROVE  FALSE
    <3>1. x = "blank" /\ \A k \in i + 1 .. Len(t) : t[k] \in {"blank", "page"}
      BY <2>1, <2>2
    <3>2. o.lines # <<>> /\ o.lines[Len(o.lines)] = i /\ t[i] \in ListKinds
      BY <2>1, <3>1 DEF Listed, ListOpen, At
    <3> QED
      BY <3>1, <3>2 DEF ListingAt
  <2> QED
    BY <2>2 DEF ListOpen, u
<1> QED
  BY <1>2, <1>3, <1>4, ClosedLists, NoLists DEF Listed

\* After a line with content, only that line can have a list go on.
LEMMA NewLineOpen ==
  ASSUME NEW t \in Seq(Lines), NEW x \in Bodies, NEW s \in Seq(Nat), NEW o,
         o.lines = Append(s, Len(t) + 1)
  PROVE  ListOpen(Append(t, x), o)
<1> DEFINE u == Append(t, x)
           n == Len(t) + 1
<1>1. /\ Len(t) \in Nat /\ Len(u) = n /\ u[n] = x /\ n \in Nat
      /\ \A i \in At(u, ListKinds) : i = n \/ i \in 1 .. Len(t)
  <2>1. x \in Lines
    BY DEF Lines
  <2> QED
    BY <2>1, OneLineMore, OneMoreAt
<1>2. x \notin {"blank", "page"}
  BY DEF Bodies, Clauses, Items
<1>3. o.lines # <<>> /\ o.lines[Len(o.lines)] = n
  BY <1>1, OneJoins
<1> HIDE DEF u
<1>4. ASSUME NEW i \in At(u, ListKinds), \A k \in i + 1 .. Len(u) : u[k] \in {"blank", "page"}
      PROVE  i = n
  <2>1. ASSUME i \in 1 .. Len(t) PROVE FALSE
    <3>1. n \in i + 1 .. Len(u)
      BY <1>1, <2>1
    <3> QED
      BY <1>1, <1>2, <1>4, <3>1
  <2> QED
    BY <1>1, <2>1
<1> QED
  BY <1>3, <1>4 DEF ListOpen, u

\* A line that joins the open block.
LEMMA JoiningKeepsLists ==
  ASSUME NEW t, NEW h, NEW p, NEW o, NEW bs, Gathering(t, h, p, o, bs), Listed(t, o, bs),
         NEW x \in Bodies, NEW type, x = "table" \/ ~PartedAt(t, o, x)
  PROVE  Listed(Append(t, x), Joins(t, p, o, type), bs)
<1> DEFINE c == Joins(t, p, o, type)
<1>1. /\ x \in Lines /\ t \in Seq(Lines) /\ o.lines \in Seq(Nat)
      /\ In(o.lines) \subseteq At(t, Bodies) /\ In(o.lines) \subseteq 1 .. Len(t)
      /\ ListsHeld(t, o.lines) /\ ListOpen(t, o) /\ c.lines = Append(o.lines, Len(t) + 1)
  BY BlocksTyped DEF Listed, Lines, Joins
<1>2. ASSUME NEW i \in In(o.lines), NextTo(Append(t, x), i, Len(t) + 1),
             t[i] \in ListKinds, x # "table"
      PROVE  x \notin Clauses /\ (t[i] = "item" /\ x = "parent" => t[o.lines[1]] = "intro")
  <2>1. o.lines # <<>> /\ o.lines[Len(o.lines)] = i
    BY <1>1, <1>2, OnlyTheLast
  <2> QED
    BY <1>2, <2>1 DEF PartedAt, ListingAt
<1>3. ListsHeld(Append(t, x), c.lines)
  BY <1>1, <1>2, ListsJoin
<1>4. \A k \in 1 .. Len(bs) : ListsHeld(Append(t, x), bs[k].lines)
  BY <1>1, ClosedListsStay
<1>5. ListOpen(Append(t, x), c)
  BY <1>1, NewLineOpen
<1> QED
  BY <1>3, <1>4, <1>5 DEF Listed

\* A line that begins a block and closes the one before it.
LEMMA PartingKeepsLists ==
  ASSUME NEW t, NEW h, NEW p, NEW o, NEW bs, Gathering(t, h, p, o, bs), Listed(t, o, bs),
         NEW x \in Bodies, NEW type, x = "table" \/ PartedAt(t, o, x)
  PROVE  Listed(Append(t, x), Joins(t, p, NoBlock, type), Closes(h, p, o, bs))
<1> DEFINE c == Joins(t, p, NoBlock, type)
<1>1. /\ x \in Lines /\ t \in Seq(Lines) /\ o.lines \in Seq(Nat)
      /\ In(o.lines) \subseteq At(t, Bodies) /\ In(o.lines) \subseteq 1 .. Len(t)
      /\ ListsHeld(t, o.lines) /\ ListOpen(t, o)
      /\ c.lines = Append(<<>>, Len(t) + 1) /\ <<>> \in Seq(Nat) /\ In(<<>>) = {}
  BY BlocksTyped, InEmpty DEF Listed, Lines, Joins, NoBlock
<1>2. ASSUME NEW i \in In(o.lines), NextTo(Append(t, x), i, Len(t) + 1),
             t[i] \in ListKinds, x # "table"
      PROVE  x \in Clauses \/ (t[i] = "item" /\ x = "parent" /\ t[o.lines[1]] # "intro")
  <2>1. o.lines # <<>> /\ o.lines[Len(o.lines)] = i
    BY <1>1, <1>2, OnlyTheLast
  <2> QED
    BY <1>2, <2>1 DEF PartedAt, ListingAt
<1>3. ListsHeld(Append(t, x), o.lines)
  BY <1>1, <1>2, ListsStay
<1>4. \A k \in 1 .. Len(bs) : ListsHeld(Append(t, x), bs[k].lines)
  BY <1>1, ClosedListsStay
<1>5. ListsHeld(Append(t, x), c.lines)
  <2>1. ListsHeld(t, <<>>)
    BY <1>1 DEF ListsHeld
  <2> QED
    BY <1>1, <2>1, ListsJoin
<1>6. ListOpen(Append(t, x), c)
  BY <1>1, NewLineOpen
<1> QED
  BY <1>3, <1>4, <1>5, <1>6, ClosedLists DEF Listed

-----------------------------------------------------------------------------
(* The steps of chunk().                                                   *)

LEMMA InitReadInv == Init => ReadInv
  BY NothingRead DEF Init, ReadInv

LEMMA GatheredJoins ==
  ASSUME NEW b \in OpenBlock, text \in Seq(Lines), page \in Nat
  PROVE  /\ Gathered(b) = Joins(text, page, b, b.type)
         /\ [Gathered(b) EXCEPT !.type = "table"] = Joins(text, page, b, "table")
<1> DEFINE lines == Append(b.lines, Len(text) + 1)
           from  == IF b.from = 0 THEN page ELSE b.from
           g     == [b EXCEPT !.lines = lines, !.from = from]
<1>1. lines \in Seq(Nat) /\ from \in Nat /\ "table" \in Types
  BY DEF OpenBlock, Types
<1>2. Gathered(b) = g
  BY DEF Gathered
<1>3. \A type : Joins(text, page, b, type) = [lines |-> lines, type |-> type, from |-> from]
  BY DEF Joins
<1> HIDE DEF lines, from
<1>4. g \in OpenBlock /\ g.lines = lines /\ g.type = b.type /\ g.from = from
  BY <1>1 DEF OpenBlock
<1>5. ASSUME NEW r \in OpenBlock, NEW type \in Types,
             r.lines = lines, r.type = type, r.from = from
      PROVE  r = [lines |-> lines, type |-> type, from |-> from]
  BY <1>1, <1>5 DEF OpenBlock
<1> HIDE DEF g
<1>6. LET r == [g EXCEPT !.type = "table"]
      IN r \in OpenBlock /\ r.lines = lines /\ r.type = "table" /\ r.from = from
  BY <1>1, <1>4 DEF OpenBlock
<1> QED
  BY <1>1, <1>2, <1>3, <1>4, <1>5, <1>6 DEF OpenBlock

LEMMA NextReadInv == ReadInv /\ [Next]_vars => ReadInv'
<1> SUFFICES ASSUME ReadInv, [Next]_vars PROVE ReadInv'
  OBVIOUS
<1>1. Gathering(text, headings, page, open, blocks) /\ Listed(text, open, blocks)
  BY DEF ReadInv
<1>2. /\ text \in Seq(Lines) /\ open \in OpenBlock /\ headings \in Seq(Nat)
      /\ blocks \in Seq(Closed) /\ page \in Nat
  BY <1>1 DEF Gathering, Typed
<1>3. Flushed = Closes(headings, page, open, blocks)
  BY DEF Flushed, Closes
<1>4. /\ Gathered(open) = Joins(text, page, open, open.type)
      /\ [Gathered(open) EXCEPT !.type = "table"] = Joins(text, page, open, "table")
      /\ open.type \in Types
  BY <1>2, GatheredJoins DEF OpenBlock
<1>5. /\ Gathered(NoBlock) = Joins(text, page, NoBlock, "paragraph")
      /\ [Gathered(NoBlock) EXCEPT !.type = "table"] = Joins(text, page, NoBlock, "table")
      /\ {"paragraph", "table"} \subseteq Types
  <2>1. NoBlock \in OpenBlock /\ NoBlock.type = "paragraph"
    BY DEF NoBlock, OpenBlock, Types
  <2>2. /\ Gathered(NoBlock) = Joins(text, page, NoBlock, NoBlock.type)
        /\ [Gathered(NoBlock) EXCEPT !.type = "table"] = Joins(text, page, NoBlock, "table")
    BY <1>2, <2>1, GatheredJoins
  <2> QED
    BY <2>1, <2>2 DEF Types
<1>6. Gathering(text, headings, page, NoBlock, Flushed)
  BY <1>1, <1>3, ClosingKeeps
<1>7. \A x : Parted(x) <=> PartedAt(text, open, x)
  BY DEF Parted, Listing, PartedAt, ListingAt, First, Last, ListKinds
<1>8. ASSUME UNCHANGED <<text, headings, page, open, blocks>> PROVE ReadInv'
  BY <1>1, <1>8 DEF ReadInv
<1>9. ASSUME ReadPage PROVE ReadInv'
  <2>1. /\ text' = Append(text, "page") /\ page' = page + 1
        /\ headings' = headings /\ open' = open /\ blocks' = blocks
    BY <1>9 DEF ReadPage, Reads
  <2>2. Gathering(text', headings, page + 1, open, blocks)
    BY <1>1, <2>1, SkippingKeeps
  <2>3. Listed(text', open, blocks)
    BY <1>1, <2>1, SkippingKeepsLists
  <2> QED
    BY <2>1, <2>2, <2>3 DEF ReadInv
<1>10. ASSUME ReadHeading PROVE ReadInv'
  <2>1. PICK line \in {"h1", "h2"} :
          /\ text' = Append(text, line) /\ blocks' = Flushed /\ open' = NoBlock
          /\ headings' = Append(IF Len(headings) < Level(line) THEN headings
                                ELSE SubSeq(headings, 1, Level(line) - 1), Len(text) + 1)
          /\ page' = page
    BY <1>10 DEF ReadHeading, Reads
  <2> DEFINE kept == IF Len(headings) < Level(line) THEN headings
                     ELSE SubSeq(headings, 1, Level(line) - 1)
  <2>2. kept \in Seq(Nat)
    BY <1>2 DEF Level
  <2> HIDE DEF kept
  <2>3. Gathering(text', headings', page, NoBlock, Flushed)
    BY <1>6, <2>1, <2>2, HeadingKeeps DEF kept
  <2>4. Listed(text', NoBlock, Flushed)
    BY <1>1, <1>3, <2>1, EndingKeepsLists
  <2> QED
    BY <2>1, <2>3, <2>4 DEF ReadInv
<1>11. ASSUME NEW x \in Bodies, NEW type \in Types, text' = Append(text, x),
              headings' = headings, page' = page,
              \/ /\ open' = Joins(text, page, open, type) /\ blocks' = blocks
                 /\ x = "table" \/ ~Parted(x)
              \/ /\ open' = Joins(text, page, NoBlock, type) /\ blocks' = Flushed
                 /\ x = "table" \/ Parted(x)
       PROVE  ReadInv'
  <2>1. CASE /\ open' = Joins(text, page, open, type) /\ blocks' = blocks
             /\ x = "table" \/ ~Parted(x)
    <3>1. Gathering(text', headings, page, open', blocks)
      BY <1>1, <1>11, <2>1, JoiningKeeps
    <3>2. Listed(text', open', blocks)
      BY <1>1, <1>7, <1>11, <2>1, JoiningKeepsLists
    <3> QED
      BY <1>11, <2>1, <3>1, <3>2 DEF ReadInv
  <2>2. CASE /\ open' = Joins(text, page, NoBlock, type) /\ blocks' = Flushed
             /\ x = "table" \/ Parted(x)
    <3>1. Gathering(text', headings, page, open', Flushed)
      BY <1>6, <1>11, <2>2, JoiningKeeps
    <3>2. Listed(text', open', Flushed)
      BY <1>1, <1>3, <1>7, <1>11, <2>2, PartingKeepsLists
    <3> QED
      BY <1>11, <2>2, <3>1, <3>2 DEF ReadInv
  <2> QED
    BY <1>11, <2>1, <2>2
<1>12. ASSUME ReadTable PROVE ReadInv'
  <2>1. /\ text' = Append(text, "table") /\ headings' = headings /\ page' = page
        /\ \/ blocks' = Flushed /\ open' = Joins(text, page, NoBlock, "table")
           \/ blocks' = blocks /\ open' = Joins(text, page, open, "table")
    BY <1>4, <1>5, <1>12 DEF ReadTable, Reads
  <2>2. "table" \in Bodies /\ "table" \in Types
    BY DEF Bodies, Types
  <2> QED
    BY <1>11, <2>1, <2>2
<1>13. ASSUME ReadBlank PROVE ReadInv'
  <2>1. text' = Append(text, "blank") /\ headings' = headings /\ page' = page
    BY <1>13 DEF ReadBlank, Reads
  <2>2. CASE Joined
    <3>1. open' = open /\ blocks' = blocks
      BY <1>13, <2>2 DEF ReadBlank
    <3>2. Gathering(text', headings, page, open, blocks)
      BY <1>1, <2>1, SkippingKeeps
    <3>3. Listed(text', open, blocks)
      BY <1>1, <2>1, SkippingKeepsLists
    <3> QED
      BY <2>1, <3>1, <3>2, <3>3 DEF ReadInv
  <2>3. CASE ~Joined
    <3>1. open' = NoBlock /\ blocks' = Flushed
      BY <1>13, <2>3 DEF ReadBlank
    <3>2. ~ListingAt(text, open)
      BY <2>3 DEF Joined, Listing, Last, ListingAt, ListKinds
    <3>3. Gathering(text', headings, page, NoBlock, Flushed)
      BY <1>6, <2>1, SkippingKeeps
    <3>4. Listed(text', NoBlock, Flushed)
      BY <1>1, <1>3, <2>1, <3>2, EndingKeepsLists
    <3> QED
      BY <2>1, <3>1, <3>3, <3>4 DEF ReadInv
  <2> QED
    BY <2>2, <2>3
<1>14. ASSUME ReadText PROVE ReadInv'
  <2>1. PICK line \in Bodies \ {"table"} :
          /\ text' = Append(text, line) /\ headings' = headings /\ page' = page
          /\ IF Parted(line)
             THEN blocks' = Flushed /\ open' = Joins(text, page, NoBlock, "paragraph")
             ELSE blocks' = blocks /\ open' = Joins(text, page, open, open.type)
    BY <1>4, <1>5, <1>14 DEF ReadText, Reads
  <2>2. CASE Parted(line)
    BY <1>5, <1>11, <2>1, <2>2
  <2>3. CASE ~Parted(line)
    BY <1>4, <1>11, <2>1, <2>3
  <2> QED
    BY <2>2, <2>3
<1>15. ASSUME TakeBlock PROVE ReadInv'
  BY <1>15, NothingRead DEF TakeBlock, ReadInv
<1>16. ASSUME BeginSplit \/ CutFragment \/ UNCHANGED vars
       PROVE  UNCHANGED <<text, headings, page, open, blocks>>
  <2>1. CASE BeginSplit
    BY <2>1 DEF BeginSplit
  <2>2. CASE CutFragment
    BY <2>2 DEF CutFragment
  <2>3. CASE UNCHANGED vars
    BY <2>3 DEF vars
  <2> QED
    BY <1>16, <2>1, <2>2, <2>3
<1> QED
  BY <1>8, <1>9, <1>10, <1>12, <1>13, <1>14, <1>15, <1>16 DEF Next

\* A line is in one block only, so Block() finds that one.
LEMMA BlockOfLine ==
  ASSUME ReadInv, NEW i \in Positions(Bodies)
  PROVE  /\ i \in In(Block(i))
         /\ Block(i) = open.lines \/ \E k \in 1 .. Len(blocks) : Block(i) = blocks[k].lines
         /\ \A j \in Positions(Bodies) : Block(i) = Block(j) <=> j \in In(Block(i))
<1>1. /\ Kept(text, open, blocks) /\ Ordered(open, blocks)
      /\ Positions(Bodies) = At(text, Bodies)
      /\ \A j \in Positions(Bodies) : j \in Int /\ ~(j < j)
  <2>1. text \in Seq(Lines)
    BY DEF ReadInv, Gathering, Typed
  <2> QED
    BY <2>1 DEF ReadInv, Gathering, Positions, At
\* Two blocks have no line in common.
<1>2. ASSUME NEW j \in Positions(Bodies), j \in In(open.lines), NEW k \in 1 .. Len(blocks)
      PROVE  j \notin In(blocks[k].lines)
  BY <1>1, <1>2 DEF Ordered, Before
<1>3. ASSUME NEW j \in Positions(Bodies), NEW k \in 1 .. Len(blocks), NEW l \in 1 .. Len(blocks),
             j \in In(blocks[k].lines), j \in In(blocks[l].lines)
      PROVE  k = l
  <2>1. Len(blocks) \in Nat
    BY DEF ReadInv, Gathering, Typed
  <2>2. CASE k < l
    <3>1. l \in k + 1 .. Len(blocks)
      BY <2>1, <2>2
    <3> QED
      BY <1>1, <1>3, <3>1 DEF Ordered, Before
  <2>3. CASE l < k
    <3>1. k \in l + 1 .. Len(blocks)
      BY <2>1, <2>3
    <3> QED
      BY <1>1, <1>3, <3>1 DEF Ordered, Before
  <2> QED
    BY <2>1, <2>2, <2>3
\* So Block() is the block a line is in.
<1>4. ASSUME NEW j \in Positions(Bodies)
      PROVE  \/ j \in In(open.lines) /\ Block(j) = open.lines
             \/ /\ j \notin In(open.lines)
                /\ \E k \in 1 .. Len(blocks) :
                     j \in In(blocks[k].lines) /\ Block(j) = blocks[k].lines
  <2>1. CASE j \in In(open.lines)
    BY <2>1 DEF Block
  <2>2. CASE j \notin In(open.lines)
    <3>1. \E k \in 1 .. Len(blocks) : j \in In(blocks[k].lines)
      BY <1>1, <2>2 DEF Kept
    <3> DEFINE m == CHOOSE k \in 1 .. Len(blocks) : j \in In(blocks[k].lines)
    <3>2. m \in 1 .. Len(blocks) /\ j \in In(blocks[m].lines)
      BY <3>1
    <3>3. Block(j) = blocks[m].lines
      BY <2>2 DEF Block
    <3> HIDE DEF m
    <3> QED
      BY <2>2, <3>2, <3>3
  <2> QED
    BY <2>1, <2>2
<1>5. ASSUME NEW j \in Positions(Bodies) PROVE Block(i) = Block(j) <=> j \in In(Block(i))
  <2>1. CASE i \in In(open.lines)
    BY <1>2, <1>4, <2>1
  <2>2. CASE i \notin In(open.lines)
    <3>1. PICK k \in 1 .. Len(blocks) :
            i \in In(blocks[k].lines) /\ Block(i) = blocks[k].lines
      BY <1>4, <2>2
    <3>2. j \in In(blocks[k].lines) => Block(j) = blocks[k].lines
      BY <1>2, <1>3, <1>4
    <3>3. j \in In(Block(j))
      BY <1>4
    <3> QED
      BY <3>1, <3>2, <3>3
  <2> QED
    BY <2>1, <2>2
<1> QED
  BY <1>4, <1>5

\* DocumentChunker.chunk(): whatever lines a document has, each line with content is in one
\* block, in its place, under its heading and on one of the block's pages.
THEOREM NoLineLost == Spec => []NothingLost
<1>1. ReadInv => NothingLost
  <2> SUFFICES ASSUME ReadInv PROVE NothingLost
    OBVIOUS
  <2>1. Gathering(text, headings, page, open, blocks)
    BY DEF ReadInv
  <2>2. /\ \A kinds : Positions(kinds) = At(text, kinds)
        /\ \A i : PageOf(i) = PagesBefore(text, i)
    BY DEF Positions, At, PageOf, PagesBefore
  <2>3. In(open.lines) \cup UNION {In(blocks[k].lines) : k \in 1 .. Len(blocks)}
          = Positions(Bodies)
    BY <2>1, <2>2 DEF Gathering, Kept
  <2>4. ASSUME NEW k \in 1 .. Len(blocks)
        PROVE  LET b == blocks[k] IN
               /\ \A m, n \in 1 .. Len(b.lines) : m < n => b.lines[m] < b.lines[n]
               /\ \A l \in k + 1 .. Len(blocks) :
                    \A i \in In(b.lines), j \in In(blocks[l].lines) : i < j
               /\ \A j \in In(open.lines) : \A i \in In(b.lines) : i < j
    BY <2>1 DEF Gathering, Ordered, Increasing, Before
  <2>5. ASSUME NEW k \in 1 .. Len(blocks), NEW i \in In(blocks[k].lines)
        PROVE  LET b == blocks[k] IN
               /\ \A h \in Headings : h < i =>
                    b.path # <<>> /\ h <= b.path[Len(b.path)] /\ b.path[Len(b.path)] < i
               /\ PageOf(i) # 0 => b.from <= PageOf(i) /\ PageOf(i) <= b.to
    BY <2>1, <2>2 DEF Gathering, Fits, Headings
  <2> QED
    BY <2>3, <2>4, <2>5 DEF NothingLost
<1> QED
  BY <1>1, InitReadInv, NextReadInv, PTL DEF Spec

\* _pending_tail_is_enumeration(): in any document a list stays in one block over blank
\* lines, and parts from the clause or the item of the upper level that follows it.
THEOREM ListsStayTogether == Spec => []ListsHoldTogether
<1>1. ReadInv => ListsHoldTogether
  <2> SUFFICES ASSUME ReadInv,
                      NEW i \in Positions(Bodies), NEW j \in Positions(Bodies), Adjacent(i, j),
                      text[i] \in Items \cup {"intro"}, text[j] # "table"
               PROVE  Block(i) = Block(j) <=>
                        /\ text[j] \notin Clauses
                        /\ text[i] = "item" /\ text[j] = "parent" => text[Block(i)[1]] = "intro"
    BY DEF ListsHoldTogether
  <2>1. NextTo(text, i, j) /\ text[i] \in ListKinds /\ j \in At(text, Bodies)
    BY DEF Adjacent, NextTo, Positions, At, ListKinds
  <2>2. ListsHeld(text, Block(i)) /\ i \in In(Block(i))
    BY BlockOfLine DEF ReadInv, Listed
  <2>3. j \in In(Block(i)) <=>
          /\ text[j] \notin Clauses
          /\ text[i] = "item" /\ text[j] = "parent" => text[Block(i)[1]] = "intro"
    BY <2>1, <2>2 DEF ListsHeld
  <2>4. Block(i) = Block(j) <=> j \in In(Block(i))
    BY BlockOfLine
  <2> QED
    BY <2>3, <2>4
<1> QED
  BY <1>1, InitReadInv, NextReadInv, PTL DEF Spec
=============================================================================
