------------------------ MODULE KconfigBlocksProofs ------------------------
(* Every node that is parsed gets its place, whatever the files, their lines *)
(* and the meaning of the lines (Kconfig._parse_block, _parse_props).         *)
(*                                                                          *)
(* While a block is open its nodes hang in a chain from the next of its own   *)
(* node; only its end makes that chain its list.  A sourced file takes over   *)
(* prev of the call that it is parsed for, and its end gives it back.  InTree *)
(* says what each open call and each node of a chain have then, and Agrees    *)
(* that the calls, files and nodes are what the lines, read once more with    *)
(* nothing but the open blocks, say.                                          *)
EXTENDS KconfigBlocks, SequenceTheorems, WellFoundedInduction, TLAPS

----------------------------------------------------------------------------
(* What the parser knows.                                                   *)

IsSeq(s) == s \in Seq({s[k] : k \in DOMAIN s})

NodeFields == {"item", "parent", "prompt", "dep", "visibility", "defaults", "ranges", "selects",
               "implies", "next", "list", "at"}

\* Every node but the top one is below one that was made before.
NodesRight(ns) ==
    /\ IsSeq(ns) /\ Len(ns) > 0
    /\ \A n \in DOMAIN ns :
         /\ DOMAIN ns[n] = NodeFields
         /\ IF n = 1 THEN ns[n].parent = 0 ELSE ns[n].parent \in 1..(n - 1)

\* Blocks are in blocks, each in the one before it, or in a file that the one
\* before it sourced.
FramesRight(ns, fr) ==
    /\ IsSeq(fr) /\ Len(fr) > 0
    /\ fr[1].parent = 1 /\ fr[1].end = None
    /\ \A k \in DOMAIN fr :
         /\ DOMAIN fr[k] = {"end", "parent", "prev", "rest"}
         /\ fr[k].parent \in DOMAIN ns
         /\ k # 1 /\ fr[k].end = None => fr[k].parent = fr[k - 1].parent
         /\ k # 1 /\ fr[k].end # None => ns[fr[k].parent].parent = fr[k - 1].parent
    /\ \A j, k \in DOMAIN fr : 
         j < k => /\ fr[j].parent <= fr[k].parent
                  /\ fr[k].end # None => fr[j].parent < fr[k].parent

\* The nodes whose blocks are open.
OpenIn(fr) == {fr[k].parent : k \in DOMAIN fr}

\* The nodes that are in a list: other than p, which is next.
Listed(ns, fr, p) == DOMAIN ns \ (OpenIn(fr) \cup {p})

\* Is k the call that adds to the list of its block?
Adds(fr, k) == k = Len(fr) \/ fr[k + 1].end # None

Below(ns, S, n) == {m \in S : ns[m].parent = n}
Later(ns, S, n) == {m \in S : ns[m].parent = ns[n].parent /\ m > n}

\* prev is the last in the list of the block, or the node of the block, and was
\* made before the block that is open in it.  The next of the node of the block
\* is the first in the list.
ListsOpen(ns, fr, p) ==
    \A k \in DOMAIN fr : Adds(fr, k) =>
        LET list == Below(ns, Listed(ns, fr, p), fr[k].parent)
        IN /\ fr[k].prev \in list \cup {fr[k].parent}
           /\ \A m \in list : m <= fr[k].prev
           /\ list # {} => IsFirst(ns[fr[k].parent].next, list)
           /\ k # Len(fr) => fr[k].prev < fr[k + 1].parent

\* What is in a list leads to what comes after it.
ListsLinked(ns, fr, p) ==
    LET S == Listed(ns, fr, p)
    IN \A m \in S : 
         /\ Later(ns, S, m) # {} => IsFirst(ns[m].next, Later(ns, S, m))
         /\ Later(ns, S, m) = {} /\ ns[m].parent \notin OpenIn(fr) => ns[m].next = 0
         /\ IsFirst(ns[m].list, Below(ns, DOMAIN ns, m))

\* p is complete, and the last of its block.
NextRight(ns, fr, p) ==
    p # 0 =>
        /\ p \in DOMAIN ns \ OpenIn(fr)
        /\ ns[p].parent = fr[Len(fr)].parent
        /\ \A m \in Below(ns, Listed(ns, fr, p), ns[p].parent) : m < p
        /\ IsFirst(ns[p].list, Below(ns, DOMAIN ns, p))

InTree(ns, fr, p) ==
    /\ NodesRight(ns)
    /\ FramesRight(ns, fr)
    /\ ListsOpen(ns, fr, p)
    /\ ListsLinked(ns, fr, p)
    /\ NextRight(ns, fr, p)

\* Do the d[k] blocks that are open up to call k begin with the first d[k] of open?
Counts(d, open, fr) ==
    /\ d[1] = 1
    /\ d[Len(fr)] = Len(open)
    /\ \A k \in DOMAIN fr :
         /\ fr[k].parent = open[d[k]]
         /\ d[k] <= k
         /\ k # 1 => d[k] = IF fr[k].end = None THEN d[k - 1] ELSE d[k - 1] + 1

\* The calls that went into a block, counted from the outside, are the blocks
\* that are open.
Follows(open, fr) == \E d \in [DOMAIN fr -> DOMAIN open] : Counts(d, open, fr)

\* The lines of the places: the one that comes was counted if it was fetched.
PlacesRight(place, fs, fetched) ==
    /\ IsSeq(fs) /\ IsSeq(place)
    /\ Len(place) = Len(fs)
    /\ \A k \in DOMAIN fs :
         /\ DOMAIN fs[k] = {"name", "line"}
         /\ place[k] \in Nat
         /\ fs[k].line = place[k] + (IF fetched /\ k = Len(fs) THEN 1 ELSE 0)

MadeRight(made, ns) ==
    /\ IsSeq(made)
    /\ Len(made) = Len(ns)
    /\ \A n \in DOMAIN ns : made[n] = <<ns[n].parent, LinesOf(ns[n].at)>>

\* What the lines say once more, o, is what the parser knows.  Every call that
\* did not go into a block went into a file.
Agrees(o, ns, fr, fs, fetched) ==
    /\ IsSeq(o.open)
    /\ Follows(o.open, fr)
    /\ Len(fs) = Len(fr) + 1 - Len(o.open)
    /\ PlacesRight(o.place, fs, fetched)
    /\ MadeRight(o.made, ns)

Parsing ==
    /\ InTree(nodes, frames, pending)
    /\ pending # 0 => pending = Len(nodes)
    /\ vocabulary \in Vocabularies
    /\ IsSeq(read)
    /\ Agrees(Replay(read), nodes, Settled.frames, files, peeked)

\* The inductive invariant.
BlocksInv == (phase = "parse" => Parsing) /\ NodesInPlace

----------------------------------------------------------------------------
\* What sequences of anything are made of, and what becomes of them.
LEMMA SeqIs ==
    ASSUME NEW s, IsSeq(s)
    PROVE  /\ Len(s) \in Nat /\ DOMAIN s = 1..Len(s)
           /\ s = [k \in 1..Len(s) |-> s[k]]
BY DEF IsSeq

\* A sequence over any set is one over its own elements.
LEMMA IsSeqOf ==
    ASSUME NEW S, NEW s \in Seq(S)
    PROVE  IsSeq(s)
<1> DEFINE T == {s[k] : k \in DOMAIN s}
<1>1. s = [k \in 1..Len(s) |-> s[k]] /\ Len(s) \in Nat /\ DOMAIN s = 1..Len(s) OBVIOUS
<1>2. \A k \in 1..Len(s) : s[k] \in T BY <1>1
<1> HIDE DEF T
<1>3. s \in Seq(T) BY <1>1, <1>2
<1>4. QED BY <1>3 DEF IsSeq, T

\* An element more.
LEMMA Appended ==
    ASSUME NEW s, IsSeq(s), NEW e
    PROVE  /\ IsSeq(Append(s, e))
           /\ Len(Append(s, e)) = Len(s) + 1
           /\ DOMAIN Append(s, e) = 1..(Len(s) + 1)
           /\ \A k \in DOMAIN s : Append(s, e)[k] = s[k]
           /\ Append(s, e)[Len(s) + 1] = e
<1> DEFINE T == {s[k] : k \in DOMAIN s}
<1>1. s \in Seq(T) BY DEF IsSeq
<1> HIDE DEF T
<1>2. s \in Seq(T \cup {e}) 
  <2>1. s = [k \in 1..Len(s) |-> s[k]] /\ Len(s) \in Nat /\ \A k \in 1..Len(s) : s[k] \in T BY <1>1
  <2>2. QED BY <2>1
<1>3. Append(s, e) \in Seq(T \cup {e}) BY <1>2
<1>4. IsSeq(Append(s, e)) BY <1>3, IsSeqOf
<1>5. /\ Len(Append(s, e)) = Len(s) + 1
      /\ DOMAIN Append(s, e) = 1..(Len(s) + 1)
  BY <1>2, <1>3
<1>6. /\ \A k \in DOMAIN s : Append(s, e)[k] = s[k]
      /\ Append(s, e)[Len(s) + 1] = e
  BY <1>2
<1>7. QED BY <1>4, <1>5, <1>6

\* The last element less.
LEMMA Shortened ==
    ASSUME NEW s, IsSeq(s), Len(s) > 0
    PROVE  LET t == SubSeq(s, 1, Len(s) - 1)
           IN /\ IsSeq(t)
              /\ Len(t) = Len(s) - 1
              /\ DOMAIN t = 1..(Len(s) - 1)
              /\ \A k \in 1..(Len(s) - 1) : t[k] = s[k]
<1> DEFINE T == {s[k] : k \in DOMAIN s}
<1>1. s \in Seq(T) BY DEF IsSeq
<1> HIDE DEF T
<1>2. SubSeq(s, 1, Len(s) - 1) \in Seq(T) BY <1>1
<1>3. Len(s) \in Nat BY <1>1
<1>4. IsSeq(SubSeq(s, 1, Len(s) - 1)) BY <1>2, IsSeqOf
<1>5. /\ Len(SubSeq(s, 1, Len(s) - 1)) = Len(s) - 1
      /\ \A k \in 1..(Len(s) - 1) : SubSeq(s, 1, Len(s) - 1)[k] = s[k]
  <2> DEFINE n == Len(s) - 1
  <2>1. n \in Nat /\ \A k \in 1..n : s[k] \in T BY <1>1, <1>3
  <2> HIDE DEF n
  <2>2. /\ Len(SubSeq(s, 1, n)) = IF 1 <= n THEN n - 1 + 1 ELSE 0
        /\ \A k \in 1..(n - 1 + 1) : SubSeq(s, 1, n)[k] = s[1 + k - 1]
    BY <2>1, SubSeqProperties
  <2>3. \A k \in 1..n : SubSeq(s, 1, n)[k] = s[k]
    <3>1. \A k \in 1..n : 1 + k - 1 = k /\ k \in 1..(n - 1 + 1) BY <2>1
    <3>2. QED BY <2>2, <3>1
  <2>4. Len(SubSeq(s, 1, n)) = n BY <2>1, <2>2
  <2>5. QED BY <2>3, <2>4 DEF n
<1>6. DOMAIN SubSeq(s, 1, Len(s) - 1) = 1..(Len(s) - 1) BY <1>2, <1>5
<1>7. QED BY <1>4, <1>5, <1>6

\* Another element at one place.
LEMMA Changed ==
    ASSUME NEW s, IsSeq(s), NEW k \in DOMAIN s, NEW e
    PROVE  LET t == [s EXCEPT ![k] = e]
           IN /\ IsSeq(t)
              /\ Len(t) = Len(s)
              /\ DOMAIN t = DOMAIN s
              /\ t[k] = e
              /\ \A j \in DOMAIN s \ {k} : t[j] = s[j]
<1> DEFINE T == {s[j] : j \in DOMAIN s}
<1>1. s \in Seq(T) BY DEF IsSeq
<1> HIDE DEF T
<1>2. s \in Seq(T \cup {e})
  <2>1. s = [j \in 1..Len(s) |-> s[j]] /\ Len(s) \in Nat /\ \A j \in 1..Len(s) : s[j] \in T BY <1>1
  <2>2. QED BY <2>1
<1>3. [s EXCEPT ![k] = e] \in Seq(T \cup {e}) BY <1>2
<1>4. IsSeq([s EXCEPT ![k] = e]) BY <1>3, IsSeqOf
<1>5. QED BY <1>2, <1>3, <1>4

----------------------------------------------------------------------------
\* The lengths, and that parents come before their nodes.
LEMMA TreeFacts ==
    ASSUME NEW ns, NEW fr, NodesRight(ns), FramesRight(ns, fr)
    PROVE  /\ Len(ns) \in Nat \ {0} /\ DOMAIN ns = 1..Len(ns)
           /\ Len(fr) \in Nat \ {0} /\ DOMAIN fr = 1..Len(fr)
           /\ OpenIn(fr) \subseteq DOMAIN ns
           /\ \A n \in DOMAIN ns : ns[n].parent \in Nat /\ ns[n].parent < n
BY SeqIs DEF NodesRight, FramesRight, OpenIn

\* What the tree does not depend on may change.
LEMMA SameTree ==
    ASSUME NEW ns, NEW fr, NEW p, InTree(ns, fr, p),
           NEW ms, NEW gr,
           IsSeq(ms), Len(ms) = Len(ns),
           \A n \in DOMAIN ns : /\ DOMAIN ms[n] = NodeFields
                                /\ ms[n].parent = ns[n].parent
                                /\ ms[n].next = ns[n].next
                                /\ ms[n].list = ns[n].list,
           IsSeq(gr), Len(gr) = Len(fr),
           \A k \in DOMAIN fr : /\ DOMAIN gr[k] = {"end", "parent", "prev", "rest"}
                                /\ gr[k].end = fr[k].end
                                /\ gr[k].parent = fr[k].parent
                                /\ gr[k].prev = fr[k].prev
    PROVE  InTree(ms, gr, p)
<1>1. NodesRight(ns) /\ FramesRight(ns, fr) /\ ListsOpen(ns, fr, p) /\ ListsLinked(ns, fr, p) /\ NextRight(ns, fr, p)
  BY DEF InTree
<1>2. /\ Len(ns) \in Nat \ {0} /\ DOMAIN ns = 1..Len(ns) /\ DOMAIN ms = 1..Len(ns)
      /\ Len(fr) \in Nat \ {0} /\ DOMAIN fr = 1..Len(fr) /\ DOMAIN gr = 1..Len(fr)
  BY <1>1, TreeFacts, SeqIs
<1>3. OpenIn(gr) = OpenIn(fr) BY <1>2 DEF OpenIn
<1>4. Listed(ms, gr, p) = Listed(ns, fr, p) BY <1>2, <1>3 DEF Listed
<1>5. \A n : Below(ms, Listed(ns, fr, p), n) = Below(ns, Listed(ns, fr, p), n) BY DEF Below, Listed
<1>6. \A n : Below(ms, DOMAIN ms, n) = Below(ns, DOMAIN ns, n) BY <1>2 DEF Below
<1>7. \A n \in DOMAIN ns : Later(ms, Listed(ns, fr, p), n) = Later(ns, Listed(ns, fr, p), n) BY DEF Later, Listed
<1>8. NodesRight(ms) BY <1>1, <1>2 DEF NodesRight
<1>9. FramesRight(ms, gr) BY <1>1, <1>2 DEF FramesRight
<1>10. \A k \in DOMAIN fr : Adds(gr, k) <=> Adds(fr, k) BY <1>2 DEF Adds
<1>11. ListsOpen(ms, gr, p)
  <2> SUFFICES ASSUME NEW k \in DOMAIN gr, Adds(gr, k)
               PROVE  LET list == Below(ms, Listed(ms, gr, p), gr[k].parent)
                      IN /\ gr[k].prev \in list \cup {gr[k].parent}
                         /\ \A m \in list : m <= gr[k].prev
                         /\ list # {} => IsFirst(ms[gr[k].parent].next, list)
                         /\ k # Len(gr) => gr[k].prev < gr[k + 1].parent
    BY DEF ListsOpen
  <2>1. k \in DOMAIN fr /\ Adds(fr, k) BY <1>2, <1>10
  <2>2. fr[k].parent \in DOMAIN ns BY <2>1, <1>1 DEF FramesRight
  <2>3. gr[k].parent = fr[k].parent /\ gr[k].prev = fr[k].prev /\ ms[gr[k].parent].next = ns[fr[k].parent].next
    BY <2>1, <2>2
  <2>4. Below(ms, Listed(ms, gr, p), gr[k].parent) = Below(ns, Listed(ns, fr, p), fr[k].parent)
    BY <1>4, <1>5, <2>3
  <2>5. k # Len(gr) => gr[k + 1].parent = fr[k + 1].parent /\ k # Len(fr) BY <1>2, <2>1
  <2>6. QED BY <1>1, <2>1, <2>3, <2>4, <2>5 DEF ListsOpen
<1>12. ListsLinked(ms, gr, p)
  <2> SUFFICES ASSUME NEW m \in Listed(ns, fr, p)
               PROVE  LET S == Listed(ns, fr, p)
                      IN /\ Later(ms, S, m) # {} => IsFirst(ms[m].next, Later(ms, S, m))
                         /\ Later(ms, S, m) = {} /\ ms[m].parent \notin OpenIn(gr) => ms[m].next = 0
                         /\ IsFirst(ms[m].list, Below(ms, DOMAIN ms, m))
    BY <1>4 DEF ListsLinked
  <2>1. m \in DOMAIN ns BY DEF Listed
  <2>2. ms[m].next = ns[m].next /\ ms[m].list = ns[m].list /\ ms[m].parent = ns[m].parent BY <2>1
  <2>3. QED BY <1>1, <1>3, <1>6, <1>7, <2>1, <2>2 DEF ListsLinked
<1>13. NextRight(ms, gr, p)
  <2> SUFFICES ASSUME p # 0 PROVE NextRight(ms, gr, p) BY DEF NextRight
  <2>1. p \in DOMAIN ns BY <1>1 DEF NextRight
  <2>2. ms[p].list = ns[p].list /\ ms[p].parent = ns[p].parent BY <2>1
  <2>3. gr[Len(gr)].parent = fr[Len(fr)].parent BY <1>2
  <2>4. QED BY <1>1, <1>2, <1>3, <1>4, <1>5, <1>6, <2>2, <2>3 DEF NextRight
<1>14. QED BY <1>8, <1>9, <1>11, <1>12, <1>13 DEF InTree

\* A block begins at p.
LEMMA BlockBegins ==
    ASSUME NEW ns, NEW fr, NEW p, InTree(ns, fr, p), p # 0, Below(ns, DOMAIN ns, p) = {},
           NEW f, DOMAIN f = {"end", "parent", "prev", "rest"},
           f.end # None, f.parent = p, f.prev = p
    PROVE  InTree(ns, Append(fr, f), 0)
<1> DEFINE gr == Append(fr, f)
<1>1. NodesRight(ns) /\ FramesRight(ns, fr) /\ ListsOpen(ns, fr, p) /\ ListsLinked(ns, fr, p) /\ NextRight(ns, fr, p)
  BY DEF InTree
<1>2. /\ Len(ns) \in Nat \ {0} /\ DOMAIN ns = 1..Len(ns)
      /\ Len(fr) \in Nat \ {0} /\ DOMAIN fr = 1..Len(fr) 
      /\ \A n \in DOMAIN ns : ns[n].parent \in Nat /\ ns[n].parent < n
  BY <1>1, TreeFacts
<1>3. /\ IsSeq(gr) /\ Len(gr) = Len(fr) + 1 /\ DOMAIN gr = 1..(Len(fr) + 1)
      /\ \A k \in DOMAIN fr : gr[k] = fr[k]
      /\ gr[Len(fr) + 1] = f
  BY <1>1, Appended DEF FramesRight
<1> HIDE DEF gr
<1>4. /\ p \in DOMAIN ns /\ p \notin OpenIn(fr) /\ ns[p].parent = fr[Len(fr)].parent
      /\ ns[p].parent < p
  BY <1>1, <1>2 DEF NextRight
<1>5. OpenIn(gr) = OpenIn(fr) \cup {p}
  <2>1. \A k \in DOMAIN fr : gr[k].parent = fr[k].parent BY <1>3
  <2>2. DOMAIN gr = DOMAIN fr \cup {Len(fr) + 1} BY <1>2, <1>3
  <2>3. gr[Len(fr) + 1].parent = p BY <1>3
  <2>4. QED BY <2>1, <2>2, <2>3 DEF OpenIn
<1>6. Listed(ns, gr, 0) = Listed(ns, fr, p) BY <1>2, <1>5 DEF Listed
<1>7. FramesRight(ns, gr)
  <2>1. gr[1].parent = 1 /\ gr[1].end = None BY <1>1, <1>2, <1>3 DEF FramesRight
  <2>2. ASSUME NEW k \in DOMAIN gr
        PROVE  /\ DOMAIN gr[k] = {"end", "parent", "prev", "rest"}
               /\ gr[k].parent \in DOMAIN ns
               /\ k # 1 /\ gr[k].end = None => gr[k].parent = gr[k - 1].parent
               /\ k # 1 /\ gr[k].end # None => ns[gr[k].parent].parent = gr[k - 1].parent
    <3>1. CASE k \in DOMAIN fr
      <4>1. gr[k] = fr[k] /\ (k # 1 => gr[k - 1] = fr[k - 1]) BY <3>1, <1>2, <1>3
      <4>2. QED BY <3>1, <4>1, <1>1 DEF FramesRight
    <3>2. CASE k = Len(fr) + 1
      <4>1. gr[k] = f /\ gr[k - 1] = fr[Len(fr)] BY <3>2, <1>2, <1>3
      <4>2. QED BY <4>1, <1>4
    <3>3. QED BY <3>1, <3>2, <1>2, <1>3
  <2>3. ASSUME NEW j \in DOMAIN gr, NEW k \in DOMAIN gr, j < k
        PROVE  /\ gr[j].parent <= gr[k].parent
               /\ gr[k].end # None => gr[j].parent < gr[k].parent
    <3>1. CASE k \in DOMAIN fr
      <4>1. gr[k] = fr[k] /\ gr[j] = fr[j] /\ j \in DOMAIN fr BY <3>1, <2>3, <1>2, <1>3
      <4>2. QED BY <3>1, <2>3, <4>1, <1>1 DEF FramesRight
    <3>2. CASE k = Len(fr) + 1
      <4>1. gr[k] = f /\ gr[j] = fr[j] /\ j \in 1..Len(fr) BY <3>2, <2>3, <1>2, <1>3
      <4>2. fr[j].parent <= fr[Len(fr)].parent /\ fr[j].parent \in Nat /\ fr[Len(fr)].parent \in Nat
        <5>1. fr[j].parent \in 1..Len(ns) /\ fr[Len(fr)].parent \in 1..Len(ns)
          BY <4>1, <1>1, <1>2 DEF FramesRight
        <5>2. j # Len(fr) => j < Len(fr) /\ Len(fr) \in DOMAIN fr /\ j \in DOMAIN fr BY <4>1, <1>2
        <5>3. j # Len(fr) => fr[j].parent <= fr[Len(fr)].parent BY <5>2, <1>1 DEF FramesRight
        <5>4. QED BY <5>1, <5>3
      <4>3. p \in Nat BY <1>2, <1>4
      <4>4. QED BY <4>1, <4>2, <4>3, <1>4
    <3>3. QED BY <3>1, <3>2, <1>2, <1>3
  <2>4. QED BY <2>1, <2>2, <2>3, <1>2, <1>3 DEF FramesRight
<1>8. ListsOpen(ns, gr, 0)
  <2> SUFFICES ASSUME NEW k \in DOMAIN gr, Adds(gr, k)
               PROVE  LET list == Below(ns, Listed(ns, fr, p), gr[k].parent)
                      IN /\ gr[k].prev \in list \cup {gr[k].parent}
                         /\ \A m \in list : m <= gr[k].prev
                         /\ list # {} => IsFirst(ns[gr[k].parent].next, list)
                         /\ k # Len(gr) => gr[k].prev < gr[k + 1].parent
    BY <1>6 DEF ListsOpen
  <2>1. CASE k \in DOMAIN fr
    <3>1. gr[k] = fr[k] BY <2>1, <1>3
    <3>2. Adds(fr, k)
      <4>1. k # Len(fr) => k + 1 \in DOMAIN fr /\ gr[k + 1] = fr[k + 1] /\ k # Len(gr) BY <2>1, <1>2, <1>3
      <4>2. QED BY <4>1 DEF Adds
    <3>3. k # Len(fr) => gr[k + 1] = fr[k + 1] BY <2>1, <1>2, <1>3
    <3>4. ASSUME k = Len(fr) PROVE gr[k].prev < gr[k + 1].parent
      <4>1. fr[Len(fr)].prev \in Below(ns, Listed(ns, fr, p), ns[p].parent) \cup {ns[p].parent}
        BY <2>1, <3>2, <3>4, <1>1, <1>4 DEF ListsOpen
      <4>2. fr[Len(fr)].prev < p BY <4>1, <1>1, <1>4 DEF NextRight
      <4>3. QED BY <4>2, <3>1, <3>4, <1>3
    <3>5. /\ fr[k].prev \in Below(ns, Listed(ns, fr, p), fr[k].parent) \cup {fr[k].parent}
          /\ \A m \in Below(ns, Listed(ns, fr, p), fr[k].parent) : m <= fr[k].prev
          /\ Below(ns, Listed(ns, fr, p), fr[k].parent) # {} =>
               IsFirst(ns[fr[k].parent].next, Below(ns, Listed(ns, fr, p), fr[k].parent))
          /\ k # Len(fr) => fr[k].prev < fr[k + 1].parent
      BY <2>1, <3>2, <1>1 DEF ListsOpen
    <3>6. QED BY <3>1, <3>3, <3>4, <3>5
  <2>2. CASE k = Len(fr) + 1
    <3>1. gr[k].parent = p /\ gr[k].prev = p BY <2>2, <1>3
    <3>2. Below(ns, Listed(ns, fr, p), p) = {} BY DEF Below, Listed
    <3>3. k = Len(gr) BY <2>2, <1>3
    <3>4. QED BY <3>1, <3>2, <3>3
  <2>3. QED BY <2>1, <2>2, <1>2, <1>3
<1>9. ListsLinked(ns, gr, 0) BY <1>1, <1>5, <1>6 DEF ListsLinked
<1>10. NextRight(ns, gr, 0) BY DEF NextRight
<1>11. QED BY <1>1, <1>7, <1>8, <1>9, <1>10 DEF InTree, gr

\* p is put in the list of the innermost block: prev.next = prev = p.
THEOREM NodeIsLinked ==
    ASSUME NEW ns, NEW fr, NEW p, InTree(ns, fr, p), p # 0,
           NEW ms, NEW gr,
           IsSeq(ms), Len(ms) = Len(ns),
           \A n \in DOMAIN ns : /\ DOMAIN ms[n] = NodeFields
                                /\ ms[n].parent = ns[n].parent
                                /\ ms[n].next = IF n = fr[Len(fr)].prev THEN p ELSE ns[n].next
                                /\ ms[n].list = ns[n].list,
           IsSeq(gr), Len(gr) = Len(fr),
           \A k \in DOMAIN fr : /\ DOMAIN gr[k] = {"end", "parent", "prev", "rest"}
                                /\ gr[k].end = fr[k].end
                                /\ gr[k].parent = fr[k].parent
                                /\ gr[k].prev = IF k = Len(fr) THEN p ELSE fr[k].prev
    PROVE  InTree(ms, gr, 0)
<1> DEFINE last == fr[Len(fr)]
           S == Listed(ns, fr, p)
           T == Listed(ms, gr, 0)
           C == Below(ns, S, last.parent)
<1>1. NodesRight(ns) /\ FramesRight(ns, fr) /\ ListsOpen(ns, fr, p) /\ ListsLinked(ns, fr, p) /\ NextRight(ns, fr, p)
  BY DEF InTree
<1>2. /\ Len(ns) \in Nat \ {0} /\ DOMAIN ns = 1..Len(ns) /\ DOMAIN ms = 1..Len(ns)
      /\ Len(fr) \in Nat \ {0} /\ DOMAIN fr = 1..Len(fr) /\ DOMAIN gr = 1..Len(fr)
      /\ \A n \in DOMAIN ns : ns[n].parent \in Nat /\ ns[n].parent < n
  BY <1>1, TreeFacts, SeqIs
<1>3. OpenIn(gr) = OpenIn(fr) BY <1>2 DEF OpenIn
<1>4. /\ p \in DOMAIN ns /\ p \notin OpenIn(fr) /\ ns[p].parent = last.parent
      /\ \A m \in C : m < p
      /\ IsFirst(ns[p].list, Below(ns, DOMAIN ns, p))
  BY <1>1 DEF NextRight
<1>5. T = S \cup {p} /\ p \notin S BY <1>2, <1>3, <1>4 DEF Listed
<1>6. /\ last.prev \in C \cup {last.parent}
      /\ \A m \in C : m <= last.prev
      /\ C # {} => IsFirst(ns[last.parent].next, C)
  <2>1. Len(fr) \in DOMAIN fr /\ Adds(fr, Len(fr)) BY <1>2 DEF Adds
  <2>2. QED BY <2>1, <1>1 DEF ListsOpen
<1>7. C \subseteq S /\ S \subseteq DOMAIN ns /\ (\A m \in C : ns[m].parent = last.parent) BY DEF Below, Listed
<1>8. last.parent \in OpenIn(fr) /\ last.parent \in DOMAIN ns /\ last.parent \notin S
  BY <1>1, <1>2 DEF OpenIn, FramesRight, Listed
<1>9. \A n : Below(ms, T, n) = IF n = last.parent THEN C \cup {p} ELSE Below(ns, S, n)
  BY <1>2, <1>4, <1>5, <1>7 DEF Below
<1>10. \A n : Below(ms, DOMAIN ms, n) = Below(ns, DOMAIN ns, n) BY <1>2 DEF Below
<1>11. NodesRight(ms) BY <1>1, <1>2 DEF NodesRight
<1>12. FramesRight(ms, gr) BY <1>1, <1>2 DEF FramesRight
<1>13. \A k \in DOMAIN fr : Adds(gr, k) <=> Adds(fr, k) BY <1>2 DEF Adds
<1> HIDE DEF S, T, C
<1>14. ListsOpen(ms, gr, 0)
  <2> SUFFICES ASSUME NEW k \in DOMAIN gr, Adds(gr, k)
               PROVE  LET list == Below(ms, T, gr[k].parent)
                      IN /\ gr[k].prev \in list \cup {gr[k].parent}
                         /\ \A m \in list : m <= gr[k].prev
                         /\ list # {} => IsFirst(ms[gr[k].parent].next, list)
                         /\ k # Len(gr) => gr[k].prev < gr[k + 1].parent
    BY DEF ListsOpen, T
  <2>1. k \in DOMAIN fr /\ Adds(fr, k) /\ gr[k].parent = fr[k].parent BY <1>2, <1>13
  <2>2. CASE k = Len(fr)
    <3>1. gr[k].prev = p /\ gr[k].parent = last.parent /\ Below(ms, T, gr[k].parent) = C \cup {p}
      BY <2>1, <2>2, <1>9
    <3>2. \A m \in C \cup {p} : m <= p BY <1>4, <1>2, <1>7
    <3>3. IsFirst(ms[last.parent].next, C \cup {p})
      <4>1. ms[last.parent].next = IF last.parent = last.prev THEN p ELSE ns[last.parent].next BY <1>8
      <4>2. CASE C = {}
        <5>1. last.prev = last.parent BY <1>6, <4>2
        <5>2. QED BY <5>1, <4>1, <4>2, <1>2, <1>4 DEF IsFirst
      <4>3. CASE C # {}
        <5>1. last.prev # last.parent
          <6>1. PICK m \in C : TRUE BY <4>3
          <6>2. m <= last.prev /\ last.parent < m /\ m \in Nat /\ last.parent \in Nat BY <6>1, <1>2, <1>6, <1>7, <1>8
          <6>3. last.prev \in Nat BY <1>2, <1>6, <1>7, <1>8
          <6>4. QED BY <6>2, <6>3
        <5>2. ns[last.parent].next \in C /\ \A m \in C : ns[last.parent].next <= m BY <4>3, <1>6 DEF IsFirst
        <5>3. ns[last.parent].next <= p BY <5>2, <1>2, <1>4, <1>7
        <5>4. QED BY <4>1, <5>1, <5>2, <5>3 DEF IsFirst
      <4>4. QED BY <4>2, <4>3
    <3>4. QED BY <3>1, <3>2, <3>3, <2>2
  <2>3. CASE k # Len(fr)
    <3>1. fr[k].parent < last.parent /\ fr[k].parent \in DOMAIN ns
      <4>1. k + 1 \in DOMAIN fr /\ k < k + 1 /\ fr[k + 1].end # None BY <2>1, <2>3, <1>2 DEF Adds
      <4>2. fr[k].parent < fr[k + 1].parent BY <2>1, <4>1, <1>1 DEF FramesRight
      <4>3. k + 1 # Len(fr) => fr[k + 1].parent <= last.parent BY <4>1, <1>1, <1>2 DEF FramesRight
      <4>4. fr[k].parent \in 1..Len(ns) /\ fr[k + 1].parent \in 1..Len(ns) BY <2>1, <4>1, <1>1, <1>2 DEF FramesRight
      <4>5. QED BY <4>2, <4>3, <4>4, <1>2, <1>8
    <3>2. fr[k].parent # last.parent BY <3>1, <1>2, <1>8
    <3>3. Below(ms, T, gr[k].parent) = Below(ns, S, fr[k].parent) /\ gr[k].prev = fr[k].prev
      BY <2>1, <2>3, <3>2, <1>9
    <3>4. ms[fr[k].parent].next = ns[fr[k].parent].next
      <4>1. fr[k].parent \in OpenIn(fr) BY <2>1 DEF OpenIn
      <4>2. fr[k].parent \notin C BY <4>1, <1>7 DEF S, Listed
      <4>3. fr[k].parent # last.prev BY <4>2, <3>2, <1>6
      <4>4. QED BY <4>3, <3>1
    <3>5. k # Len(fr) => k + 1 \in DOMAIN fr /\ gr[k + 1].parent = fr[k + 1].parent BY <2>1, <1>2
    <3>6. QED BY <2>1, <2>3, <3>3, <3>4, <3>5, <1>1 DEF ListsOpen, S
  <2>4. QED BY <2>2, <2>3
<1>15. ListsLinked(ms, gr, 0)
  <2> SUFFICES ASSUME NEW m \in T
               PROVE  /\ Later(ms, T, m) # {} => IsFirst(ms[m].next, Later(ms, T, m))
                      /\ Later(ms, T, m) = {} /\ ms[m].parent \notin OpenIn(gr) => ms[m].next = 0
                      /\ IsFirst(ms[m].list, Below(ms, DOMAIN ms, m))
    BY DEF ListsLinked, T
  <2>1. CASE m = p
    <3>1. ms[p].list = ns[p].list /\ ms[p].parent = last.parent BY <1>4
    <3>2. Later(ms, T, p) = {}
      <4> SUFFICES ASSUME NEW x \in T, ms[x].parent = last.parent, x > p PROVE FALSE BY <3>1 DEF Later
      <4>1. x \in Below(ms, T, last.parent) BY DEF Below
      <4>2. x \in C \cup {p} BY <4>1, <1>9
      <4>3. QED BY <4>2, <1>2, <1>4, <1>7
    <3>3. QED BY <2>1, <3>1, <3>2, <1>3, <1>4, <1>8, <1>10
  <2>2. CASE m \in S
    <3>1. /\ Later(ns, S, m) # {} => IsFirst(ns[m].next, Later(ns, S, m))
          /\ Later(ns, S, m) = {} /\ ns[m].parent \notin OpenIn(fr) => ns[m].next = 0
          /\ IsFirst(ns[m].list, Below(ns, DOMAIN ns, m))
      BY <2>2, <1>1 DEF ListsLinked, S
    <3>2. m \in DOMAIN ns /\ ms[m].list = ns[m].list /\ ms[m].parent = ns[m].parent BY <2>2, <1>7
    <3>3. CASE ns[m].parent # last.parent
      <4>1. m # last.prev BY <3>3, <2>2, <1>6, <1>7, <1>8
      <4>2. ms[m].next = ns[m].next BY <4>1, <3>2
      <4>3. Later(ms, T, m) = Later(ns, S, m)
        BY <3>2, <3>3, <1>4, <1>5, <1>7 DEF Later
      <4>4. QED BY <3>1, <3>2, <4>2, <4>3, <1>3, <1>10
    <3>4. CASE ns[m].parent = last.parent
      <4>1. m \in C BY <2>2, <3>4 DEF C, Below
      <4>2. Later(ms, T, m) = Later(ns, S, m) \cup {p}
        <5>1. m < p /\ ms[p].parent = last.parent BY <4>1, <1>4
        <5>2. QED BY <3>2, <3>4, <5>1, <1>5, <1>7, <1>2, <1>4 DEF Later
      <4>3. IsFirst(ms[m].next, Later(ns, S, m) \cup {p})
        <5>1. CASE m = last.prev
          <6>1. Later(ns, S, m) = {}
            <7> SUFFICES ASSUME NEW x \in S, ns[x].parent = last.parent, x > m PROVE FALSE BY <3>4 DEF Later
            <7>1. x \in C BY DEF C, Below
            <7>2. x <= m BY <7>1, <5>1, <1>6
            <7>3. QED BY <7>2, <1>2, <1>7, <3>2
          <6>2. ms[m].next = p BY <5>1, <3>2
          <6>3. QED BY <6>1, <6>2, <1>2, <1>4 DEF IsFirst
        <5>2. CASE m # last.prev
          <6>1. ms[m].next = ns[m].next BY <5>2, <3>2
          <6>2. last.prev \in Later(ns, S, m)
            <7>1. m <= last.prev /\ last.parent < m BY <4>1, <1>6, <3>2, <3>4, <1>2
            <7>2. last.prev \in Nat BY <1>2, <1>6, <1>7, <1>8
            <7>3. last.prev # last.parent /\ m < last.prev BY <7>1, <7>2, <5>2, <1>2, <1>8, <3>2
            <7>4. last.prev \in C BY <7>3, <1>6
            <7>5. QED BY <7>3, <7>4, <1>7, <3>4 DEF Later
          <6>3. ns[m].next \in Later(ns, S, m) /\ \A x \in Later(ns, S, m) : ns[m].next <= x
            BY <6>2, <3>1 DEF IsFirst
          <6>4. Later(ns, S, m) \subseteq C BY <3>4 DEF Later, C, Below
          <6>5. ns[m].next <= p BY <6>3, <6>4, <1>2, <1>4, <1>7
          <6>6. QED BY <6>1, <6>3, <6>5 DEF IsFirst
        <5>3. QED BY <5>1, <5>2
      <4>4. QED BY <3>1, <3>2, <4>2, <4>3, <1>10
    <3>5. QED BY <3>3, <3>4
  <2>3. QED BY <2>1, <2>2, <1>5
<1>16. NextRight(ms, gr, 0) BY DEF NextRight
<1>17. QED BY <1>11, <1>12, <1>14, <1>15, <1>16 DEF InTree

\* A node is made in the innermost block.
LEMMA NodeIsMade ==
    ASSUME NEW ns, NEW fr, InTree(ns, fr, 0),
           NEW node, DOMAIN node = NodeFields, node.parent = fr[Len(fr)].parent, node.list = 0
    PROVE  LET ms == Append(ns, node)
           IN /\ InTree(ms, fr, Len(ns) + 1)
              /\ Below(ms, DOMAIN ms, Len(ns) + 1) = {}
<1> DEFINE ms == Append(ns, node)
           p == Len(ns) + 1
           S == Listed(ns, fr, 0)
<1>1. NodesRight(ns) /\ FramesRight(ns, fr) /\ ListsOpen(ns, fr, 0) /\ ListsLinked(ns, fr, 0)
  BY DEF InTree
<1>2. /\ Len(ns) \in Nat \ {0} /\ DOMAIN ns = 1..Len(ns)
      /\ Len(fr) \in Nat \ {0} /\ DOMAIN fr = 1..Len(fr)
      /\ OpenIn(fr) \subseteq DOMAIN ns
      /\ \A n \in DOMAIN ns : ns[n].parent \in Nat /\ ns[n].parent < n
  BY <1>1, TreeFacts
<1>3. /\ IsSeq(ms) /\ Len(ms) = p /\ DOMAIN ms = 1..p
      /\ \A n \in DOMAIN ns : ms[n] = ns[n]
      /\ ms[p] = node
  BY <1>1, Appended DEF NodesRight
<1> HIDE DEF ms
<1>4. DOMAIN ms = DOMAIN ns \cup {p} /\ p \notin DOMAIN ns /\ p \in Nat \ {0, 1} BY <1>2, <1>3
<1>5. fr[Len(fr)].parent \in OpenIn(fr) /\ fr[Len(fr)].parent \in DOMAIN ns BY <1>2 DEF OpenIn
<1>6. Listed(ms, fr, p) = S BY <1>2, <1>4 DEF Listed
<1> HIDE DEF p
<1>7. NodesRight(ms)
  <2> SUFFICES ASSUME NEW n \in DOMAIN ms
               PROVE  /\ DOMAIN ms[n] = NodeFields
                      /\ IF n = 1 THEN ms[n].parent = 0 ELSE ms[n].parent \in 1..(n - 1)
    BY <1>3, <1>4 DEF NodesRight
  <2>1. CASE n \in DOMAIN ns BY <2>1, <1>1, <1>3 DEF NodesRight
  <2>2. CASE n = p BY <2>2, <1>2, <1>3, <1>4, <1>5 DEF p
  <2>3. QED BY <2>1, <2>2, <1>4
<1>8. FramesRight(ms, fr)
  <2>1. \A k \in DOMAIN fr : fr[k].parent \in DOMAIN ns BY <1>1 DEF FramesRight
  <2>2. QED BY <2>1, <1>1, <1>3, <1>4 DEF FramesRight
<1>9. \A n : Below(ms, S, n) = Below(ns, S, n) BY <1>3 DEF Below, S, Listed
<1>10. \A m \in S : Later(ms, S, m) = Later(ns, S, m) BY <1>3 DEF Later, S, Listed
<1>11. \A m \in S : Below(ms, DOMAIN ms, m) = Below(ns, DOMAIN ns, m)
  <2>1. \A m \in S : m # ms[p].parent BY <1>3, <1>5 DEF S, Listed
  <2>2. QED BY <2>1, <1>3, <1>4 DEF Below
<1>12. ListsOpen(ms, fr, p)
  <2>1. \A k \in DOMAIN fr : ms[fr[k].parent] = ns[fr[k].parent] BY <1>1, <1>3 DEF FramesRight
  <2>2. QED BY <2>1, <1>1, <1>6, <1>9 DEF ListsOpen, S
<1>13. ListsLinked(ms, fr, p)
  <2>1. \A m \in S : ms[m] = ns[m] BY <1>3 DEF S, Listed
  <2>2. QED BY <2>1, <1>1, <1>6, <1>10, <1>11 DEF ListsLinked, S
<1>14. Below(ms, DOMAIN ms, p) = {}
  <2> SUFFICES ASSUME NEW m \in DOMAIN ms, ms[m].parent = p PROVE FALSE BY DEF Below
  <2>1. ms[m].parent = 0 \/ ms[m].parent \in 1..(m - 1) BY <1>7 DEF NodesRight
  <2>2. QED BY <2>1, <1>3, <1>4
<1>15. NextRight(ms, fr, p)
  <2>1. p \in DOMAIN ms \ OpenIn(fr) BY <1>2, <1>4
  <2>2. \A m \in S : m < p BY <1>2 DEF p, S, Listed
  <2>3. ms[p] = node BY <1>3 DEF p
  <2>4. QED BY <2>1, <2>2, <2>3, <1>6, <1>14 DEF NextRight, IsFirst, Below
<1>16. QED BY <1>7, <1>8, <1>12, <1>13, <1>14, <1>15 DEF InTree, ms, p

\* A file begins in the innermost block.
LEMMA FileBegins ==
    ASSUME NEW ns, NEW fr, InTree(ns, fr, 0),
           NEW f, DOMAIN f = {"end", "parent", "prev", "rest"},
           f.end = None, f.parent = fr[Len(fr)].parent, f.prev = fr[Len(fr)].prev
    PROVE  InTree(ns, Append(fr, f), 0)
<1> DEFINE gr == Append(fr, f)
<1>1. NodesRight(ns) /\ FramesRight(ns, fr) /\ ListsOpen(ns, fr, 0) /\ ListsLinked(ns, fr, 0)
  BY DEF InTree
<1>2. /\ Len(fr) \in Nat \ {0} /\ DOMAIN fr = 1..Len(fr)
      /\ DOMAIN ns = 1..Len(ns) /\ Len(ns) \in Nat
  BY <1>1, TreeFacts
<1>3. /\ IsSeq(gr) /\ Len(gr) = Len(fr) + 1 /\ DOMAIN gr = 1..(Len(fr) + 1)
      /\ \A k \in DOMAIN fr : gr[k] = fr[k]
      /\ gr[Len(fr) + 1] = f
  BY <1>1, Appended DEF FramesRight
<1> HIDE DEF gr
<1>4. OpenIn(gr) = OpenIn(fr)
  <2>1. \A k \in DOMAIN fr : gr[k].parent = fr[k].parent BY <1>3
  <2>2. DOMAIN gr = DOMAIN fr \cup {Len(fr) + 1} BY <1>2, <1>3
  <2>3. gr[Len(fr) + 1].parent = fr[Len(fr)].parent /\ Len(fr) \in DOMAIN fr BY <1>2, <1>3
  <2>4. QED BY <2>1, <2>2, <2>3 DEF OpenIn
<1>5. Listed(ns, gr, 0) = Listed(ns, fr, 0) BY <1>4 DEF Listed
<1>6. FramesRight(ns, gr)
  <2>1. gr[1].parent = 1 /\ gr[1].end = None BY <1>1, <1>2, <1>3 DEF FramesRight
  <2>2. ASSUME NEW k \in DOMAIN gr
        PROVE  /\ DOMAIN gr[k] = {"end", "parent", "prev", "rest"}
               /\ gr[k].parent \in DOMAIN ns
               /\ k # 1 /\ gr[k].end = None => gr[k].parent = gr[k - 1].parent
               /\ k # 1 /\ gr[k].end # None => ns[gr[k].parent].parent = gr[k - 1].parent
    <3>1. CASE k \in DOMAIN fr
      <4>1. gr[k] = fr[k] /\ (k # 1 => gr[k - 1] = fr[k - 1]) BY <3>1, <1>2, <1>3
      <4>2. QED BY <3>1, <4>1, <1>1 DEF FramesRight
    <3>2. CASE k = Len(fr) + 1
      <4>1. gr[k] = f /\ gr[k - 1] = fr[Len(fr)] BY <3>2, <1>2, <1>3
      <4>2. fr[Len(fr)].parent \in DOMAIN ns BY <1>1, <1>2 DEF FramesRight
      <4>3. QED BY <4>1, <4>2
    <3>3. QED BY <3>1, <3>2, <1>2, <1>3
  <2>3. ASSUME NEW j \in DOMAIN gr, NEW k \in DOMAIN gr, j < k
        PROVE  /\ gr[j].parent <= gr[k].parent
               /\ gr[k].end # None => gr[j].parent < gr[k].parent
    <3>1. CASE k \in DOMAIN fr
      <4>1. gr[k] = fr[k] /\ gr[j] = fr[j] /\ j \in DOMAIN fr BY <3>1, <2>3, <1>2, <1>3
      <4>2. QED BY <3>1, <2>3, <4>1, <1>1 DEF FramesRight
    <3>2. CASE k = Len(fr) + 1
      <4>1. gr[k] = f /\ gr[j] = fr[j] /\ j \in 1..Len(fr) BY <3>2, <2>3, <1>2, <1>3
      <4>2. fr[j].parent \in 1..Len(ns) /\ fr[Len(fr)].parent \in 1..Len(ns)
        BY <4>1, <1>1, <1>2 DEF FramesRight
      <4>3. j # Len(fr) => j < Len(fr) /\ Len(fr) \in DOMAIN fr /\ j \in DOMAIN fr BY <4>1, <1>2
      <4>4. j # Len(fr) => fr[j].parent <= fr[Len(fr)].parent BY <4>3, <1>1 DEF FramesRight
      <4>5. QED BY <4>1, <4>2, <4>4
    <3>3. QED BY <3>1, <3>2, <1>2, <1>3
  <2>4. QED BY <2>1, <2>2, <2>3, <1>2, <1>3 DEF FramesRight
<1>7. ListsOpen(ns, gr, 0)
  <2> SUFFICES ASSUME NEW k \in DOMAIN gr, Adds(gr, k)
               PROVE  LET list == Below(ns, Listed(ns, fr, 0), gr[k].parent)
                      IN /\ gr[k].prev \in list \cup {gr[k].parent}
                         /\ \A m \in list : m <= gr[k].prev
                         /\ list # {} => IsFirst(ns[gr[k].parent].next, list)
                         /\ k # Len(gr) => gr[k].prev < gr[k + 1].parent
    BY <1>5 DEF ListsOpen
  <2>1. PICK j \in DOMAIN fr : /\ Adds(fr, j) /\ gr[k].parent = fr[j].parent /\ gr[k].prev = fr[j].prev
                               /\ k # Len(gr) => j # Len(fr) /\ gr[k + 1].parent = fr[j + 1].parent
    <3>1. CASE k = Len(fr) + 1
      <4>1. gr[k].parent = fr[Len(fr)].parent /\ gr[k].prev = fr[Len(fr)].prev BY <3>1, <1>3
      <4>2. Len(fr) \in DOMAIN fr /\ Adds(fr, Len(fr)) BY <1>2 DEF Adds
      <4>3. QED BY <3>1, <4>1, <4>2, <1>3
    <3>2. CASE k # Len(fr) + 1
      <4>1. k \in DOMAIN fr /\ gr[k] = fr[k] /\ k # Len(gr) BY <3>2, <1>2, <1>3
      <4>2. gr[k + 1].end # None BY <4>1 DEF Adds
      <4>3. k # Len(fr) => gr[k + 1] = fr[k + 1] BY <4>1, <1>2, <1>3
      <4>4. Adds(fr, k) BY <4>2, <4>3 DEF Adds
      <4>5. k # Len(fr) BY <4>1, <4>2, <1>3
      <4>6. QED BY <4>1, <4>3, <4>4, <4>5
    <3>3. QED BY <3>1, <3>2
  <2>2. LET list == Below(ns, Listed(ns, fr, 0), fr[j].parent)
        IN /\ fr[j].prev \in list \cup {fr[j].parent}
           /\ \A m \in list : m <= fr[j].prev
           /\ list # {} => IsFirst(ns[fr[j].parent].next, list)
           /\ j # Len(fr) => fr[j].prev < fr[j + 1].parent
    BY <2>1, <1>1 DEF ListsOpen
  <2>3. k # Len(gr) => gr[k].prev < gr[k + 1].parent
    <3> SUFFICES ASSUME k # Len(gr) PROVE gr[k].prev < gr[k + 1].parent OBVIOUS
    <3>1. j # Len(fr) /\ gr[k + 1].parent = fr[j + 1].parent BY <2>1
    <3>2. QED BY <2>1, <2>2, <3>1
  <2>4. QED BY <2>1, <2>2, <2>3
<1>8. ListsLinked(ns, gr, 0) BY <1>1, <1>4, <1>5 DEF ListsLinked
<1>9. NextRight(ns, gr, 0) BY DEF NextRight
<1>10. QED BY <1>1, <1>6, <1>7, <1>8, <1>9 DEF InTree, gr

\* A file ends: the call that sourced it goes on behind its last node.
THEOREM FileEnds ==
    ASSUME NEW ns, NEW fr, InTree(ns, fr, 0), Len(fr) > 1, fr[Len(fr)].end = None,
           NEW gr, IsSeq(gr), Len(gr) = Len(fr) - 1,
           \A k \in DOMAIN gr : /\ DOMAIN gr[k] = {"end", "parent", "prev", "rest"}
                                /\ gr[k].end = fr[k].end
                                /\ gr[k].parent = fr[k].parent
                                /\ gr[k].prev = IF k = Len(gr) THEN fr[Len(fr)].prev ELSE fr[k].prev
    PROVE  InTree(ns, gr, 0)
<1>1. NodesRight(ns) /\ FramesRight(ns, fr) /\ ListsOpen(ns, fr, 0) /\ ListsLinked(ns, fr, 0)
  BY DEF InTree
<1>2. /\ Len(fr) \in Nat /\ DOMAIN fr = 1..Len(fr) /\ DOMAIN gr = 1..(Len(fr) - 1) /\ Len(fr) - 1 \in Nat \ {0}
      /\ Len(fr) \in DOMAIN fr /\ Len(fr) # 1
  BY <1>1, TreeFacts, SeqIs
<1>3. fr[Len(fr)].parent = fr[Len(fr) - 1].parent BY <1>1, <1>2 DEF FramesRight
<1>4. OpenIn(gr) = OpenIn(fr)
  <2>1. \A k \in DOMAIN gr : gr[k].parent = fr[k].parent BY <1>2
  <2>2. DOMAIN fr = DOMAIN gr \cup {Len(fr)} BY <1>2
  <2>3. Len(fr) - 1 \in DOMAIN gr BY <1>2
  <2>4. QED BY <2>1, <2>2, <2>3, <1>3 DEF OpenIn
<1>5. Listed(ns, gr, 0) = Listed(ns, fr, 0) BY <1>4 DEF Listed
<1>6. FramesRight(ns, gr)
  <2>1. 1 \in DOMAIN gr /\ \A k \in DOMAIN gr : k \in DOMAIN fr /\ (k # 1 => k - 1 \in DOMAIN gr) BY <1>2
  <2>2. QED BY <2>1, <1>1, <1>2 DEF FramesRight
<1>7. ListsOpen(ns, gr, 0)
  <2> SUFFICES ASSUME NEW k \in DOMAIN gr, Adds(gr, k)
               PROVE  LET list == Below(ns, Listed(ns, fr, 0), gr[k].parent)
                      IN /\ gr[k].prev \in list \cup {gr[k].parent}
                         /\ \A m \in list : m <= gr[k].prev
                         /\ list # {} => IsFirst(ns[gr[k].parent].next, list)
                         /\ k # Len(gr) => gr[k].prev < gr[k + 1].parent
    BY <1>5 DEF ListsOpen
  <2>1. PICK j \in DOMAIN fr : /\ Adds(fr, j) /\ gr[k].parent = fr[j].parent /\ gr[k].prev = fr[j].prev
                               /\ k # Len(gr) => j # Len(fr) /\ gr[k + 1].parent = fr[j + 1].parent
    <3>1. CASE k = Len(gr)
      <4>1. gr[k].parent = fr[Len(fr)].parent /\ gr[k].prev = fr[Len(fr)].prev BY <3>1, <1>2, <1>3
      <4>2. Len(fr) \in DOMAIN fr /\ Adds(fr, Len(fr)) BY <1>2 DEF Adds
      <4>3. QED BY <3>1, <4>1, <4>2
    <3>2. CASE k # Len(gr)
      <4>1. k \in DOMAIN fr /\ k + 1 \in DOMAIN gr BY <3>2, <1>2
      <4>2. gr[k + 1].end # None BY <3>2 DEF Adds
      <4>3. Adds(fr, k) BY <4>1, <4>2, <1>2 DEF Adds
      <4>4. k # Len(fr) /\ gr[k + 1].parent = fr[k + 1].parent BY <4>1, <1>2
      <4>5. QED BY <3>2, <4>1, <4>3, <4>4
    <3>3. QED BY <3>1, <3>2
  <2>2. LET list == Below(ns, Listed(ns, fr, 0), fr[j].parent)
        IN /\ fr[j].prev \in list \cup {fr[j].parent}
           /\ \A m \in list : m <= fr[j].prev
           /\ list # {} => IsFirst(ns[fr[j].parent].next, list)
           /\ j # Len(fr) => fr[j].prev < fr[j + 1].parent
    BY <2>1, <1>1 DEF ListsOpen
  <2>3. k # Len(gr) => gr[k].prev < gr[k + 1].parent
    <3> SUFFICES ASSUME k # Len(gr) PROVE gr[k].prev < gr[k + 1].parent OBVIOUS
    <3>1. j # Len(fr) /\ gr[k + 1].parent = fr[j + 1].parent BY <2>1
    <3>2. QED BY <2>1, <2>2, <3>1
  <2>4. QED BY <2>1, <2>2, <2>3
<1>8. ListsLinked(ns, gr, 0) BY <1>1, <1>4, <1>5 DEF ListsLinked
<1>9. NextRight(ns, gr, 0) BY DEF NextRight
<1>10. QED BY <1>1, <1>6, <1>7, <1>8, <1>9 DEF InTree

\* What is in the innermost block is in its list.
LEMMA AllListed ==
    ASSUME NEW ns, NEW fr, InTree(ns, fr, 0)
    PROVE  Below(ns, Listed(ns, fr, 0), fr[Len(fr)].parent) = Below(ns, DOMAIN ns, fr[Len(fr)].parent)
<1>1. NodesRight(ns) /\ FramesRight(ns, fr) BY DEF InTree
<1>2. /\ Len(fr) \in Nat \ {0} /\ DOMAIN fr = 1..Len(fr)
      /\ DOMAIN ns = 1..Len(ns) /\ Len(ns) \in Nat
      /\ \A n \in DOMAIN ns : ns[n].parent \in Nat /\ ns[n].parent < n
  BY <1>1, TreeFacts
<1> SUFFICES ASSUME NEW m \in DOMAIN ns, ns[m].parent = fr[Len(fr)].parent, m \in OpenIn(fr) PROVE FALSE
  BY <1>2 DEF Below, Listed
<1>3. PICK k \in DOMAIN fr : fr[k].parent = m BY DEF OpenIn
<1>4. fr[k].parent <= fr[Len(fr)].parent
  <2>1. k # Len(fr) => k < Len(fr) /\ Len(fr) \in DOMAIN fr BY <1>2
  <2>2. k # Len(fr) => fr[k].parent <= fr[Len(fr)].parent BY <2>1, <1>1 DEF FramesRight
  <2>3. QED BY <2>2, <1>2, <1>3
<1>5. QED BY <1>2, <1>3, <1>4

\* The innermost block ends: what followed its node becomes its list.
THEOREM BlockEnds ==
    ASSUME NEW ns, NEW fr, InTree(ns, fr, 0), Len(fr) > 1, fr[Len(fr)].end # None,
           NEW ms, NEW gr,
           IsSeq(ms), Len(ms) = Len(ns),
           \A n \in DOMAIN ns :
             /\ DOMAIN ms[n] = NodeFields
             /\ ms[n].parent = ns[n].parent
             /\ ms[n].next = IF n = fr[Len(fr)].prev THEN 0 ELSE ns[n].next
             /\ ms[n].list = IF n # fr[Len(fr)].parent THEN ns[n].list
                             ELSE IF n = fr[Len(fr)].prev THEN 0 ELSE ns[n].next,
           IsSeq(gr), Len(gr) = Len(fr) - 1, \A k \in DOMAIN gr : gr[k] = fr[k]
    PROVE  InTree(ms, gr, fr[Len(fr)].parent)
<1> DEFINE P == fr[Len(fr)].parent
           q == fr[Len(fr)].prev
           S == Listed(ns, fr, 0)
           C == Below(ns, S, P)
<1>1. NodesRight(ns) /\ FramesRight(ns, fr) /\ ListsOpen(ns, fr, 0) /\ ListsLinked(ns, fr, 0)
  BY DEF InTree
<1>2. /\ Len(ns) \in Nat \ {0} /\ DOMAIN ns = 1..Len(ns) /\ DOMAIN ms = 1..Len(ns)
      /\ Len(fr) \in Nat /\ DOMAIN fr = 1..Len(fr) /\ DOMAIN gr = 1..(Len(fr) - 1)
      /\ Len(fr) - 1 \in Nat \ {0} /\ Len(fr) \in DOMAIN fr /\ Len(fr) # 1
      /\ OpenIn(fr) \subseteq DOMAIN ns
      /\ \A n \in DOMAIN ns : ns[n].parent \in Nat /\ ns[n].parent < n
  BY <1>1, TreeFacts, SeqIs
<1>3. \A k \in DOMAIN gr : k \in DOMAIN fr /\ gr[k].parent = fr[k].parent /\ gr[k].parent < P
  BY <1>1, <1>2 DEF FramesRight
<1>4. P \in OpenIn(fr) /\ P \in DOMAIN ns /\ P \notin S /\ ns[P].parent = fr[Len(fr) - 1].parent
  BY <1>1, <1>2 DEF FramesRight, OpenIn, Listed
<1>5. P \notin OpenIn(gr)
  <2>1. \A k \in DOMAIN gr : gr[k].parent # P BY <1>2, <1>3, <1>4, <1>1 DEF FramesRight
  <2>2. QED BY <2>1 DEF OpenIn
<1>6. OpenIn(gr) \cup {P} = OpenIn(fr)
  <2>1. DOMAIN fr = DOMAIN gr \cup {Len(fr)} BY <1>2
  <2>2. QED BY <2>1, <1>3 DEF OpenIn
<1>7. Listed(ms, gr, P) = S BY <1>2, <1>6 DEF Listed
<1>8. \A n : Below(ms, S, n) = Below(ns, S, n) /\ Below(ms, DOMAIN ms, n) = Below(ns, DOMAIN ns, n)
  BY <1>2 DEF Below, Listed
<1>9. \A m \in S : Later(ms, S, m) = Later(ns, S, m) BY DEF Later, Listed
<1>10. /\ q \in C \cup {P}
       /\ \A m \in C : m <= q
       /\ C # {} => IsFirst(ns[P].next, C)
  <2>1. Adds(fr, Len(fr)) BY DEF Adds
  <2>2. QED BY <2>1, <1>1, <1>2 DEF ListsOpen
<1>11. C \subseteq S /\ S \subseteq DOMAIN ns /\ (\A m \in C : ns[m].parent = P) BY DEF Below, Listed
<1>12. NodesRight(ms) BY <1>1, <1>2 DEF NodesRight
<1>13. FramesRight(ms, gr)
  <2>1. 1 \in DOMAIN gr /\ \A k \in DOMAIN gr : k \in DOMAIN fr /\ (k # 1 => k - 1 \in DOMAIN gr) BY <1>2
  <2>2. \A k \in DOMAIN fr : ms[fr[k].parent].parent = ns[fr[k].parent].parent BY <1>1 DEF FramesRight
  <2>3. QED BY <2>1, <2>2, <1>1, <1>2 DEF FramesRight
<1>14. \A k \in DOMAIN gr : Adds(gr, k) => Adds(fr, k)
  BY <1>2 DEF Adds
<1> HIDE DEF S, C
<1>15. ListsOpen(ms, gr, P)
  <2> SUFFICES ASSUME NEW k \in DOMAIN gr, Adds(gr, k)
               PROVE  LET list == Below(ns, S, fr[k].parent)
                      IN /\ fr[k].prev \in list \cup {fr[k].parent}
                         /\ \A m \in list : m <= fr[k].prev
                         /\ list # {} => IsFirst(ms[fr[k].parent].next, list)
                         /\ k # Len(gr) => fr[k].prev < gr[k + 1].parent
    BY <1>7, <1>8, <1>3 DEF ListsOpen
  <2>1. LET list == Below(ns, S, fr[k].parent)
        IN /\ fr[k].prev \in list \cup {fr[k].parent}
           /\ \A m \in list : m <= fr[k].prev
           /\ list # {} => IsFirst(ns[fr[k].parent].next, list)
           /\ k # Len(fr) => fr[k].prev < fr[k + 1].parent
    BY <1>1, <1>3, <1>14 DEF ListsOpen, S
  <2>2. ms[fr[k].parent].next = ns[fr[k].parent].next
    <3>1. fr[k].parent \in OpenIn(gr) BY <1>3 DEF OpenIn
    <3>2. fr[k].parent \in OpenIn(fr) /\ fr[k].parent # P BY <3>1, <1>5, <1>6
    <3>3. fr[k].parent \notin C BY <3>2, <1>11 DEF S, Listed
    <3>4. fr[k].parent # q BY <3>2, <3>3, <1>10
    <3>5. QED BY <3>2, <3>4, <1>2
  <2>3. ASSUME k # Len(gr) PROVE fr[k].prev < gr[k + 1].parent
    <3>1. k # Len(fr) /\ k + 1 \in DOMAIN gr BY <2>3, <1>2
    <3>2. QED BY <2>1, <3>1
  <2>4. QED BY <2>1, <2>2, <2>3
<1>16. ListsLinked(ms, gr, P)
  <2> SUFFICES ASSUME NEW m \in S
               PROVE  /\ Later(ns, S, m) # {} => IsFirst(ms[m].next, Later(ns, S, m))
                      /\ Later(ns, S, m) = {} /\ ms[m].parent \notin OpenIn(gr) => ms[m].next = 0
                      /\ IsFirst(ms[m].list, Below(ns, DOMAIN ns, m))
    BY <1>7, <1>8, <1>9 DEF ListsLinked
  <2>1. /\ Later(ns, S, m) # {} => IsFirst(ns[m].next, Later(ns, S, m))
        /\ Later(ns, S, m) = {} /\ ns[m].parent \notin OpenIn(fr) => ns[m].next = 0
        /\ IsFirst(ns[m].list, Below(ns, DOMAIN ns, m))
    BY <1>1 DEF ListsLinked, S
  <2>2. m \in DOMAIN ns /\ m # P BY <1>4, <1>11
  <2>3. ms[m].list = ns[m].list /\ ms[m].parent = ns[m].parent BY <2>2
  <2>4. CASE m = q
    <3>1. m \in C BY <2>2, <2>4, <1>10
    <3>2. Later(ns, S, m) = {}
      <4> SUFFICES ASSUME NEW x \in S, ns[x].parent = P, x > m PROVE FALSE BY <3>1, <1>11 DEF Later
      <4>1. x \in C BY DEF C, Below
      <4>2. x <= m BY <4>1, <2>4, <1>10
      <4>3. QED BY <4>2, <2>2, <1>2, <1>11
    <3>3. ms[m].next = 0 BY <2>2, <2>4
    <3>4. QED BY <2>1, <2>3, <3>2, <3>3
  <2>5. CASE m # q
    <3>1. ms[m].next = ns[m].next BY <2>2, <2>5
    <3>2. ASSUME Later(ns, S, m) = {}, ms[m].parent \notin OpenIn(gr) PROVE ns[m].next = 0
      <4>1. CASE ns[m].parent = P
        <5>1. m \in C BY <4>1 DEF C, Below
        <5>2. m <= q /\ q \in Nat BY <5>1, <1>10, <1>11, <1>2, <1>4
        <5>3. m < q BY <5>2, <2>2, <2>5, <1>2
        <5>4. q # P BY <5>3, <4>1, <2>2, <1>2, <1>4
        <5>5. q \in Later(ns, S, m) BY <5>3, <5>4, <4>1, <1>10, <1>11 DEF Later
        <5>6. QED BY <5>5, <3>2
      <4>2. CASE ns[m].parent # P BY <4>2, <3>2, <2>1, <2>3, <1>6
      <4>3. QED BY <4>1, <4>2
    <3>3. QED BY <2>1, <2>3, <3>1, <3>2
  <2>6. QED BY <2>4, <2>5
<1>17. NextRight(ms, gr, P)
  <2>1. P \in DOMAIN ms \ OpenIn(gr) BY <1>2, <1>4, <1>5
  <2>2. ms[P].parent = gr[Len(gr)].parent
    <3>1. Len(gr) \in DOMAIN gr BY <1>2
    <3>2. QED BY <3>1, <1>3, <1>4
  <2>3. \A m \in Below(ns, S, ns[P].parent) : m < P
    <3> DEFINE k == Len(fr) - 1
    <3>1. k \in DOMAIN fr /\ k + 1 = Len(fr) /\ k # Len(fr) BY <1>2
    <3>2. Adds(fr, k) BY <3>1 DEF Adds
    <3> HIDE DEF k
    <3>3. /\ fr[k].prev \in Below(ns, S, fr[k].parent) \cup {fr[k].parent}
          /\ \A m \in Below(ns, S, fr[k].parent) : m <= fr[k].prev
          /\ fr[k].prev < fr[k + 1].parent
      BY <1>1, <3>1, <3>2 DEF ListsOpen, S
    <3>4. Below(ns, S, fr[k].parent) \subseteq Nat /\ fr[k].parent \in Nat
      BY <1>1, <1>2, <1>11, <3>1 DEF Below, FramesRight
    <3>5. QED BY <3>1, <3>3, <3>4, <1>2, <1>4 DEF k
  <2>4. IsFirst(ms[P].list, Below(ns, DOMAIN ns, P))
    <3>1. C = Below(ns, DOMAIN ns, P) BY AllListed DEF C, S
    <3>2. ms[P].list = IF P = q THEN 0 ELSE ns[P].next BY <1>4
    <3>3. CASE C = {}
      <4>1. P = q BY <3>3, <1>10
      <4>2. QED BY <3>1, <3>2, <3>3, <4>1 DEF IsFirst
    <3>4. CASE C # {}
      <4>1. PICK m \in C : TRUE BY <3>4
      <4>2. m <= q /\ P < m /\ m \in Nat /\ P \in Nat /\ q \in Nat BY <4>1, <1>2, <1>4, <1>10, <1>11
      <4>3. QED BY <3>1, <3>2, <3>4, <4>2, <1>10
    <3>5. QED BY <3>3, <3>4
  <2>5. QED BY <2>1, <2>2, <2>3, <2>4, <1>4, <1>7, <1>8 DEF NextRight
<1>18. QED BY <1>12, <1>13, <1>15, <1>16, <1>17 DEF InTree

\* The last file ends.
THEOREM AllEnds ==
    ASSUME NEW ns, NEW fr, InTree(ns, fr, 0), Len(fr) = 1,
           NEW ms, DOMAIN ms = DOMAIN ns,
           \A n \in DOMAIN ns :
             /\ ms[n].parent = ns[n].parent
             /\ ms[n].next = IF n \in {1, fr[1].prev} THEN 0 ELSE ns[n].next
             /\ ms[n].list = IF n # 1 THEN ns[n].list
                             ELSE IF n = fr[1].prev THEN 0 ELSE ns[n].next
    PROVE  \A n \in DOMAIN ms : /\ IsFirst(ms[n].list, Below(ms, DOMAIN ms, n))
                                /\ IsFirst(ms[n].next, Later(ms, DOMAIN ms, n))
<1> DEFINE q == fr[1].prev
           S == Listed(ns, fr, 0)
           C == Below(ns, S, 1)
<1>1. NodesRight(ns) /\ FramesRight(ns, fr) /\ ListsOpen(ns, fr, 0) /\ ListsLinked(ns, fr, 0)
  BY DEF InTree
<1>2. /\ Len(ns) \in Nat \ {0} /\ DOMAIN ns = 1..Len(ns) /\ DOMAIN fr = {1}
      /\ \A n \in DOMAIN ns : ns[n].parent \in Nat /\ ns[n].parent < n
  BY <1>1, TreeFacts
<1>3. fr[1].parent = 1 /\ OpenIn(fr) = {1} BY <1>1, <1>2 DEF FramesRight, OpenIn
<1>4. S = DOMAIN ns \ {1} BY <1>2, <1>3 DEF Listed
<1>5. /\ q \in C \cup {1}
      /\ \A m \in C : m <= q
      /\ C # {} => IsFirst(ns[1].next, C)
  <2>1. Adds(fr, 1) BY DEF Adds
  <2>2. QED BY <2>1, <1>1, <1>2, <1>3 DEF ListsOpen
<1>6. \A n : Below(ms, DOMAIN ms, n) = Below(ns, DOMAIN ns, n) BY DEF Below
<1>7. C = Below(ns, DOMAIN ns, 1) BY AllListed, <1>3
<1>8. \A n \in DOMAIN ns \ {1} : ns[n].parent \in DOMAIN ns BY <1>1, <1>2 DEF NodesRight
<1>9. ns[1].parent = 0 BY <1>1, <1>2 DEF NodesRight
<1> SUFFICES ASSUME NEW n \in DOMAIN ns
             PROVE  IsFirst(ms[n].list, Below(ns, DOMAIN ns, n)) /\ IsFirst(ms[n].next, Later(ms, DOMAIN ms, n))
  BY <1>6
<1>10. CASE n = 1
  <2>1. IsFirst(ms[1].list, C)
    <3>1. CASE C = {}
      <4>1. q = 1 BY <3>1, <1>5
      <4>2. ms[1].list = 0 BY <4>1, <1>10
      <4>3. QED BY <3>1, <4>2 DEF IsFirst
    <3>2. CASE C # {}
      <4>1. PICK m \in C : TRUE BY <3>2
      <4>2. m \in DOMAIN ns /\ m # 1 /\ m <= q BY <4>1, <1>4, <1>5 DEF Below
      <4>3. q # 1 BY <4>2, <1>2
      <4>4. ms[1].list = ns[1].next BY <4>3, <1>10
      <4>5. QED BY <3>2, <4>4, <1>5
    <3>3. QED BY <3>1, <3>2
  <2>2. Later(ms, DOMAIN ms, 1) = {} BY <1>2, <1>8, <1>9, <1>10 DEF Later
  <2>3. ms[1].next = 0 BY <1>10
  <2>4. QED BY <1>7, <1>10, <2>1, <2>2, <2>3 DEF IsFirst
<1>11. CASE n # 1
  <2>1. n \in S BY <1>4, <1>11
  <2>2. /\ Later(ns, S, n) # {} => IsFirst(ns[n].next, Later(ns, S, n))
        /\ Later(ns, S, n) = {} /\ ns[n].parent # 1 => ns[n].next = 0
        /\ IsFirst(ns[n].list, Below(ns, DOMAIN ns, n))
    BY <2>1, <1>1, <1>3 DEF ListsLinked
  <2>3. Later(ms, DOMAIN ms, n) = Later(ns, S, n) BY <1>2, <1>4, <1>11 DEF Later
  <2>4. CASE n = q
    <3>1. n \in C BY <2>4, <1>5, <1>11
    <3>2. Later(ns, S, n) = {}
      <4> SUFFICES ASSUME NEW x \in S, ns[x].parent = 1, x > n PROVE FALSE BY <3>1 DEF Later, Below
      <4>1. x \in C BY DEF Below
      <4>2. x <= n BY <4>1, <2>4, <1>5
      <4>3. QED BY <4>2, <1>2, <1>4
    <3>3. ms[n].next = 0 BY <2>4
    <3>4. QED BY <1>11, <2>2, <2>3, <3>2, <3>3 DEF IsFirst
  <2>5. CASE n # q
    <3>1. ms[n].next = ns[n].next BY <2>5, <1>11
    <3>2. ASSUME ns[n].parent = 1 PROVE Later(ns, S, n) # {}
      <4>1. n \in C BY <2>1, <3>2 DEF Below
      <4>2. n <= q /\ q \in DOMAIN ns BY <4>1, <1>5, <1>2, <1>4 DEF Below
      <4>3. n < q /\ q # 1 BY <4>2, <2>5, <1>2, <1>11
      <4>4. q \in Later(ns, S, n) BY <4>3, <3>2, <1>5 DEF Later, Below
      <4>5. QED BY <4>4
    <3>3. QED BY <1>11, <2>2, <2>3, <3>1, <3>2 DEF IsFirst
  <2>6. QED BY <2>4, <2>5
<1>12. QED BY <1>10, <1>11

----------------------------------------------------------------------------
\* What holds of 0, and of n + 1 whenever it does of n, holds of all numbers.
LEMMA Inductive ==
    ASSUME NEW S, 0 \in S, \A n \in Nat : n \in S => n + 1 \in S
    PROVE  Nat \subseteq S
<1> DEFINE T == Nat \ S
<1> SUFFICES ASSUME T # {} PROVE FALSE OBVIOUS
<1>1. \E x \in T : \A y \in T : ~(<<y, x>> \in OpToRel(<, Nat))
  <2>1. T \subseteq Nat /\ T # {} OBVIOUS
  <2> HIDE DEF T
  <2>2. QED BY <2>1, WFMin, NatLessThanWellFounded, Zenon
<1>2. PICK x \in T : \A y \in T : ~(y < x) BY <1>1 DEF OpToRel
<1>3. x \in Nat \ {0} OBVIOUS
<1>4. x - 1 \in Nat /\ x - 1 < x BY <1>3
<1>5. x - 1 \in S BY <1>2, <1>4
<1>6. x \in S BY <1>3, <1>4, <1>5
<1>7. QED BY <1>6

\* The lines one by one.
LEMMA ReplayIs ==
    ASSUME NEW lines, IsSeq(lines)
    PROVE  \E f : /\ f = [k \in 0..Len(lines) |-> IF k = 0 THEN Unread ELSE Replayed(f[k - 1], lines[k])]
                  /\ Replay(lines) = f[Len(lines)]
<1> DEFINE upTo(n, f) == f = [k \in 0..n |-> IF k = 0 THEN Unread ELSE Replayed(f[k - 1], lines[k])]
           S == {n \in Nat : \E f : upTo(n, f)}
<1>1. 0 \in S
  <2>1. upTo(0, [k \in 0..0 |-> Unread]) OBVIOUS
  <2>2. QED BY <2>1
<1>2. ASSUME NEW n \in Nat, n \in S PROVE n + 1 \in S
  <2>1. PICK f : upTo(n, f) BY <1>2
  <2> DEFINE g == [k \in 0..n + 1 |-> IF k = n + 1 THEN Replayed(f[n], lines[n + 1]) ELSE f[k]]
             h == [k \in 0..n + 1 |-> IF k = 0 THEN Unread ELSE Replayed(g[k - 1], lines[k])]
  <2>2. ASSUME NEW k \in 0..n + 1 PROVE g[k] = h[k]
    <3>1. CASE k = n + 1
      <4>1. g[n] = f[n] OBVIOUS
      <4>2. k # 0 /\ k - 1 = n BY <3>1
      <4>3. g[k] = Replayed(f[n], lines[n + 1]) BY <3>1
      <4>4. h[k] = Replayed(g[k - 1], lines[k]) BY <4>2
      <4>5. QED BY <3>1, <4>1, <4>2, <4>3, <4>4
    <3>2. CASE k # n + 1
      <4>1. k \in 0..n BY <3>2
      <4>2. g[k] = f[k] BY <3>2
      <4>3. CASE k = 0 BY <2>1, <4>1, <4>2, <4>3
      <4>4. CASE k # 0
        <5>1. k - 1 \in 0..n /\ k - 1 # n + 1 /\ k - 1 \in 0..n + 1 BY <4>1, <4>4
        <5>2. g[k - 1] = f[k - 1] BY <5>1
        <5>3. f[k] = Replayed(f[k - 1], lines[k]) BY <2>1, <4>1, <4>4
        <5>4. h[k] = Replayed(g[k - 1], lines[k]) BY <4>4
        <5>5. QED BY <4>2, <5>2, <5>3, <5>4
      <4>5. QED BY <4>3, <4>4
    <3>3. QED BY <3>1, <3>2
  <2>3. g = h BY <2>2
  <2>4. upTo(n + 1, g) BY <2>3
  <2> HIDE DEF g, upTo
  <2>5. QED BY <2>4
<1>3. Len(lines) \in S
  <2>1. Len(lines) \in Nat BY SeqIs
  <2> HIDE DEF S
  <2>2. QED BY <1>1, <1>2, <2>1, Inductive
<1> DEFINE f == CHOOSE f : upTo(Len(lines), f)
<1>4. upTo(Len(lines), f) BY <1>3
<1>5. Replay(lines) = f[Len(lines)] BY DEF Replay
<1>6. QED BY <1>4, <1>5

\* Before the first line nothing is made.
LEMMA ReplayNothing == Replay(<<>>) = Unread
<1>1. <<>> \in Seq({}) /\ Len(<<>>) = 0 OBVIOUS
<1>2. IsSeq(<<>>) BY <1>1, IsSeqOf
<1>3. PICK f : /\ f = [k \in 0..Len(<<>>) |-> IF k = 0 THEN Unread ELSE Replayed(f[k - 1], <<>>[k])]
               /\ Replay(<<>>) = f[Len(<<>>)]
  BY <1>2, ReplayIs
<1>4. f[0] = Unread BY <1>1, <1>3
<1>5. QED BY <1>1, <1>3, <1>4

\* One line more.
LEMMA ReplayLine ==
    ASSUME NEW lines, IsSeq(lines), NEW l
    PROVE  Replay(Append(lines, l)) = Replayed(Replay(lines), l)
<1> DEFINE n == Len(lines)
           more == Append(lines, l)
<1>1. n \in Nat /\ DOMAIN lines = 1..n BY SeqIs
<1>2. IsSeq(more) /\ Len(more) = n + 1 /\ more[n + 1] = l /\ \A k \in 1..n : more[k] = lines[k]
  BY <1>1, Appended
<1> HIDE DEF n, more
<1>3. PICK f : /\ f = [k \in 0..n |-> IF k = 0 THEN Unread ELSE Replayed(f[k - 1], lines[k])]
               /\ Replay(lines) = f[n]
  BY ReplayIs DEF n
<1>4. PICK g : /\ g = [k \in 0..Len(more) |-> IF k = 0 THEN Unread ELSE Replayed(g[k - 1], more[k])]
               /\ Replay(more) = g[Len(more)]
  BY <1>2, ReplayIs
<1> DEFINE S == {k \in Nat : k <= n => g[k] = f[k]}
<1>5. 0 \in S
  <2>1. f[0] = Unread BY <1>1, <1>3
  <2>2. g[0] = Unread BY <1>1, <1>2, <1>4
  <2>3. QED BY <2>1, <2>2
<1>6. ASSUME NEW k \in Nat, k \in S PROVE k + 1 \in S
  <2> SUFFICES ASSUME k + 1 <= n PROVE g[k + 1] = f[k + 1] OBVIOUS
  <2>1. k + 1 \in 0..n /\ k + 1 # 0 /\ k + 1 - 1 = k /\ k + 1 \in 0..(n + 1) /\ k + 1 \in 1..n /\ k <= n BY <1>1
  <2>2. f[k + 1] = Replayed(f[k], lines[k + 1]) BY <2>1, <1>3
  <2>3. g[k + 1] = Replayed(g[k], more[k + 1]) BY <2>1, <1>2, <1>4
  <2>4. g[k] = f[k] BY <1>6, <2>1
  <2>5. QED BY <2>1, <2>2, <2>3, <2>4, <1>2
<1>7. n \in S
  <2> HIDE DEF S
  <2>1. QED BY <1>1, <1>5, <1>6, Inductive
<1>8. g[n] = f[n] BY <1>1, <1>7
<1>9. n + 1 \in 0..(n + 1) /\ n + 1 # 0 /\ n + 1 - 1 = n BY <1>1
<1>10. g[n + 1] = Replayed(g[n], more[n + 1])
  <2>1. g = [k \in 0..(n + 1) |-> IF k = 0 THEN Unread ELSE Replayed(g[k - 1], more[k])] BY <1>2, <1>4
  <2>2. PICK j : j = n + 1 OBVIOUS
  <2>3. j \in 0..(n + 1) /\ j # 0 /\ j - 1 = n BY <2>2, <1>9, <1>1
  <2>4. g[j] = Replayed(g[j - 1], more[j]) BY <2>1, <2>3
  <2>5. g[j] = Replayed(g[n], more[j]) BY <2>3, <2>4
  <2>6. QED BY <2>2, <2>5
<1>11. QED BY <1>2, <1>3, <1>4, <1>8, <1>10 DEF more


----------------------------------------------------------------------------
\* The innermost block that is open is that of the innermost call.
LEMMA FollowsFacts ==
    ASSUME NEW open, NEW fr, Follows(open, fr), IsSeq(open), IsSeq(fr), Len(fr) > 0
    PROVE  /\ Len(open) \in 1..Len(fr)
           /\ open[Len(open)] = fr[Len(fr)].parent
<1>1. /\ Len(fr) \in Nat \ {0} /\ DOMAIN fr = 1..Len(fr)
      /\ Len(open) \in Nat /\ DOMAIN open = 1..Len(open)
  BY SeqIs
<1>2. PICK d \in [DOMAIN fr -> DOMAIN open] : Counts(d, open, fr) BY DEF Follows
<1>3. d[Len(fr)] = Len(open) /\ \A k \in DOMAIN fr : fr[k].parent = open[d[k]] /\ d[k] <= k
  BY <1>2 DEF Counts
<1>4. d[Len(fr)] \in DOMAIN open /\ d[Len(fr)] <= Len(fr) /\ fr[Len(fr)].parent = open[d[Len(fr)]]
  BY <1>1, <1>2, <1>3
<1>5. QED BY <1>1, <1>3, <1>4

\* Calls of the same blocks and files.
LEMMA FollowsSame ==
    ASSUME NEW open, NEW fr, Follows(open, fr), IsSeq(fr), NEW gr, IsSeq(gr), Len(gr) = Len(fr),
           \A k \in DOMAIN fr : gr[k].end = fr[k].end /\ gr[k].parent = fr[k].parent
    PROVE  Follows(open, gr)
<1>1. DOMAIN fr = DOMAIN gr BY SeqIs
<1>2. PICK d \in [DOMAIN fr -> DOMAIN open] : Counts(d, open, fr) BY DEF Follows
<1>3. Counts(d, open, gr) BY <1>1, <1>2 DEF Counts
<1>4. QED BY <1>1, <1>2, <1>3 DEF Follows

\* A block begins.
LEMMA FollowsBlock ==
    ASSUME NEW open, NEW fr, Follows(open, fr), IsSeq(open), IsSeq(fr), Len(fr) > 0,
           NEW f, f.end # None
    PROVE  Follows(Append(open, f.parent), Append(fr, f))
<1> DEFINE gr == Append(fr, f)
           more == Append(open, f.parent)
           n == Len(fr)
<1>1. /\ n \in Nat \ {0} /\ DOMAIN fr = 1..n
      /\ Len(open) \in Nat /\ DOMAIN open = 1..Len(open) /\ Len(open) <= n
  BY SeqIs, FollowsFacts
<1>2. Len(gr) = n + 1 /\ DOMAIN gr = 1..(n + 1) /\ gr[n + 1] = f /\ \A k \in 1..n : gr[k] = fr[k]
  BY <1>1, Appended
<1>3. /\ Len(more) = Len(open) + 1 /\ DOMAIN more = 1..(Len(open) + 1)
      /\ more[Len(open) + 1] = f.parent /\ \A k \in 1..Len(open) : more[k] = open[k]
  BY <1>1, Appended
<1>4. PICK d \in [DOMAIN fr -> DOMAIN open] : Counts(d, open, fr) BY DEF Follows
<1>5. /\ d[1] = 1 /\ d[n] = Len(open)
      /\ \A k \in 1..n :
           /\ fr[k].parent = open[d[k]]
           /\ d[k] <= k
           /\ k # 1 => d[k] = IF fr[k].end = None THEN d[k - 1] ELSE d[k - 1] + 1
  BY <1>1, <1>4 DEF Counts
<1> DEFINE e == [k \in 1..(n + 1) |-> IF k = n + 1 THEN Len(open) + 1 ELSE d[k]]
<1>6. /\ e \in [1..(n + 1) -> 1..(Len(open) + 1)] /\ e[n + 1] = Len(open) + 1
      /\ \A k \in 1..n : e[k] = d[k] /\ d[k] \in 1..Len(open)
  BY <1>1, <1>4
<1> HIDE DEF e, gr, more, n
<1>7. ASSUME NEW k \in DOMAIN gr
      PROVE  /\ gr[k].parent = more[e[k]]
             /\ e[k] <= k
             /\ k # 1 => e[k] = IF gr[k].end = None THEN e[k - 1] ELSE e[k - 1] + 1
  <2>1. CASE k \in 1..n
    <3>1. e[k] = d[k] /\ gr[k] = fr[k] /\ more[d[k]] = open[d[k]] BY <2>1, <1>2, <1>3, <1>6
    <3>2. k # 1 => e[k - 1] = d[k - 1] BY <2>1, <1>1, <1>6
    <3>3. QED BY <2>1, <3>1, <3>2, <1>5
  <2>2. CASE k = n + 1
    <3>1. gr[k] = f /\ e[k] = Len(open) + 1 /\ more[e[k]] = f.parent BY <2>2, <1>2, <1>3, <1>6
    <3>2. k - 1 = n /\ n \in 1..n BY <2>2, <1>1
    <3>3. e[k - 1] = Len(open) BY <3>2, <1>5, <1>6
    <3>4. QED BY <2>2, <3>1, <3>3, <1>1
  <2>3. QED BY <2>1, <2>2, <1>1, <1>2
<1>8. e[1] = 1 BY <1>1, <1>5, <1>6
<1>9. Counts(e, more, gr) BY <1>2, <1>3, <1>6, <1>7, <1>8 DEF Counts
<1>10. e \in [DOMAIN gr -> DOMAIN more] BY <1>2, <1>3, <1>6
<1>11. QED BY <1>9, <1>10 DEF Follows, gr, more

\* A file begins.
LEMMA FollowsFile ==
    ASSUME NEW open, NEW fr, Follows(open, fr), IsSeq(open), IsSeq(fr), Len(fr) > 0,
           NEW f, f.end = None, f.parent = fr[Len(fr)].parent
    PROVE  Follows(open, Append(fr, f))
<1> DEFINE gr == Append(fr, f)
           n == Len(fr)
<1>1. /\ n \in Nat \ {0} /\ DOMAIN fr = 1..n
      /\ Len(open) \in Nat /\ DOMAIN open = 1..Len(open) /\ 1 <= Len(open) /\ Len(open) <= n
      /\ open[Len(open)] = fr[n].parent
  BY SeqIs, FollowsFacts
<1>2. Len(gr) = n + 1 /\ DOMAIN gr = 1..(n + 1) /\ gr[n + 1] = f /\ \A k \in 1..n : gr[k] = fr[k]
  BY <1>1, Appended
<1>3. PICK d \in [DOMAIN fr -> DOMAIN open] : Counts(d, open, fr) BY DEF Follows
<1>4. /\ d[1] = 1 /\ d[n] = Len(open)
      /\ \A k \in 1..n :
           /\ fr[k].parent = open[d[k]]
           /\ d[k] <= k
           /\ k # 1 => d[k] = IF fr[k].end = None THEN d[k - 1] ELSE d[k - 1] + 1
  BY <1>1, <1>3 DEF Counts
<1> DEFINE e == [k \in 1..(n + 1) |-> IF k = n + 1 THEN Len(open) ELSE d[k]]
<1>5. /\ e \in [1..(n + 1) -> 1..Len(open)] /\ e[n + 1] = Len(open)
      /\ \A k \in 1..n : e[k] = d[k] /\ d[k] \in 1..Len(open)
  BY <1>1, <1>3
<1>6. f.parent = fr[n].parent OBVIOUS
<1> HIDE DEF e, gr, n
<1>7. ASSUME NEW k \in DOMAIN gr
      PROVE  /\ gr[k].parent = open[e[k]]
             /\ e[k] <= k
             /\ k # 1 => e[k] = IF gr[k].end = None THEN e[k - 1] ELSE e[k - 1] + 1
  <2>1. CASE k \in 1..n
    <3>1. e[k] = d[k] /\ gr[k] = fr[k] BY <2>1, <1>2, <1>5
    <3>2. k # 1 => e[k - 1] = d[k - 1] BY <2>1, <1>1, <1>5
    <3>3. QED BY <2>1, <3>1, <3>2, <1>4
  <2>2. CASE k = n + 1
    <3>1. gr[k] = f /\ e[k] = Len(open) BY <2>2, <1>2, <1>5
    <3>2. k - 1 = n /\ n \in 1..n BY <2>2, <1>1
    <3>3. e[k - 1] = Len(open) BY <3>2, <1>4, <1>5
    <3>4. QED BY <2>2, <3>1, <3>3, <1>1, <1>6
  <2>3. QED BY <2>1, <2>2, <1>1, <1>2
<1>8. e[1] = 1 BY <1>1, <1>4, <1>5
<1>9. Counts(e, open, gr) BY <1>2, <1>5, <1>7, <1>8 DEF Counts
<1>10. e \in [DOMAIN gr -> DOMAIN open] BY <1>1, <1>2, <1>5
<1>11. QED BY <1>9, <1>10 DEF Follows, gr

\* A call returns: from a block, or from a file.
LEMMA FollowsReturn ==
    ASSUME NEW open, NEW fr, Follows(open, fr), IsSeq(open), IsSeq(fr), Len(fr) > 1,
           NEW gr, IsSeq(gr), Len(gr) = Len(fr) - 1,
           \A k \in DOMAIN gr : gr[k].end = fr[k].end /\ gr[k].parent = fr[k].parent
    PROVE  IF fr[Len(fr)].end = None THEN Follows(open, gr)
           ELSE Len(open) > 1 /\ Follows(SubSeq(open, 1, Len(open) - 1), gr)
<1> DEFINE n == Len(fr)
           m == Len(open) - IF fr[Len(fr)].end = None THEN 0 ELSE 1
<1>1. /\ n \in Nat \ {0, 1} /\ DOMAIN fr = 1..n /\ DOMAIN gr = 1..(n - 1) /\ n - 1 \in Nat \ {0}
      /\ Len(gr) = n - 1
      /\ Len(open) \in Nat /\ DOMAIN open = 1..Len(open) /\ 1 <= Len(open) /\ Len(open) <= n
  BY SeqIs, FollowsFacts
<1>2. PICK d \in [DOMAIN fr -> DOMAIN open] : Counts(d, open, fr) BY DEF Follows
<1>3. /\ d[1] = 1 /\ d[n] = Len(open)
      /\ \A k \in 1..n :
           /\ d[k] \in 1..Len(open)
           /\ fr[k].parent = open[d[k]]
           /\ d[k] <= k
           /\ k # 1 => d[k] = IF fr[k].end = None THEN d[k - 1] ELSE d[k - 1] + 1
  BY <1>1, <1>2 DEF Counts
<1>4. d[n - 1] = m /\ m \in 1..Len(open) /\ n - 1 \in 1..n
  <2>1. n \in 1..n /\ n # 1 /\ n - 1 \in 1..n BY <1>1
  <2>2. Len(open) = IF fr[n].end = None THEN d[n - 1] ELSE d[n - 1] + 1 BY <2>1, <1>3
  <2>3. d[n - 1] \in 1..Len(open) BY <2>1, <1>3
  <2>4. QED BY <2>1, <2>2, <2>3, <1>1
<1> HIDE DEF n, m
<1>5. \A k \in 1..(n - 1) : d[k] <= m
  <2> DEFINE S == {j \in Nat : j < n - 1 => d[n - 1 - j] <= m}
  <2>1. 0 \in S BY <1>1, <1>4
  <2>2. ASSUME NEW j \in Nat, j \in S PROVE j + 1 \in S
    <3> SUFFICES ASSUME j + 1 < n - 1 PROVE d[n - 1 - (j + 1)] <= m OBVIOUS
    <3> DEFINE k == n - 1 - j
    <3>1. k \in 1..n /\ k # 1 /\ k - 1 = n - 1 - (j + 1) /\ k - 1 \in 1..n BY <1>1
    <3>2. d[k] <= m BY <2>2, <1>1
    <3> HIDE DEF k
    <3>3. d[k] = IF fr[k].end = None THEN d[k - 1] ELSE d[k - 1] + 1 BY <3>1, <1>3
    <3>4. d[k] \in Int /\ d[k - 1] \in Int /\ m \in Int BY <3>1, <1>3, <1>4
    <3>5. d[k - 1] <= m BY <3>2, <3>3, <3>4
    <3>6. QED BY <3>1, <3>5
  <2>3. Nat \subseteq S
    <3> HIDE DEF S
    <3>1. QED BY <2>1, <2>2, Inductive
  <2> SUFFICES ASSUME NEW k \in 1..(n - 1) PROVE d[k] <= m OBVIOUS
  <2>4. n - 1 - k \in Nat /\ n - 1 - k < n - 1 /\ n - 1 - (n - 1 - k) = k BY <1>1
  <2>5. QED BY <2>3, <2>4
<1> DEFINE e == [k \in 1..(n - 1) |-> d[k]]
<1>6. \A k \in 1..(n - 1) : e[k] = d[k] /\ k \in 1..n /\ d[k] \in 1..m
  <2> SUFFICES ASSUME NEW k \in 1..(n - 1) PROVE k \in 1..n /\ d[k] \in 1..m OBVIOUS
  <2>1. k \in 1..n BY <1>1
  <2>2. QED BY <2>1, <1>3, <1>4, <1>5
<1>7. e \in [1..(n - 1) -> 1..m] BY <1>6
<1> HIDE DEF e
<1>8. e[1] = 1 /\ e[n - 1] = m
  <2>1. 1 \in 1..(n - 1) /\ n - 1 \in 1..(n - 1) BY <1>1
  <2>2. QED BY <2>1, <1>3, <1>4, <1>6
<1>9. ASSUME NEW k \in 1..(n - 1)
      PROVE  /\ gr[k].parent = open[e[k]]
             /\ e[k] <= k
             /\ k # 1 => e[k] = IF gr[k].end = None THEN e[k - 1] ELSE e[k - 1] + 1
  <2>1. gr[k].end = fr[k].end /\ gr[k].parent = fr[k].parent BY <1>1
  <2>2. e[k] = d[k] /\ k \in 1..n BY <1>6
  <2>3. k # 1 => k - 1 \in 1..(n - 1) BY <1>1
  <2>4. k # 1 => e[k - 1] = d[k - 1] BY <2>3, <1>6
  <2>5. QED BY <2>1, <2>2, <2>4, <1>3
<1>10. CASE fr[n].end = None
  <2>1. m = Len(open) BY <1>10, <1>1 DEF m, n
  <2>2. Counts(e, open, gr) BY <1>1, <1>8, <1>9, <2>1 DEF Counts
  <2>3. e \in [DOMAIN gr -> DOMAIN open] BY <1>1, <1>7, <2>1
  <2>4. Follows(open, gr) BY <2>2, <2>3 DEF Follows
  <2>5. QED BY <2>4, <1>10 DEF n
<1>11. CASE fr[n].end # None
  <2> DEFINE less == SubSeq(open, 1, Len(open) - 1)
  <2>1. m = Len(open) - 1 /\ Len(open) > 1 BY <1>11, <1>4, <1>1 DEF m, n
  <2>2. Len(less) = m /\ DOMAIN less = 1..m /\ \A k \in 1..m : less[k] = open[k] BY <2>1, <1>1, Shortened
  <2> HIDE DEF less
  <2>3. ASSUME NEW k \in 1..(n - 1) PROVE gr[k].parent = less[e[k]]
    <3>1. e[k] \in 1..m BY <1>7
    <3>2. QED BY <3>1, <1>9, <2>2
  <2>4. Counts(e, less, gr) BY <1>1, <1>8, <1>9, <2>2, <2>3 DEF Counts
  <2>5. e \in [DOMAIN gr -> DOMAIN less] BY <1>1, <1>7, <2>2
  <2>6. Follows(less, gr) BY <2>4, <2>5 DEF Follows
  <2>7. QED BY <2>1, <2>6, <1>11 DEF n, less
<1>12. QED BY <1>10, <1>11

----------------------------------------------------------------------------
\* The place after a line, and that of its node.
FetchedAs(fs, fetched, texts) ==
    [fs EXCEPT ![Len(fs)].line = @ + (IF fetched THEN 0 ELSE 1) + texts]

Here(place) == [place EXCEPT ![Len(place)] = @ + 1]

\* Fetching a line counts it in the innermost file only.
LEMMA FetchedIs ==
    ASSUME NEW place, NEW fs, NEW fetched, PlacesRight(place, fs, fetched), Len(fs) > 0,
           NEW texts \in Nat
    PROVE  LET gs == FetchedAs(fs, fetched, texts)
           IN /\ IsSeq(gs) /\ Len(gs) = Len(fs) /\ DOMAIN gs = 1..Len(fs)
              /\ IsSeq(Here(place)) /\ Len(Here(place)) = Len(fs) /\ DOMAIN Here(place) = 1..Len(fs)
              /\ \A k \in 1..Len(fs) :
                   /\ DOMAIN gs[k] = {"name", "line"}
                   /\ Here(place)[k] \in Nat
                   /\ gs[k].line = Here(place)[k] + (IF k = Len(fs) THEN texts ELSE 0)
<1> DEFINE n == Len(fs)
           last == [fs[n] EXCEPT !.line = @ + (IF fetched THEN 0 ELSE 1) + texts]
           gs == [fs EXCEPT ![n] = last]
           after == [place EXCEPT ![n] = place[n] + 1]
<1>1. /\ IsSeq(fs) /\ IsSeq(place) /\ Len(place) = n
      /\ n \in Nat \ {0} /\ DOMAIN fs = 1..n /\ DOMAIN place = 1..n /\ n \in 1..n
  BY SeqIs DEF PlacesRight
<1> HIDE DEF n, last
<1>2. /\ IsSeq(gs) /\ Len(gs) = n /\ DOMAIN gs = 1..n
      /\ gs[n] = last /\ \A k \in 1..n \ {n} : gs[k] = fs[k]
  <2>1. IsSeq(fs) /\ n \in DOMAIN fs BY <1>1
  <2>2. /\ IsSeq(gs) /\ Len(gs) = Len(fs) /\ DOMAIN gs = DOMAIN fs
        /\ gs[n] = last /\ \A k \in DOMAIN fs \ {n} : gs[k] = fs[k]
    BY <2>1, Changed
  <2> HIDE DEF gs
  <2>3. Len(fs) = n BY DEF n
  <2>4. QED BY <1>1, <2>2, <2>3
<1>3. /\ IsSeq(after) /\ Len(after) = n /\ DOMAIN after = 1..n
      /\ after[n] = place[n] + 1 /\ \A k \in 1..n \ {n} : after[k] = place[k]
  <2>1. IsSeq(place) /\ n \in DOMAIN place BY <1>1
  <2>2. /\ IsSeq(after) /\ Len(after) = Len(place) /\ DOMAIN after = DOMAIN place
        /\ after[n] = place[n] + 1 /\ \A k \in DOMAIN place \ {n} : after[k] = place[k]
    BY <2>1, Changed
  <2> HIDE DEF after
  <2>3. QED BY <1>1, <2>2
<1>4. \A k \in 1..n :
         /\ DOMAIN fs[k] = {"name", "line"}
         /\ place[k] \in Nat
         /\ fs[k].line = place[k] + (IF fetched /\ k = n THEN 1 ELSE 0)
  BY <1>1 DEF PlacesRight, n
<1>5. /\ DOMAIN last = {"name", "line"}
      /\ last.line = place[n] + 1 + texts
  <2>1. DOMAIN last = {"name", "line"} BY <1>1, <1>4 DEF last
  <2>2. last.line = fs[n].line + (IF fetched THEN 0 ELSE 1) + texts BY <1>1, <1>4 DEF last
  <2>3. fs[n].line = place[n] + (IF fetched THEN 1 ELSE 0) /\ place[n] \in Nat BY <1>1, <1>4
  <2>4. CASE fetched BY <2>1, <2>2, <2>3, <2>4
  <2>5. CASE ~fetched BY <2>1, <2>2, <2>3, <2>5
  <2>6. QED BY <2>4, <2>5
<1>6. FetchedAs(fs, fetched, texts) = gs /\ Here(place) = after BY <1>1 DEF FetchedAs, Here, last, n
<1> HIDE DEF gs, after
<1>7. ASSUME NEW k \in 1..n
      PROVE  /\ DOMAIN gs[k] = {"name", "line"}
             /\ after[k] \in Nat
             /\ gs[k].line = after[k] + (IF k = n THEN texts ELSE 0)
  <2>1. CASE k = n BY <2>1, <1>1, <1>2, <1>3, <1>4, <1>5
  <2>2. CASE k # n
    <3>1. gs[k] = fs[k] /\ after[k] = place[k] /\ place[k] \in Nat /\ fs[k].line = place[k]
      BY <2>2, <1>2, <1>3, <1>4
    <3>2. QED BY <2>2, <3>1, <1>4
  <2>3. QED BY <2>1, <2>2
<1>8. QED BY <1>2, <1>3, <1>6, <1>7 DEF n

\* A line.
LEMMA PlaceLine ==
    ASSUME NEW place, NEW fs, NEW fetched, PlacesRight(place, fs, fetched), Len(fs) > 0
    PROVE  /\ PlacesRight(Here(place), FetchedAs(fs, fetched, 0), FALSE)
           /\ Len(FetchedAs(fs, fetched, 0)) = Len(fs)
           /\ LinesOf(FetchedAs(fs, fetched, 0)) = Here(place)
<1> DEFINE gs == FetchedAs(fs, fetched, 0)
           after == Here(place)
<1>1. /\ IsSeq(gs) /\ Len(gs) = Len(fs) /\ DOMAIN gs = 1..Len(fs)
      /\ IsSeq(after) /\ Len(after) = Len(fs) /\ DOMAIN after = 1..Len(fs)
      /\ \A k \in 1..Len(fs) : DOMAIN gs[k] = {"name", "line"} /\ after[k] \in Nat /\ gs[k].line = after[k]
  BY FetchedIs
<1> HIDE DEF gs, after
<1>2. PlacesRight(after, gs, FALSE) BY <1>1 DEF PlacesRight
<1>3. LinesOf(gs) = [k \in 1..Len(fs) |-> after[k]] BY <1>1 DEF LinesOf
<1>4. after = [k \in 1..Len(fs) |-> after[k]] BY <1>1, SeqIs
<1>5. QED BY <1>1, <1>2, <1>3, <1>4 DEF gs, after

\* A help text.
LEMMA PlaceHelp ==
    ASSUME NEW place, NEW fs, NEW fetched, PlacesRight(place, fs, fetched), Len(fs) > 0,
           NEW texts \in Nat
    PROVE  /\ PlacesRight([Here(place) EXCEPT ![Len(place)] = @ + texts], FetchedAs(fs, fetched, texts + 1), TRUE)
           /\ Len(FetchedAs(fs, fetched, texts + 1)) = Len(fs)
<1> DEFINE gs == FetchedAs(fs, fetched, texts + 1)
           here == Here(place)
           n == Len(fs)
           after == [here EXCEPT ![n] = here[n] + texts]
<1>1. n \in Nat \ {0} /\ Len(place) = n /\ n \in 1..n BY SeqIs DEF PlacesRight
<1>2. /\ IsSeq(gs) /\ Len(gs) = n /\ DOMAIN gs = 1..n
      /\ IsSeq(here) /\ Len(here) = n /\ DOMAIN here = 1..n
      /\ \A k \in 1..n : /\ DOMAIN gs[k] = {"name", "line"}
                         /\ here[k] \in Nat
                         /\ gs[k].line = here[k] + (IF k = n THEN texts + 1 ELSE 0)
  <2>1. texts + 1 \in Nat OBVIOUS
  <2>2. QED BY <2>1, FetchedIs
<1> HIDE DEF gs, here, n
<1>3. /\ IsSeq(after) /\ Len(after) = n /\ DOMAIN after = 1..n
      /\ after[n] = here[n] + texts /\ \A k \in 1..n \ {n} : after[k] = here[k]
  BY <1>1, <1>2, Changed
<1>4. ASSUME NEW k \in 1..n
      PROVE  after[k] \in Nat /\ gs[k].line = after[k] + (IF TRUE /\ k = n THEN 1 ELSE 0)
  <2>1. CASE k = n BY <2>1, <1>1, <1>2, <1>3
  <2>2. CASE k # n BY <2>2, <1>2, <1>3
  <2>3. QED BY <2>1, <2>2
<1>5. after = [Here(place) EXCEPT ![Len(place)] = @ + texts] BY <1>1 DEF here
<1> HIDE DEF after
<1>6. PlacesRight(after, gs, TRUE) BY <1>2, <1>3, <1>4 DEF PlacesRight
<1>7. QED BY <1>2, <1>5, <1>6 DEF gs, n

\* The place in a file that begins.
LEMMA PlaceFile ==
    ASSUME NEW place, NEW fs, PlacesRight(place, fs, FALSE), NEW file, DOMAIN file = {"name", "line"}, file.line = 0
    PROVE  /\ PlacesRight(Append(place, 0), Append(fs, file), FALSE)
           /\ Len(Append(fs, file)) = Len(fs) + 1
<1> DEFINE n == Len(fs)
           after == Append(place, 0)
           gs == Append(fs, file)
<1>1. IsSeq(fs) /\ IsSeq(place) /\ Len(place) = n /\ n \in Nat /\ DOMAIN fs = 1..n /\ DOMAIN place = 1..n
  BY SeqIs DEF PlacesRight
<1>2. /\ IsSeq(after) /\ Len(after) = n + 1 /\ after[n + 1] = 0 /\ \A k \in 1..n : after[k] = place[k]
      /\ IsSeq(gs) /\ Len(gs) = n + 1 /\ gs[n + 1] = file /\ \A k \in 1..n : gs[k] = fs[k]
      /\ DOMAIN gs = 1..(n + 1)
  BY <1>1, Appended
<1>3. \A k \in 1..n : DOMAIN fs[k] = {"name", "line"} /\ place[k] \in Nat /\ fs[k].line = place[k]
  BY <1>1 DEF PlacesRight
<1> HIDE DEF n, after, gs
<1>4. ASSUME NEW k \in 1..(n + 1)
      PROVE  DOMAIN gs[k] = {"name", "line"} /\ after[k] \in Nat /\ gs[k].line = after[k]
  <2>1. CASE k = n + 1 BY <2>1, <1>2
  <2>2. CASE k \in 1..n BY <2>2, <1>2, <1>3
  <2>3. QED BY <2>1, <2>2, <1>1
<1>5. PlacesRight(after, gs, FALSE) BY <1>2, <1>4 DEF PlacesRight
<1>6. QED BY <1>2, <1>5 DEF n, after, gs

\* The place in the file that sourced the one that ends.
LEMMA PlaceEnd ==
    ASSUME NEW place, NEW fs, NEW fetched, PlacesRight(place, fs, fetched), Len(fs) > 0
    PROVE  LET outer == SubSeq(fs, 1, Len(fs) - 1)
               above == SubSeq(place, 1, Len(place) - 1)
           IN /\ PlacesRight(above, outer, FALSE)
              /\ Len(outer) = Len(fs) - 1
<1> DEFINE n == Len(fs)
           gs == SubSeq(fs, 1, n - 1)
           above == SubSeq(place, 1, n - 1)
<1>1. IsSeq(fs) /\ IsSeq(place) /\ Len(place) = n /\ n \in Nat \ {0} /\ DOMAIN fs = 1..n
  BY SeqIs DEF PlacesRight
<1>2. /\ IsSeq(gs) /\ Len(gs) = n - 1 /\ DOMAIN gs = 1..(n - 1) /\ \A k \in 1..(n - 1) : gs[k] = fs[k]
      /\ IsSeq(above) /\ Len(above) = n - 1 /\ \A k \in 1..(n - 1) : above[k] = place[k]
  BY <1>1, Shortened
<1>3. Len(place) - 1 = n - 1 BY <1>1
<1>4. ASSUME NEW k \in 1..(n - 1)
      PROVE  DOMAIN fs[k] = {"name", "line"} /\ place[k] \in Nat /\ fs[k].line = place[k]
  <2>1. k \in DOMAIN fs /\ k # n BY <1>1
  <2>2. fs[k].line = place[k] + 0 BY <2>1 DEF PlacesRight
  <2>3. QED BY <2>1, <2>2 DEF PlacesRight
<1> HIDE DEF n
<1>6. \A k \in DOMAIN gs : DOMAIN gs[k] = {"name", "line"} /\ above[k] \in Nat /\ gs[k].line = above[k]
  BY <1>2, <1>4
<1> HIDE DEF gs, above
<1>7. PlacesRight(above, gs, FALSE) BY <1>2, <1>6 DEF PlacesRight
<1>8. QED BY <1>2, <1>3, <1>7 DEF n, gs, above

\* The place in the next file of a source line.
LEMMA PlaceNext ==
    ASSUME NEW place, NEW fs, NEW fetched, PlacesRight(place, fs, fetched), Len(fs) > 0,
           NEW file, DOMAIN file = {"name", "line"}, file.line = 0
    PROVE  LET outer == SubSeq(fs, 1, Len(fs) - 1)
           IN /\ PlacesRight([place EXCEPT ![Len(place)] = 0], Append(outer, file), FALSE)
              /\ Len(Append(outer, file)) = Len(fs)
<1> DEFINE n == Len(fs)
           outer == SubSeq(fs, 1, n - 1)
           gs == Append(outer, file)
           after == [place EXCEPT ![n] = 0]
<1>1. IsSeq(fs) /\ IsSeq(place) /\ Len(place) = n /\ n \in Nat \ {0} /\ DOMAIN fs = 1..n /\ DOMAIN place = 1..n /\ n \in 1..n
  BY SeqIs DEF PlacesRight
<1>2. IsSeq(outer) /\ Len(outer) = n - 1 /\ DOMAIN outer = 1..(n - 1) /\ \A k \in 1..(n - 1) : outer[k] = fs[k]
  BY <1>1, Shortened
<1> HIDE DEF outer
<1>3. /\ IsSeq(gs) /\ Len(gs) = n - 1 + 1 /\ DOMAIN gs = 1..(n - 1 + 1)
      /\ gs[n - 1 + 1] = file /\ \A k \in 1..(n - 1) : gs[k] = fs[k]
  BY <1>2, Appended
<1>4. /\ IsSeq(after) /\ Len(after) = n /\ after[n] = 0 /\ \A k \in 1..n \ {n} : after[k] = place[k]
  BY <1>1, Changed
<1>5. n - 1 + 1 = n /\ \A k \in 1..n \ {n} : k \in 1..(n - 1)
  <2> HIDE DEF n
  <2>1. QED BY <1>1
<1>6. ASSUME NEW k \in 1..n \ {n}
      PROVE  DOMAIN fs[k] = {"name", "line"} /\ place[k] \in Nat /\ fs[k].line = place[k]
  <2>1. k \in DOMAIN fs /\ k # n BY <1>1
  <2>2. fs[k].line = place[k] + 0 BY <2>1 DEF PlacesRight
  <2>3. QED BY <2>1, <2>2 DEF PlacesRight
<1> HIDE DEF n, gs, after
<1>7. ASSUME NEW k \in 1..n
      PROVE  DOMAIN gs[k] = {"name", "line"} /\ after[k] \in Nat /\ gs[k].line = after[k]
  <2>1. CASE k = n BY <2>1, <1>3, <1>4, <1>5
  <2>2. CASE k # n BY <2>2, <1>3, <1>4, <1>5, <1>6
  <2>3. QED BY <2>1, <2>2
<1>8. PlacesRight(after, gs, FALSE) BY <1>3, <1>4, <1>5, <1>7 DEF PlacesRight
<1>9. QED BY <1>1, <1>3, <1>5, <1>8 DEF n, outer, gs, after

----------------------------------------------------------------------------
\* Nodes with the same parents and places.
LEMMA MadeSame ==
    ASSUME NEW made, NEW ns, MadeRight(made, ns), IsSeq(ns),
           NEW ms, IsSeq(ms), Len(ms) = Len(ns),
           \A n \in DOMAIN ns : ms[n].parent = ns[n].parent /\ ms[n].at = ns[n].at
    PROVE  MadeRight(made, ms)
<1>1. DOMAIN ms = DOMAIN ns BY SeqIs
<1>2. QED BY <1>1 DEF MadeRight

\* A node more.
LEMMA MadeMore ==
    ASSUME NEW made, NEW ns, MadeRight(made, ns), IsSeq(ns), NEW node
    PROVE  MadeRight(Append(made, <<node.parent, LinesOf(node.at)>>), Append(ns, node))
<1> DEFINE more == Append(made, <<node.parent, LinesOf(node.at)>>)
           ms == Append(ns, node)
           n == Len(ns)
<1>1. n \in Nat /\ DOMAIN ns = 1..n /\ IsSeq(made) /\ Len(made) = n /\ DOMAIN made = 1..n
  BY SeqIs DEF MadeRight
<1>2. /\ IsSeq(more) /\ Len(more) = n + 1 /\ more[n + 1] = <<node.parent, LinesOf(node.at)>>
      /\ \A k \in 1..n : more[k] = made[k]
      /\ IsSeq(ms) /\ Len(ms) = n + 1 /\ DOMAIN ms = 1..(n + 1) /\ ms[n + 1] = node
      /\ \A k \in 1..n : ms[k] = ns[k]
  BY <1>1, Appended
<1> HIDE DEF more, ms, n
<1>3. ASSUME NEW k \in 1..(n + 1) PROVE more[k] = <<ms[k].parent, LinesOf(ms[k].at)>>
  <2>1. CASE k = n + 1 BY <2>1, <1>2
  <2>2. CASE k \in 1..n BY <2>2, <1>1, <1>2 DEF MadeRight
  <2>3. QED BY <2>1, <2>2, <1>1
<1>4. MadeRight(more, ms) BY <1>2, <1>3 DEF MadeRight
<1>5. QED BY <1>4 DEF more, ms

----------------------------------------------------------------------------
\* What agreement gives, in one place.
LEMMA AgreesFacts ==
    ASSUME NEW o, NEW ns, NEW fr, NEW fs, NEW fetched, Agrees(o, ns, fr, fs, fetched),
           IsSeq(fr), Len(fr) > 0
    PROVE  /\ IsSeq(o.open) /\ Follows(o.open, fr) /\ PlacesRight(o.place, fs, fetched) /\ MadeRight(o.made, ns)
           /\ Len(o.open) \in Nat \ {0} /\ Len(fr) \in Nat /\ Len(fs) = Len(fr) + 1 - Len(o.open) /\ Len(fs) > 0
           /\ o.open[Len(o.open)] = fr[Len(fr)].parent
           /\ Len(o.made) = Len(ns) /\ Len(o.place) = Len(fs)
<1>1. /\ IsSeq(o.open) /\ Follows(o.open, fr) /\ PlacesRight(o.place, fs, fetched) /\ MadeRight(o.made, ns)
      /\ Len(fs) = Len(fr) + 1 - Len(o.open)
  BY DEF Agrees
<1>2. Len(o.open) \in 1..Len(fr) /\ o.open[Len(o.open)] = fr[Len(fr)].parent BY <1>1, FollowsFacts
<1>3. Len(fr) \in Nat /\ Len(o.open) \in Nat BY <1>1, SeqIs
<1>4. Len(o.made) = Len(ns) /\ Len(o.place) = Len(fs) BY <1>1 DEF MadeRight, PlacesRight
<1>5. Len(fr) + 1 - Len(o.open) > 0 /\ Len(o.open) # 0
  <2>1. \A a, b \in Nat : b \in 1..a => a + 1 - b > 0 /\ b # 0 OBVIOUS
  <2>2. QED BY <2>1, <1>2, <1>3
<1>6. Len(fs) > 0 BY <1>1, <1>5
<1>7. QED BY <1>1, <1>2, <1>3, <1>4, <1>5, <1>6

\* What the lines do not say may change.
LEMMA StillAgrees ==
    ASSUME NEW o, NEW ns, NEW fr, NEW fs, NEW fetched, Agrees(o, ns, fr, fs, fetched), IsSeq(ns), IsSeq(fr),
           NEW ms, IsSeq(ms), Len(ms) = Len(ns),
           \A n \in DOMAIN ns : ms[n].parent = ns[n].parent /\ ms[n].at = ns[n].at,
           NEW gr, IsSeq(gr), Len(gr) = Len(fr),
           \A k \in DOMAIN fr : gr[k].end = fr[k].end /\ gr[k].parent = fr[k].parent
    PROVE  Agrees(o, ms, gr, fs, fetched)
<1>1. /\ IsSeq(o.open) /\ Follows(o.open, fr) /\ PlacesRight(o.place, fs, fetched) /\ MadeRight(o.made, ns)
      /\ Len(fs) = Len(fr) + 1 - Len(o.open)
  BY DEF Agrees
<1>2. Follows(o.open, gr) BY <1>1, FollowsSame
<1>3. MadeRight(o.made, ms) BY <1>1, MadeSame
<1>4. QED BY <1>1, <1>2, <1>3 DEF Agrees

\* A line that neither makes a node nor leaves its block or its file.
LEMMA AgreesLine ==
    ASSUME NEW o, NEW ns, NEW fr, NEW fs, NEW fetched, Agrees(o, ns, fr, fs, fetched), IsSeq(fr), Len(fr) > 0,
           NEW l, l.t \notin Starts \cup {"if", "endif", "endmenu", "endchoice", "eof", "help"},
           l.t = "source" => l.files = <<>>
    PROVE  Agrees(Replayed(o, l), ns, fr, FetchedAs(fs, fetched, 0), FALSE)
<1>0. /\ IsSeq(o.open) /\ Follows(o.open, fr) /\ PlacesRight(o.place, fs, fetched) /\ MadeRight(o.made, ns)
      /\ Len(o.open) \in Nat \ {0} /\ Len(fr) \in Nat /\ Len(fs) = Len(fr) + 1 - Len(o.open) /\ Len(fs) > 0
      /\ o.open[Len(o.open)] = fr[Len(fr)].parent
      /\ Len(o.made) = Len(ns) /\ Len(o.place) = Len(fs)
  BY AgreesFacts
<1>1. /\ Replayed(o, l).open = o.open
      /\ Replayed(o, l).place = Here(o.place)
      /\ Replayed(o, l).made = o.made
  BY DEF Replayed, Here, Starts
<1>2. PlacesRight(Here(o.place), FetchedAs(fs, fetched, 0), FALSE) /\ Len(FetchedAs(fs, fetched, 0)) = Len(fs)
  <2>1. PlacesRight(o.place, fs, fetched) /\ Len(fs) > 0 BY <1>0
  <2>2. QED BY <2>1, PlaceLine
<1>3. QED BY <1>0, <1>1, <1>2 DEF Agrees

\* A help text, with the line that ends it.
LEMMA AgreesHelp ==
    ASSUME NEW o, NEW ns, NEW fr, NEW fs, NEW fetched, Agrees(o, ns, fr, fs, fetched), IsSeq(fr), Len(fr) > 0,
           NEW l, l.t = "help", l.texts \in Nat
    PROVE  Agrees(Replayed(o, l), ns, fr, FetchedAs(fs, fetched, l.texts + 1), TRUE)
<1>0. /\ IsSeq(o.open) /\ Follows(o.open, fr) /\ PlacesRight(o.place, fs, fetched) /\ MadeRight(o.made, ns)
      /\ Len(o.open) \in Nat \ {0} /\ Len(fr) \in Nat /\ Len(fs) = Len(fr) + 1 - Len(o.open) /\ Len(fs) > 0
      /\ o.open[Len(o.open)] = fr[Len(fr)].parent
      /\ Len(o.made) = Len(ns) /\ Len(o.place) = Len(fs)
  BY AgreesFacts
<1>1. /\ Replayed(o, l).open = o.open
      /\ Replayed(o, l).place = [Here(o.place) EXCEPT ![Len(o.place)] = @ + l.texts]
      /\ Replayed(o, l).made = o.made
  BY DEF Replayed, Here, Starts
<1>2. /\ PlacesRight([Here(o.place) EXCEPT ![Len(o.place)] = @ + l.texts], FetchedAs(fs, fetched, l.texts + 1), TRUE)
      /\ Len(FetchedAs(fs, fetched, l.texts + 1)) = Len(fs)
  <2>1. PlacesRight(o.place, fs, fetched) /\ Len(fs) > 0 BY <1>0
  <2>2. QED BY <2>1, PlaceHelp
<1>3. QED BY <1>0, <1>1, <1>2 DEF Agrees

\* The first file of a source line.
LEMMA AgreesSource ==
    ASSUME NEW o, NEW ns, NEW fr, NEW fs, NEW fetched, Agrees(o, ns, fr, fs, fetched), IsSeq(fr), Len(fr) > 0,
           NEW l, l.t = "source", l.files # <<>>,
           NEW f, f.end = None, f.parent = fr[Len(fr)].parent,
           NEW file, DOMAIN file = {"name", "line"}, file.line = 0
    PROVE  Agrees(Replayed(o, l), ns, Append(fr, f), Append(FetchedAs(fs, fetched, 0), file), FALSE)
<1>0. /\ IsSeq(o.open) /\ Follows(o.open, fr) /\ PlacesRight(o.place, fs, fetched) /\ MadeRight(o.made, ns)
      /\ Len(o.open) \in Nat \ {0} /\ Len(fr) \in Nat /\ Len(fs) = Len(fr) + 1 - Len(o.open) /\ Len(fs) > 0
      /\ o.open[Len(o.open)] = fr[Len(fr)].parent
      /\ Len(o.made) = Len(ns) /\ Len(o.place) = Len(fs)
  BY AgreesFacts
<1>1. /\ Replayed(o, l).open = o.open
      /\ Replayed(o, l).place = Append(Here(o.place), 0)
      /\ Replayed(o, l).made = o.made
  BY DEF Replayed, Here, Starts
<1>2. Follows(o.open, Append(fr, f)) BY <1>0, FollowsFile
<1>3. PlacesRight(Here(o.place), FetchedAs(fs, fetched, 0), FALSE) /\ Len(FetchedAs(fs, fetched, 0)) = Len(fs)
  <2>1. PlacesRight(o.place, fs, fetched) /\ Len(fs) > 0 BY <1>0
  <2>2. QED BY <2>1, PlaceLine
<1>4. /\ PlacesRight(Append(Here(o.place), 0), Append(FetchedAs(fs, fetched, 0), file), FALSE)
      /\ Len(Append(FetchedAs(fs, fetched, 0), file)) = Len(fs) + 1
  BY <1>3, PlaceFile
<1>5. Len(Append(fr, f)) = Len(fr) + 1 BY Appended
<1>6. Len(fs) + 1 = Len(fr) + 1 + 1 - Len(o.open) BY <1>0
<1>7. QED BY <1>1, <1>2, <1>4, <1>5, <1>6, <1>0 DEF Agrees

\* A node, and the block that begins with it.
LEMMA AgreesNode ==
    ASSUME NEW o, NEW ns, NEW fr, NEW fs, NEW fetched, Agrees(o, ns, fr, fs, fetched), IsSeq(ns), IsSeq(fr), Len(fr) > 0,
           NEW l, l.t \in Starts \cup {"if"},
           NEW node, node.parent = fr[Len(fr)].parent, node.at = FetchedAs(fs, fetched, 0),
           NEW gr, IF l.t \in {"if", "menu", "choice"}
                   THEN \E f : f.end # None /\ f.parent = Len(ns) + 1 /\ gr = Append(fr, f)
                   ELSE gr = fr
    PROVE  Agrees(Replayed(o, l), Append(ns, node), gr, FetchedAs(fs, fetched, 0), FALSE)
<1>0. /\ IsSeq(o.open) /\ Follows(o.open, fr) /\ PlacesRight(o.place, fs, fetched) /\ MadeRight(o.made, ns)
      /\ Len(o.open) \in Nat \ {0} /\ Len(fr) \in Nat /\ Len(fs) = Len(fr) + 1 - Len(o.open) /\ Len(fs) > 0
      /\ o.open[Len(o.open)] = fr[Len(fr)].parent
      /\ Len(o.made) = Len(ns) /\ Len(o.place) = Len(fs)
  BY AgreesFacts
<1> DEFINE here == Here(o.place)
           gs == FetchedAs(fs, fetched, 0)
<1>1. PlacesRight(here, gs, FALSE) /\ Len(gs) = Len(fs) /\ LinesOf(gs) = here
  <2>1. PlacesRight(o.place, fs, fetched) /\ Len(fs) > 0 BY <1>0
  <2>2. QED BY <2>1, PlaceLine
<1>2. /\ Replayed(o, l).place = here
      /\ Replayed(o, l).made = Append(o.made, <<o.open[Len(o.open)], here>>)
  BY DEF Replayed, Here, Starts
<1>3. MadeRight(Append(o.made, <<o.open[Len(o.open)], here>>), Append(ns, node))
  <2>1. o.open[Len(o.open)] = node.parent /\ here = LinesOf(node.at) BY <1>1, <1>0
  <2>2. QED BY <2>1, <1>0, MadeMore
<1> HIDE DEF here, gs
<1>4. CASE l.t \in {"if", "menu", "choice"}
  <2>1. PICK f : f.end # None /\ f.parent = Len(ns) + 1 /\ gr = Append(fr, f) BY <1>4
  <2>2. Replayed(o, l).open = Append(o.open, Len(o.made) + 1) BY <1>4 DEF Replayed, Starts
  <2>3. Len(o.made) + 1 = f.parent BY <2>1, <1>0
  <2>4. Follows(Append(o.open, f.parent), gr) BY <2>1, <1>0, FollowsBlock
  <2>5. /\ IsSeq(Append(o.open, f.parent)) /\ Len(Append(o.open, f.parent)) = Len(o.open) + 1
        /\ Len(gr) = Len(fr) + 1
    BY <2>1, <1>0, Appended
  <2>6. Len(fs) = Len(fr) + 1 + 1 - (Len(o.open) + 1)
    <3>1. \A a, b \in Nat : a + 1 - b = a + 1 + 1 - (b + 1) OBVIOUS
    <3>2. QED BY <3>1, <1>0
  <2>7. QED BY <1>1, <1>2, <1>3, <2>2, <2>3, <2>4, <2>5, <2>6 DEF Agrees, gs
<1>5. CASE l.t \notin {"if", "menu", "choice"}
  <2>1. gr = fr BY <1>5
  <2>2. Replayed(o, l).open = o.open BY <1>5 DEF Replayed, Starts
  <2>3. QED BY <1>1, <1>2, <1>3, <2>1, <2>2, <1>0 DEF Agrees, gs
<1>6. QED BY <1>4, <1>5

\* The calls that go on when the innermost one returns.
Returned(gr, fr) ==
    /\ IsSeq(gr) /\ Len(gr) = Len(fr) - 1
    /\ \A k \in DOMAIN gr : gr[k].end = fr[k].end /\ gr[k].parent = fr[k].parent

\* The end of the innermost block.
LEMMA AgreesClosed ==
    ASSUME NEW o, NEW ns, NEW fr, NEW fs, NEW fetched, NEW l, NEW gr,
           Agrees(o, ns, fr, fs, fetched), IsSeq(fr), Len(fr) > 1, fr[Len(fr)].end # None,
           l.t \in {"endif", "endmenu", "endchoice"}, Returned(gr, fr)
    PROVE  Agrees(Replayed(o, l), ns, gr, FetchedAs(fs, fetched, 0), FALSE)
<1>0. /\ IsSeq(o.open) /\ Follows(o.open, fr) /\ PlacesRight(o.place, fs, fetched) /\ MadeRight(o.made, ns)
      /\ Len(o.open) \in Nat \ {0} /\ Len(fr) \in Nat /\ Len(fs) = Len(fr) + 1 - Len(o.open) /\ Len(fs) > 0
      /\ o.open[Len(o.open)] = fr[Len(fr)].parent
      /\ Len(o.made) = Len(ns) /\ Len(o.place) = Len(fs)
  <2>1. Len(fr) > 0 BY SeqIs
  <2>2. QED BY <2>1, AgreesFacts
<1> DEFINE less == SubSeq(o.open, 1, Len(o.open) - 1)
<1>1. Len(fr) \in Nat /\ Len(fr) > 0 BY SeqIs
<1>2. /\ Replayed(o, l).open = less
      /\ Replayed(o, l).place = Here(o.place)
      /\ Replayed(o, l).made = o.made
  BY DEF Replayed, Here, Starts
<1>3. Follows(less, gr)
  <2>1. IF fr[Len(fr)].end = None THEN Follows(o.open, gr)
        ELSE Len(o.open) > 1 /\ Follows(SubSeq(o.open, 1, Len(o.open) - 1), gr)
    BY <1>0, FollowsReturn DEF Returned
  <2>2. QED BY <2>1
<1>4. IsSeq(less) /\ Len(less) = Len(o.open) - 1 BY <1>1, <1>0, Shortened
<1> HIDE DEF less
<1>5. Len(fs) = Len(gr) + 1 - Len(less) BY <1>1, <1>4, <1>0 DEF Returned
<1>6. PlacesRight(Here(o.place), FetchedAs(fs, fetched, 0), FALSE) /\ Len(FetchedAs(fs, fetched, 0)) = Len(fs)
  <2>1. PlacesRight(o.place, fs, fetched) /\ Len(fs) > 0 BY <1>0
  <2>2. QED BY <2>1, PlaceLine
<1>7. QED BY <1>0, <1>2, <1>3, <1>4, <1>5, <1>6 DEF Agrees

\* The end of a file, and the next file of its source line.
LEMMA AgreesEnd ==
    ASSUME NEW o, NEW ns, NEW fr, NEW fs, NEW fetched, Agrees(o, ns, fr, fs, fetched), IsSeq(fr), Len(fr) > 1,
           fr[Len(fr)].end = None,
           NEW l, l.t = "eof", l.more = <<>>,
           NEW gr, Returned(gr, fr)
    PROVE  Agrees(Replayed(o, l), ns, gr, SubSeq(fs, 1, Len(fs) - 1), FALSE)
<1>0. /\ IsSeq(o.open) /\ Follows(o.open, fr) /\ PlacesRight(o.place, fs, fetched) /\ MadeRight(o.made, ns)
      /\ Len(o.open) \in Nat \ {0} /\ Len(fr) \in Nat /\ Len(fs) = Len(fr) + 1 - Len(o.open) /\ Len(fs) > 0
      /\ o.open[Len(o.open)] = fr[Len(fr)].parent
      /\ Len(o.made) = Len(ns) /\ Len(o.place) = Len(fs)
  <2>1. Len(fr) > 0 BY SeqIs
  <2>2. QED BY <2>1, AgreesFacts
<1> DEFINE outer == SubSeq(fs, 1, Len(fs) - 1)
           above == SubSeq(o.place, 1, Len(o.place) - 1)
<1>1. Len(fr) \in Nat /\ Len(fr) > 0 BY SeqIs
<1>2. /\ Replayed(o, l).open = o.open
      /\ Replayed(o, l).place = above
      /\ Replayed(o, l).made = o.made
  BY DEF Replayed, Starts
<1>3. Follows(o.open, gr) BY <1>1, <1>0, FollowsReturn DEF Returned
<1>4. PlacesRight(above, outer, FALSE) /\ Len(outer) = Len(fs) - 1 BY <1>1, <1>0, PlaceEnd
<1> HIDE DEF outer, above
<1>5. Len(outer) = Len(gr) + 1 - Len(o.open) BY <1>1, <1>4, <1>0 DEF Returned
<1>6. QED BY <1>1, <1>2, <1>3, <1>4, <1>5, <1>0 DEF Agrees, outer

\* The end of a file that is followed by the next one of its source line.
LEMMA AgreesNext ==
    ASSUME NEW o, NEW ns, NEW fr, NEW fs, NEW fetched, Agrees(o, ns, fr, fs, fetched), IsSeq(fr), Len(fr) > 0,
           NEW l, l.t = "eof", l.more # <<>>,
           NEW file, DOMAIN file = {"name", "line"}, file.line = 0
    PROVE  Agrees(Replayed(o, l), ns, fr, Append(SubSeq(fs, 1, Len(fs) - 1), file), FALSE)
<1>0. /\ IsSeq(o.open) /\ Follows(o.open, fr) /\ PlacesRight(o.place, fs, fetched) /\ MadeRight(o.made, ns)
      /\ Len(o.open) \in Nat \ {0} /\ Len(fr) \in Nat /\ Len(fs) = Len(fr) + 1 - Len(o.open) /\ Len(fs) > 0
      /\ o.open[Len(o.open)] = fr[Len(fr)].parent
      /\ Len(o.made) = Len(ns) /\ Len(o.place) = Len(fs)
  BY AgreesFacts
<1> DEFINE gs == Append(SubSeq(fs, 1, Len(fs) - 1), file)
           after == [o.place EXCEPT ![Len(o.place)] = 0]
<1>1. /\ Replayed(o, l).open = o.open
      /\ Replayed(o, l).place = after
      /\ Replayed(o, l).made = o.made
  BY DEF Replayed, Starts
<1>2. PlacesRight(after, gs, FALSE) /\ Len(gs) = Len(fs)
  <2>1. PlacesRight(o.place, fs, fetched) /\ Len(fs) > 0 BY <1>0
  <2>2. QED BY <2>1, PlaceNext
<1> HIDE DEF gs, after
<1>3. QED BY <1>1, <1>2, <1>0 DEF Agrees, gs

----------------------------------------------------------------------------
\* Nodes and calls of which some fields changed.
NodesAlike(ms, ns) ==
    /\ IsSeq(ms) /\ Len(ms) = Len(ns) /\ DOMAIN ms = DOMAIN ns
    /\ \A n \in DOMAIN ns : /\ DOMAIN ms[n] = NodeFields
                            /\ ms[n].item = ns[n].item
                            /\ ms[n].parent = ns[n].parent
                            /\ ms[n].at = ns[n].at

FrameFields == {"end", "parent", "prev", "rest"}

FramesAlike(gr, fr) ==
    /\ IsSeq(gr) /\ Len(gr) = Len(fr) /\ DOMAIN gr = DOMAIN fr
    /\ \A k \in DOMAIN fr : /\ DOMAIN gr[k] = FrameFields
                            /\ gr[k].end = fr[k].end
                            /\ gr[k].parent = fr[k].parent

\* next of one node set.
LEMMA NextSet ==
    ASSUME NEW ns, IsSeq(ns), \A n \in DOMAIN ns : DOMAIN ns[n] = NodeFields,
           NEW q \in DOMAIN ns, NEW v
    PROVE  LET ms == [ns EXCEPT ![q].next = v]
           IN /\ NodesAlike(ms, ns)
              /\ \A n \in DOMAIN ns : /\ ms[n].next = IF n = q THEN v ELSE ns[n].next
                                      /\ ms[n].list = ns[n].list
<1> DEFINE node == [ns[q] EXCEPT !.next = v]
           ms == [ns EXCEPT ![q] = node]
<1>1. DOMAIN ns[q] = NodeFields OBVIOUS
<1>2. /\ DOMAIN node = NodeFields
      /\ node.next = v /\ node.list = ns[q].list
      /\ node.item = ns[q].item /\ node.parent = ns[q].parent /\ node.at = ns[q].at
  BY <1>1 DEF NodeFields
<1> HIDE DEF node
<1>3. /\ IsSeq(ms) /\ Len(ms) = Len(ns) /\ DOMAIN ms = DOMAIN ns
      /\ ms[q] = node /\ \A n \in DOMAIN ns \ {q} : ms[n] = ns[n]
  BY Changed
<1> HIDE DEF ms
<1>4. ASSUME NEW n \in DOMAIN ns
      PROVE  /\ DOMAIN ms[n] = NodeFields /\ ms[n].item = ns[n].item
             /\ ms[n].parent = ns[n].parent /\ ms[n].at = ns[n].at
             /\ ms[n].next = (IF n = q THEN v ELSE ns[n].next)
             /\ ms[n].list = ns[n].list
  <2>1. CASE n = q BY <2>1, <1>2, <1>3
  <2>2. CASE n # q BY <2>2, <1>3
  <2>3. QED BY <2>1, <2>2
<1>5. NodesAlike(ms, ns) BY <1>3, <1>4 DEF NodesAlike
<1>6. QED BY <1>4, <1>5 DEF ms, node

\* list of one node set.
LEMMA ListSet ==
    ASSUME NEW ns, IsSeq(ns), \A n \in DOMAIN ns : DOMAIN ns[n] = NodeFields,
           NEW q \in DOMAIN ns, NEW v
    PROVE  LET ms == [ns EXCEPT ![q].list = v]
           IN /\ NodesAlike(ms, ns)
              /\ \A n \in DOMAIN ns : /\ ms[n].list = IF n = q THEN v ELSE ns[n].list
                                      /\ ms[n].next = ns[n].next
<1> DEFINE node == [ns[q] EXCEPT !.list = v]
           ms == [ns EXCEPT ![q] = node]
<1>1. DOMAIN ns[q] = NodeFields OBVIOUS
<1>2. /\ DOMAIN node = NodeFields
      /\ node.list = v /\ node.next = ns[q].next
      /\ node.item = ns[q].item /\ node.parent = ns[q].parent /\ node.at = ns[q].at
  BY <1>1 DEF NodeFields
<1> HIDE DEF node
<1>3. /\ IsSeq(ms) /\ Len(ms) = Len(ns) /\ DOMAIN ms = DOMAIN ns
      /\ ms[q] = node /\ \A n \in DOMAIN ns \ {q} : ms[n] = ns[n]
  BY Changed
<1> HIDE DEF ms
<1>4. ASSUME NEW n \in DOMAIN ns
      PROVE  /\ DOMAIN ms[n] = NodeFields /\ ms[n].item = ns[n].item
             /\ ms[n].parent = ns[n].parent /\ ms[n].at = ns[n].at
             /\ ms[n].list = (IF n = q THEN v ELSE ns[n].list)
             /\ ms[n].next = ns[n].next
  <2>1. CASE n = q BY <2>1, <1>2, <1>3
  <2>2. CASE n # q BY <2>2, <1>3
  <2>3. QED BY <2>1, <2>2
<1>5. NodesAlike(ms, ns) BY <1>3, <1>4 DEF NodesAlike
<1>6. QED BY <1>4, <1>5 DEF ms, node

\* prev of one call set.
LEMMA PrevSet ==
    ASSUME NEW fr, IsSeq(fr), \A k \in DOMAIN fr : DOMAIN fr[k] = FrameFields,
           NEW q \in DOMAIN fr, NEW v
    PROVE  LET gr == [fr EXCEPT ![q].prev = v]
           IN /\ FramesAlike(gr, fr)
              /\ \A k \in DOMAIN fr : gr[k].prev = IF k = q THEN v ELSE fr[k].prev
<1> DEFINE f == [fr[q] EXCEPT !.prev = v]
           gr == [fr EXCEPT ![q] = f]
<1>1. DOMAIN fr[q] = FrameFields OBVIOUS
<1>2. DOMAIN f = FrameFields /\ f.prev = v /\ f.end = fr[q].end /\ f.parent = fr[q].parent
  BY <1>1 DEF FrameFields
<1> HIDE DEF f
<1>3. /\ IsSeq(gr) /\ Len(gr) = Len(fr) /\ DOMAIN gr = DOMAIN fr
      /\ gr[q] = f /\ \A k \in DOMAIN fr \ {q} : gr[k] = fr[k]
  BY Changed
<1> HIDE DEF gr
<1>4. ASSUME NEW k \in DOMAIN fr
      PROVE  /\ DOMAIN gr[k] = FrameFields /\ gr[k].end = fr[k].end /\ gr[k].parent = fr[k].parent
             /\ gr[k].prev = (IF k = q THEN v ELSE fr[k].prev)
  <2>1. CASE k = q BY <2>1, <1>2, <1>3
  <2>2. CASE k # q BY <2>2, <1>3
  <2>3. QED BY <2>1, <2>2
<1>5. FramesAlike(gr, fr) BY <1>3, <1>4 DEF FramesAlike
<1>6. QED BY <1>4, <1>5 DEF gr, f

\* The files that are left of one source line set.
LEMMA RestSet ==
    ASSUME NEW fr, IsSeq(fr), \A k \in DOMAIN fr : DOMAIN fr[k] = FrameFields,
           NEW q \in DOMAIN fr, NEW v
    PROVE  LET gr == [fr EXCEPT ![q].rest = v]
           IN FramesAlike(gr, fr) /\ \A k \in DOMAIN fr : gr[k].prev = fr[k].prev
<1> DEFINE f == [fr[q] EXCEPT !.rest = v]
           gr == [fr EXCEPT ![q] = f]
<1>1. DOMAIN fr[q] = FrameFields OBVIOUS
<1>2. DOMAIN f = FrameFields /\ f.prev = fr[q].prev /\ f.end = fr[q].end /\ f.parent = fr[q].parent
  BY <1>1 DEF FrameFields
<1> HIDE DEF f
<1>3. /\ IsSeq(gr) /\ Len(gr) = Len(fr) /\ DOMAIN gr = DOMAIN fr
      /\ gr[q] = f /\ \A k \in DOMAIN fr \ {q} : gr[k] = fr[k]
  BY Changed
<1> HIDE DEF gr
<1>4. ASSUME NEW k \in DOMAIN fr
      PROVE  /\ DOMAIN gr[k] = FrameFields /\ gr[k].end = fr[k].end /\ gr[k].parent = fr[k].parent
             /\ gr[k].prev = fr[k].prev
  <2>1. CASE k = q BY <2>1, <1>2, <1>3
  <2>2. CASE k # q BY <2>2, <1>3
  <2>3. QED BY <2>1, <2>2
<1>5. FramesAlike(gr, fr) BY <1>3, <1>4 DEF FramesAlike
<1>6. QED BY <1>4, <1>5 DEF gr, f

\* What a tree has, in one place.
LEMMA InTreeFacts ==
    ASSUME NEW ns, NEW fr, NEW p, InTree(ns, fr, p)
    PROVE  /\ IsSeq(ns) /\ Len(ns) \in Nat \ {0} /\ DOMAIN ns = 1..Len(ns)
           /\ \A n \in DOMAIN ns : DOMAIN ns[n] = NodeFields
           /\ IsSeq(fr) /\ Len(fr) \in Nat \ {0} /\ DOMAIN fr = 1..Len(fr) /\ Len(fr) \in DOMAIN fr
           /\ \A k \in DOMAIN fr : DOMAIN fr[k] = FrameFields /\ fr[k].parent \in DOMAIN ns
           /\ fr[1].end = None
           /\ fr[Len(fr)].prev \in DOMAIN ns
           /\ p # 0 => p \in DOMAIN ns
<1>1. NodesRight(ns) /\ FramesRight(ns, fr) /\ ListsOpen(ns, fr, p) /\ NextRight(ns, fr, p) BY DEF InTree
<1>2. /\ Len(ns) \in Nat \ {0} /\ DOMAIN ns = 1..Len(ns)
      /\ Len(fr) \in Nat \ {0} /\ DOMAIN fr = 1..Len(fr) /\ Len(fr) \in DOMAIN fr
  BY <1>1, TreeFacts
<1>3. \A k \in DOMAIN fr : DOMAIN fr[k] = FrameFields /\ fr[k].parent \in DOMAIN ns
  BY <1>1 DEF FramesRight, FrameFields
<1>4. fr[Len(fr)].prev \in DOMAIN ns
  <2>1. Adds(fr, Len(fr)) BY DEF Adds
  <2>2. fr[Len(fr)].prev \in Below(ns, Listed(ns, fr, p), fr[Len(fr)].parent) \cup {fr[Len(fr)].parent}
    BY <2>1, <1>1, <1>2 DEF ListsOpen
  <2>3. QED BY <2>2, <1>2, <1>3 DEF Below, Listed
<1>5. p # 0 => p \in DOMAIN ns BY <1>1 DEF NextRight
<1>6. QED BY <1>1, <1>2, <1>3, <1>4, <1>5 DEF NodesRight, FramesRight

\* prev.next = prev = p.
LEMMA LinkedIs ==
    ASSUME NEW b, DOMAIN b = {"nodes", "frames"}, NEW p, InTree(b.nodes, b.frames, p), p # 0
    PROVE  LET c == Linked(b, p)
           IN /\ DOMAIN c = {"nodes", "frames"}
              /\ InTree(c.nodes, c.frames, 0)
              /\ NodesAlike(c.nodes, b.nodes)
              /\ FramesAlike(c.frames, b.frames)
              /\ c.nodes[p].item = b.nodes[p].item
<1> DEFINE ns == b.nodes
           fr == b.frames
           c == Linked(b, p)
           ms == [ns EXCEPT ![fr[Len(fr)].prev].next = p]
           gr == [fr EXCEPT ![Len(fr)].prev = p]
<1>1. c.nodes = ms /\ c.frames = gr /\ DOMAIN c = {"nodes", "frames"} BY DEF Linked
<1> HIDE DEF c, ns, fr
<1>2. InTree(ns, fr, p) BY DEF ns, fr
<1>3. /\ NodesAlike(ms, ns)
      /\ \A n \in DOMAIN ns : /\ ms[n].next = IF n = fr[Len(fr)].prev THEN p ELSE ns[n].next
                              /\ ms[n].list = ns[n].list
  <2>1. IsSeq(ns) /\ (\A n \in DOMAIN ns : DOMAIN ns[n] = NodeFields) /\ fr[Len(fr)].prev \in DOMAIN ns
    BY <1>2, InTreeFacts
  <2>2. QED BY <2>1, NextSet
<1>4. FramesAlike(gr, fr) /\ \A k \in DOMAIN fr : gr[k].prev = IF k = Len(fr) THEN p ELSE fr[k].prev
  <2>1. IsSeq(fr) /\ (\A k \in DOMAIN fr : DOMAIN fr[k] = FrameFields) /\ Len(fr) \in DOMAIN fr
    BY <1>2, InTreeFacts
  <2>2. QED BY <2>1, PrevSet
<1> HIDE DEF ms, gr
<1>5. InTree(ms, gr, 0)
  BY <1>2, <1>3, <1>4, NodeIsLinked DEF NodesAlike, FramesAlike, FrameFields
<1>6. ms[p].item = ns[p].item BY <1>2, <1>3, InTreeFacts DEF NodesAlike
<1>7. QED BY <1>1, <1>3, <1>4, <1>5, <1>6 DEF c, ns, fr

\* What _parse_props() leaves when it returns.
SettledAs(ns, fr, p) ==
    LET b == [nodes |-> ns, frames |-> fr]
    IN IF p = 0 THEN b
       ELSE IF ns[p].item[1] \in {"menu", "choice"}
            THEN Pushed(b, Frame(EndOf[ns[p].item[1]], p, p, <<>>))
       ELSE Linked(b, p)

\* A block that begins has a token that ends it.
LEMMA EndsAreTokens ==
    ASSUME NEW k \in {"menu", "choice", "if"}
    PROVE  EndOf[k] # None
BY LinesAreLines DEF EndOf

\* _parse_props() returns: a block begins, or the node is linked.
LEMMA SettledIs ==
    ASSUME NEW ns, NEW fr, NEW p, InTree(ns, fr, p), p # 0 => p = Len(ns)
    PROVE  LET b == SettledAs(ns, fr, p)
           IN /\ DOMAIN b = {"nodes", "frames"}
              /\ InTree(b.nodes, b.frames, 0)
              /\ NodesAlike(b.nodes, ns)
              /\ IF p # 0 /\ ns[p].item[1] \in {"menu", "choice"}
                 THEN \E f : f.end # None /\ f.parent = p /\ b.frames = Append(fr, f)
                 ELSE FramesAlike(b.frames, fr)
<1> DEFINE b == SettledAs(ns, fr, p)
           a == [nodes |-> ns, frames |-> fr]
<1>1. NodesAlike(ns, ns) /\ FramesAlike(fr, fr) BY InTreeFacts DEF NodesAlike, FramesAlike
<1>2. CASE p = 0
  <2>1. b = a BY <1>2 DEF SettledAs
  <2>2. DOMAIN a = {"nodes", "frames"} /\ a.nodes = ns /\ a.frames = fr OBVIOUS
  <2> HIDE DEF b, a
  <2>3. QED BY <2>1, <2>2, <1>1, <1>2 DEF b
<1>3. CASE p # 0 /\ ns[p].item[1] \in {"menu", "choice"}
  <2> DEFINE f == Frame(EndOf[ns[p].item[1]], p, p, <<>>)
  <2>1. b.nodes = ns /\ b.frames = Append(fr, f) /\ DOMAIN b = {"nodes", "frames"}
    BY <1>3 DEF SettledAs, Pushed
  <2>2. DOMAIN f = {"end", "parent", "prev", "rest"} /\ f.end = EndOf[ns[p].item[1]] /\ f.parent = p /\ f.prev = p
    BY DEF Frame
  <2>3. f.end # None BY <2>2, <1>3, EndsAreTokens
  <2> HIDE DEF b, a, f
  <2>4. Below(ns, DOMAIN ns, p) = {}
    <3>1. NodesRight(ns) BY DEF InTree
    <3>2. \A n \in DOMAIN ns : ns[n].parent \in Nat /\ ns[n].parent < n /\ n \in Nat /\ n <= Len(ns)
      BY <3>1, TreeFacts, SeqIs DEF InTree
    <3>3. p \in Nat BY <1>3, InTreeFacts
    <3>4. QED BY <3>2, <3>3, <1>3 DEF Below
  <2>5. InTree(ns, Append(fr, f), 0) BY <2>2, <2>3, <2>4, <1>3, BlockBegins
  <2>6. QED BY <2>1, <2>2, <2>3, <2>5, <1>1, <1>3 DEF b
<1>4. CASE p # 0 /\ ns[p].item[1] \notin {"menu", "choice"}
  <2>1. b = Linked(a, p) BY <1>4 DEF SettledAs
  <2>2. DOMAIN a = {"nodes", "frames"} /\ a.nodes = ns /\ a.frames = fr OBVIOUS
  <2> HIDE DEF b, a
  <2>3. QED BY <2>1, <2>2, <1>4, LinkedIs DEF b
<1>5. QED BY <1>2, <1>3, <1>4

\* The end of the innermost block, in one place.
LEMMA ClosedIs ==
    ASSUME NEW b, DOMAIN b = {"nodes", "frames"}, InTree(b.nodes, b.frames, 0),
           Len(b.frames) > 1, b.frames[Len(b.frames)].end # None
    PROVE  LET c == Closed(b)
           IN /\ InTree(c.nodes, c.frames, 0)
              /\ NodesAlike(c.nodes, b.nodes)
              /\ Returned(c.frames, b.frames)
<1> DEFINE ns == b.nodes
           fr == b.frames
           P == fr[Len(fr)].parent
           q == fr[Len(fr)].prev
           ks == [ns EXCEPT ![q].next = 0]
           ms == [ks EXCEPT ![P].list = ks[P].next]
           gr == SubSeq(fr, 1, Len(fr) - 1)
           mid == [nodes |-> ms, frames |-> gr]
<1>1. Closed(b) = Linked(mid, P)
  <2>1. [b EXCEPT !.nodes[q].next = 0] = [nodes |-> ks, frames |-> fr] OBVIOUS
  <2>2. [[nodes |-> ks, frames |-> fr] EXCEPT !.nodes[P].list = ks[P].next] = [nodes |-> ms, frames |-> fr] OBVIOUS
  <2>3. Popped([nodes |-> ms, frames |-> fr]) = mid
    <3> HIDE DEF ms, fr, gr
    <3> DEFINE a == [nodes |-> ms, frames |-> fr]
    <3>1. a.frames = fr /\ a.nodes = ms /\ DOMAIN a = {"nodes", "frames"} OBVIOUS
    <3>2. [a EXCEPT !.frames = gr] = mid OBVIOUS
    <3>3. Popped(a) = [a EXCEPT !.frames = SubSeq(a.frames, 1, Len(a.frames) - 1)] BY DEF Popped
    <3> HIDE DEF a, mid
    <3>4. Popped(a) = mid BY <3>1, <3>2, <3>3 DEF gr
    <3>5. QED BY <3>4 DEF a
  <2>4. [nodes |-> ks, frames |-> fr].nodes = ks OBVIOUS
  <2>5. Closed(b) = Linked(Popped([[b EXCEPT !.nodes[q].next = 0] EXCEPT !.nodes[P].list =
                                     [b EXCEPT !.nodes[q].next = 0].nodes[P].next]), P)
    BY DEF Closed
  <2> HIDE DEF ks, ms, mid
  <2>6. QED BY <2>1, <2>2, <2>3, <2>4, <2>5
<1>2. mid.nodes = ms /\ mid.frames = gr /\ DOMAIN mid = {"nodes", "frames"} OBVIOUS
<1> HIDE DEF mid, ms, ks, gr, ns, fr, P, q
<1>3. InTree(ns, fr, 0) /\ Len(fr) > 1 /\ fr[Len(fr)].end # None BY DEF ns, fr
<1>4. /\ IsSeq(ns) /\ DOMAIN ns = 1..Len(ns) /\ Len(ns) \in Nat /\ (\A n \in DOMAIN ns : DOMAIN ns[n] = NodeFields)
      /\ IsSeq(fr) /\ Len(fr) \in Nat /\ DOMAIN fr = 1..Len(fr) /\ Len(fr) \in DOMAIN fr
      /\ P \in DOMAIN ns /\ q \in DOMAIN ns
      /\ \A k \in DOMAIN fr : DOMAIN fr[k] = FrameFields
  BY <1>3, InTreeFacts DEF P, q
<1>5. /\ NodesAlike(ks, ns)
      /\ \A n \in DOMAIN ns : ks[n].next = (IF n = q THEN 0 ELSE ns[n].next) /\ ks[n].list = ns[n].list
  <2>1. IsSeq(ns) /\ q \in DOMAIN ns /\ \A n \in DOMAIN ns : DOMAIN ns[n] = NodeFields BY <1>4
  <2>2. QED BY <2>1, NextSet DEF ks
<1>6. /\ NodesAlike(ms, ks)
      /\ \A n \in DOMAIN ks : ms[n].list = (IF n = P THEN ks[P].next ELSE ks[n].list) /\ ms[n].next = ks[n].next
  <2>1. IsSeq(ks) /\ P \in DOMAIN ks /\ \A n \in DOMAIN ks : DOMAIN ks[n] = NodeFields
    BY <1>4, <1>5 DEF NodesAlike
  <2>2. QED BY <2>1, ListSet DEF ms
<1>7. NodesAlike(ms, ns) BY <1>5, <1>6 DEF NodesAlike
<1>8. \A n \in DOMAIN ns :
        /\ ms[n].next = IF n = q THEN 0 ELSE ns[n].next
        /\ ms[n].list = IF n # P THEN ns[n].list ELSE IF n = q THEN 0 ELSE ns[n].next
  BY <1>4, <1>5, <1>6 DEF NodesAlike
<1>9. IsSeq(gr) /\ Len(gr) = Len(fr) - 1 /\ DOMAIN gr = 1..(Len(fr) - 1) /\ \A k \in 1..(Len(fr) - 1) : gr[k] = fr[k]
  BY <1>3, <1>4, Shortened DEF gr
<1>10. InTree(ms, gr, P)
  <2>1. IsSeq(ms) /\ Len(ms) = Len(ns)
        /\ \A n \in DOMAIN ns : DOMAIN ms[n] = NodeFields /\ ms[n].parent = ns[n].parent
    BY <1>7 DEF NodesAlike
  <2>2. \A k \in DOMAIN gr : gr[k] = fr[k] BY <1>9
  <2>3. \A n \in DOMAIN ns :
          /\ DOMAIN ms[n] = NodeFields
          /\ ms[n].parent = ns[n].parent
          /\ ms[n].next = IF n = fr[Len(fr)].prev THEN 0 ELSE ns[n].next
          /\ ms[n].list = IF n # fr[Len(fr)].parent THEN ns[n].list
                          ELSE IF n = fr[Len(fr)].prev THEN 0 ELSE ns[n].next
    BY <1>8, <2>1 DEF P, q
  <2>4. IsSeq(gr) /\ Len(gr) = Len(fr) - 1 BY <1>9
  <2>5. InTree(ms, gr, fr[Len(fr)].parent) BY <1>3, <2>1, <2>2, <2>3, <2>4, BlockEnds
  <2>6. QED BY <2>5 DEF P
<1>11. P # 0 BY <1>4
<1> DEFINE c == Linked(mid, P)
<1>12. /\ InTree(c.nodes, c.frames, 0) /\ NodesAlike(c.nodes, ms) /\ FramesAlike(c.frames, gr)
  BY <1>2, <1>10, <1>11, LinkedIs
<1> HIDE DEF c
<1>13. NodesAlike(c.nodes, ns) BY <1>7, <1>12 DEF NodesAlike
<1>14. Returned(c.frames, fr) BY <1>9, <1>12 DEF FramesAlike, Returned
<1>15. QED BY <1>1, <1>12, <1>13, <1>14 DEF c, ns, fr

----------------------------------------------------------------------------
LineRead(l) ==
    /\ files' = PlaceAfter(l)
    /\ peeked' = (l.t = "help")
    /\ read' = Append(read, l)
    /\ UNCHANGED vocabulary

\* What a step does to the parser's knowledge: it fails, or keeps it right.
Kept == phase' = "error" \/ (phase' = phase /\ Parsing')

\* Settled, and the place of a line, as operators of the state.
LEMMA SettledNow ==
    /\ Settled = SettledAs(nodes, frames, pending)
    /\ Settled' = SettledAs(nodes', frames', pending')
    /\ \A texts : Fetched(texts) = FetchedAs(files, peeked, texts)
BY DEF Settled, SettledAs, Kind, Fetched, FetchedAs

\* The tree is right once _parse_props() has returned.
LEMMA Settles ==
    ASSUME Parsing
    PROVE  /\ DOMAIN Settled = {"nodes", "frames"}
           /\ InTree(Settled.nodes, Settled.frames, 0)
           /\ NodesAlike(Settled.nodes, nodes)
           /\ Agrees(Replay(read), Settled.nodes, Settled.frames, files, peeked)
<1>1. InTree(nodes, frames, pending) /\ (pending # 0 => pending = Len(nodes)) BY DEF Parsing
<1>2. /\ DOMAIN Settled = {"nodes", "frames"}
      /\ InTree(Settled.nodes, Settled.frames, 0)
      /\ NodesAlike(Settled.nodes, nodes)
  BY <1>1, SettledIs, SettledNow
<1>3. Agrees(Replay(read), nodes, Settled.frames, files, peeked) BY DEF Parsing
<1>4. IsSeq(nodes) BY <1>1, InTreeFacts
<1>5. IsSeq(Settled.frames) /\ \A k \in DOMAIN Settled.frames : TRUE BY <1>2, InTreeFacts
<1>6. Agrees(Replay(read), Settled.nodes, Settled.frames, files, peeked)
  BY <1>2, <1>3, <1>4, <1>5, StillAgrees DEF NodesAlike
<1>7. QED BY <1>2, <1>6

\* A step that leaves no node in _parse_props().
LEMMA NothingPending ==
    ASSUME Parsing, NEW l, read' = Append(read, l), vocabulary' = vocabulary, pending' = 0,
           InTree(nodes', frames', 0),
           Agrees(Replayed(Replay(read), l), nodes', frames', files', peeked')
    PROVE  Parsing'
<1>1. IsSeq(read) /\ vocabulary \in Vocabularies BY DEF Parsing
<1>2. IsSeq(read') BY <1>1, Appended
<1>3. Replay(read') = Replayed(Replay(read), l) BY <1>1, ReplayLine
<1>4. (Settled').frames = frames'
  <2>1. Settled' = [nodes |-> nodes', frames |-> frames'] BY SettledNow DEF SettledAs
  <2>2. QED BY <2>1
<1>5. QED BY <1>1, <1>2, <1>3, <1>4 DEF Parsing

\* A line after which the same node is in _parse_props(), with properties that
\* the tree does not depend on.
LEMMA StillPending ==
    ASSUME Parsing, NEW l, LineRead(l), phase' = phase,
           NodesAlike(nodes', nodes),
           \A n \in DOMAIN nodes : nodes'[n].next = nodes[n].next /\ nodes'[n].list = nodes[n].list,
           frames' = frames, pending' = pending,
           l.t \notin Starts \cup {"if", "endif", "endmenu", "endchoice", "eof", "source"},
           l.t = "help" => l.texts \in Nat
    PROVE  Parsing'
<1> DEFINE o == Replay(read)
           fr == Settled.frames
<1>1. /\ InTree(nodes, frames, pending) /\ (pending # 0 => pending = Len(nodes))
      /\ IsSeq(read) /\ vocabulary \in Vocabularies
      /\ Agrees(o, nodes, fr, files, peeked)
  BY DEF Parsing
<1>2. /\ IsSeq(nodes) /\ IsSeq(frames) /\ (\A k \in DOMAIN frames : DOMAIN frames[k] = {"end", "parent", "prev", "rest"})
      /\ (pending # 0 => pending \in DOMAIN nodes)
  BY <1>1, InTreeFacts DEF FrameFields
<1>3. InTree(nodes', frames', pending')
  BY <1>1, <1>2, SameTree DEF NodesAlike
<1>4. (Settled').frames = fr
  <2>1. pending # 0 => nodes'[pending].item = nodes[pending].item BY <1>2 DEF NodesAlike
  <2>2. SettledAs(nodes', frames, pending).frames = SettledAs(nodes, frames, pending).frames
    BY <2>1 DEF SettledAs, Pushed, Linked
  <2>3. QED BY <2>2, SettledNow
<1>5. IsSeq(fr) /\ Len(fr) > 0
  <2>1. InTree(Settled.nodes, fr, 0) BY Settles
  <2>2. QED BY <2>1, InTreeFacts
<1> HIDE DEF o, fr
<1>6. Agrees(Replayed(o, l), nodes, fr, files', peeked')
  <2>1. CASE l.t = "help"
    <3>1. files' = FetchedAs(files, peeked, l.texts + 1) /\ peeked' = TRUE
      BY <2>1, SettledNow DEF LineRead, PlaceAfter
    <3>2. QED BY <2>1, <3>1, <1>1, <1>5, AgreesHelp
  <2>2. CASE l.t # "help"
    <3>1. files' = FetchedAs(files, peeked, 0) /\ peeked' = FALSE
      BY <2>2, SettledNow DEF LineRead, PlaceAfter
    <3>2. l.t \notin Starts \cup {"if", "endif", "endmenu", "endchoice", "eof", "help"} BY <2>2
    <3>3. QED BY <3>1, <3>2, <1>1, <1>5, AgreesLine
  <2>3. QED BY <2>1, <2>2
<1>7. Agrees(Replayed(o, l), nodes', fr, files', peeked') BY <1>2, <1>5, <1>6, StillAgrees DEF NodesAlike
<1>8. read' = Append(read, l) /\ vocabulary' = vocabulary BY DEF LineRead
<1>9. IsSeq(read') /\ Replay(read') = Replayed(o, l) BY <1>1, <1>8, Appended, ReplayLine DEF o
<1>10. pending' # 0 => pending' = Len(nodes') BY <1>1 DEF NodesAlike
<1>11. QED BY <1>1, <1>3, <1>4, <1>7, <1>8, <1>9, <1>10 DEF Parsing

----------------------------------------------------------------------------
\* The kinds of lines, one by one: blank lines and assignments.
LEMMA BlankKeeps ==
    ASSUME Parsing, NEW l, NEW h, LineRead(l), l.t \in {"blank", "assign"}, Blank(h)
    PROVE  Kept
<1>1. CASE h.ok
  <2>1. phase' = phase /\ nodes' = nodes /\ frames' = frames /\ pending' = pending BY <1>1 DEF Blank
  <2>2. InTree(nodes, frames, pending) BY DEF Parsing
  <2>3. NodesAlike(nodes', nodes) BY <2>1, <2>2, InTreeFacts DEF NodesAlike
  <2>4. l.t \notin Starts \cup {"if", "endif", "endmenu", "endchoice", "eof", "source"} /\ l.t # "help" BY DEF Starts
  <2>5. QED BY <2>1, <2>3, <2>4, StillPending DEF Kept
<1>2. CASE ~h.ok BY <1>2 DEF Blank, Fail, Kept
<1>3. QED BY <1>1, <1>2

\* A property leaves the place of its node.
LEMMA WithPropertyIs ==
    ASSUME NEW l, NEW h, NEW node, DOMAIN node = NodeFields
    PROVE  LET with == WithProperty(l, h, node)
           IN /\ DOMAIN with = NodeFields
              /\ with.item = node.item /\ with.parent = node.parent /\ with.at = node.at
              /\ with.next = node.next /\ with.list = node.list
<1> DEFINE Same(with) == /\ DOMAIN with = NodeFields
                         /\ with.item = node.item /\ with.parent = node.parent /\ with.at = node.at
                         /\ with.next = node.next /\ with.list = node.list
<1>1. Same(node) OBVIOUS
<1>2. \A v : /\ Same([node EXCEPT !.prompt = v])
             /\ Same([node EXCEPT !.dep = v])
             /\ Same([node EXCEPT !.visibility = v])
             /\ Same([node EXCEPT !.defaults = v])
             /\ Same([node EXCEPT !.selects = v])
             /\ Same([node EXCEPT !.implies = v])
             /\ Same([node EXCEPT !.ranges = v])
  BY DEF NodeFields
<1> HIDE DEF Same
<1> SUFFICES Same(WithProperty(l, h, node)) BY DEF Same
<1>3. CASE l.t \in {"type", "prompt"} BY <1>1, <1>2, <1>3 DEF WithProperty
<1>4. CASE l.t = "depends" BY <1>2, <1>4 DEF WithProperty
<1>5. CASE l.t = "visible" BY <1>2, <1>5 DEF WithProperty
<1>6. CASE l.t \in {"default", "string", "env"} BY <1>2, <1>6 DEF WithProperty
<1>7. CASE l.t = "select" BY <1>2, <1>7 DEF WithProperty
<1>8. CASE l.t = "imply" BY <1>2, <1>8 DEF WithProperty
<1>9. CASE l.t = "range" BY <1>2, <1>9 DEF WithProperty
<1>10. CASE l.t \notin {"type", "prompt", "depends", "visible", "default", "string", "env", "select", "imply", "range"}
  BY <1>1, <1>10 DEF WithProperty
<1>11. QED BY <1>3, <1>4, <1>5, <1>6, <1>7, <1>8, <1>9, <1>10

\* A property of the node in _parse_props().
LEMMA PropertyKeeps ==
    ASSUME Parsing, NEW l, NEW h, LineRead(l), pending # 0, l.t \in Properties, Property(l, h),
           l.t = "help" => l.texts \in Nat
    PROVE  Kept
<1>1. CASE Proper(l, h, pending)
  <2> DEFINE with == WithProperty(l, h, nodes[pending])
  <2>1. /\ phase' = phase /\ frames' = frames /\ pending' = pending
        /\ nodes' = [nodes EXCEPT ![pending] = with]
    BY <1>1 DEF Property
  <2>2. /\ IsSeq(nodes) /\ pending \in DOMAIN nodes
        /\ \A n \in DOMAIN nodes : DOMAIN nodes[n] = NodeFields
    BY InTreeFacts DEF Parsing
  <2>3. /\ DOMAIN with = NodeFields
        /\ with.item = nodes[pending].item /\ with.parent = nodes[pending].parent /\ with.at = nodes[pending].at
        /\ with.next = nodes[pending].next /\ with.list = nodes[pending].list
    BY <2>2, WithPropertyIs
  <2> HIDE DEF with
  <2>4. /\ IsSeq(nodes') /\ Len(nodes') = Len(nodes) /\ DOMAIN nodes' = DOMAIN nodes
        /\ nodes'[pending] = with /\ \A n \in DOMAIN nodes \ {pending} : nodes'[n] = nodes[n]
    <3> DEFINE ms == [nodes EXCEPT ![pending] = with]
    <3>1. IsSeq(nodes) /\ pending \in DOMAIN nodes BY <2>2
    <3>2. /\ IsSeq(ms) /\ Len(ms) = Len(nodes) /\ DOMAIN ms = DOMAIN nodes
          /\ ms[pending] = with /\ \A n \in DOMAIN nodes \ {pending} : ms[n] = nodes[n]
      BY <3>1, Changed
    <3>3. nodes' = ms BY <2>1
    <3> HIDE DEF ms
    <3>4. QED BY <3>2, <3>3
  <2>5. ASSUME NEW n \in DOMAIN nodes
        PROVE  /\ DOMAIN nodes'[n] = NodeFields
               /\ nodes'[n].item = nodes[n].item
               /\ nodes'[n].parent = nodes[n].parent
               /\ nodes'[n].at = nodes[n].at
               /\ nodes'[n].next = nodes[n].next
               /\ nodes'[n].list = nodes[n].list
    <3>1. CASE n = pending BY <3>1, <2>3, <2>4
    <3>2. CASE n # pending BY <3>2, <2>2, <2>4
    <3>3. QED BY <3>1, <3>2
  <2>6. NodesAlike(nodes', nodes) BY <2>4, <2>5 DEF NodesAlike
  <2>7. l.t \notin Starts \cup {"if", "endif", "endmenu", "endchoice", "eof", "source"}
    BY DEF Properties, Starts
  <2>8. QED BY <2>1, <2>5, <2>6, <2>7, StillPending DEF Kept
<1>2. CASE ~Proper(l, h, pending) BY <1>2 DEF Property, Fail, Kept
<1>3. QED BY <1>1, <1>2

\* The fields of a node that is made.
LEMMA NodeIs ==
    ASSUME NEW item, NEW parent, NEW prompt
    PROVE  LET node == Node(item, parent, prompt)
           IN /\ DOMAIN node = NodeFields
              /\ node.item = item /\ node.parent = parent /\ node.list = 0
              /\ node.at = FetchedAs(files, peeked, 0)
<1>1. Fetched(0) = FetchedAs(files, peeked, 0) BY SettledNow
<1>2. QED BY <1>1 DEF Node, NodeFields

\* A definition makes a node at the end of the innermost block.
LEMMA DefineKeeps ==
    ASSUME Parsing, NEW l, LineRead(l), l.t \in Starts, Define(l)
    PROVE  Kept
<1> DEFINE b == Settled
           named == l.t \in {"menu", "comment"}
           item == CASE l.t = "config" -> l.sym
                     [] l.t = "choice" -> <<"choice", IF l.name = None THEN ToString(Len(nodes) + 1) ELSE l.name>>
                     [] OTHER -> <<l.t>>
           node == Node(item, b.frames[Len(b.frames)].parent, IF named THEN <<Y>> ELSE <<>>)
           o == Replay(read)
<1>1. CASE l.t = "config" /\ l.sym[1] # "sym" BY <1>1 DEF Define, Fail, Kept
<1>2. CASE ~(l.t = "config" /\ l.sym[1] # "sym")
  <2>1. /\ nodes' = Append(b.nodes, node) /\ frames' = b.frames
        /\ pending' = Len(nodes) + 1 /\ phase' = phase
    BY <1>2 DEF Define
  <2>2. item[1] \in {"menu", "choice"} <=> l.t \in {"if", "menu", "choice"}
    <3>1. CASE l.t = "config" BY <3>1, <1>2
    <3>2. CASE l.t = "choice" BY <3>2
    <3>3. CASE l.t \in {"menu", "comment"} BY <3>3
    <3>4. QED BY <3>1, <3>2, <3>3 DEF Starts
  <2>3. /\ DOMAIN node = NodeFields /\ node.item = item /\ node.parent = b.frames[Len(b.frames)].parent
        /\ node.list = 0 /\ node.at = FetchedAs(files, peeked, 0)
    BY NodeIs
  <2> HIDE DEF node, item, b
  <2>4. /\ InTree(b.nodes, b.frames, 0) /\ NodesAlike(b.nodes, nodes)
        /\ Agrees(o, b.nodes, b.frames, files, peeked)
    BY Settles DEF b
  <2>5. IsSeq(b.nodes) /\ IsSeq(b.frames) /\ Len(b.frames) > 0 /\ Len(b.nodes) = Len(nodes)
    BY <2>4, InTreeFacts DEF NodesAlike
  <2>6. IsSeq(nodes') /\ Len(nodes') = pending' /\ nodes'[pending'] = node
    BY <2>1, <2>5, Appended
  <2>7. InTree(nodes', frames', pending') BY <2>1, <2>3, <2>4, <2>5, NodeIsMade
  <2>8. pending' # 0 BY <2>1, <2>5, SeqIs
  <2> DEFINE gr == (Settled').frames
  <2>9. IF l.t \in {"if", "menu", "choice"}
        THEN \E f : f.end # None /\ f.parent = Len(b.nodes) + 1 /\ gr = Append(b.frames, f)
        ELSE FramesAlike(gr, b.frames)
    <3>1. IF pending' # 0 /\ nodes'[pending'].item[1] \in {"menu", "choice"}
          THEN \E f : f.end # None /\ f.parent = pending' /\ gr = Append(frames', f)
          ELSE FramesAlike(gr, frames')
      BY <2>6, <2>7, SettledIs, SettledNow
    <3> HIDE DEF gr
    <3>2. QED BY <3>1, <2>1, <2>2, <2>3, <2>5, <2>6, <2>8
  <2> HIDE DEF gr, o
  <2>10. files' = FetchedAs(files, peeked, 0) /\ peeked' = FALSE
    BY SettledNow DEF LineRead, PlaceAfter, Starts
  <2>11. Agrees(Replayed(o, l), nodes', gr, files', peeked')
    <3>1. CASE l.t \in {"if", "menu", "choice"}
      <4>1. \E f : f.end # None /\ f.parent = Len(b.nodes) + 1 /\ gr = Append(b.frames, f) BY <2>9, <3>1
      <4>2. QED BY <2>1, <2>3, <2>4, <2>5, <2>10, <3>1, <4>1, AgreesNode
    <3>2. CASE l.t \notin {"if", "menu", "choice"}
      <4>1. Agrees(Replayed(o, l), nodes', b.frames, files', peeked')
        BY <2>1, <2>3, <2>4, <2>5, <2>10, <3>2, AgreesNode
      <4>2. FramesAlike(gr, b.frames) BY <2>9, <3>2
      <4>3. QED BY <2>5, <2>6, <4>1, <4>2, StillAgrees DEF FramesAlike
    <3>3. QED BY <3>1, <3>2
  <2>12. IsSeq(read) /\ vocabulary \in Vocabularies BY DEF Parsing
  <2>13. read' = Append(read, l) /\ vocabulary' = vocabulary BY DEF LineRead
  <2>14. IsSeq(read') /\ Replay(read') = Replayed(o, l) BY <2>12, <2>13, Appended, ReplayLine DEF o
  <2>15. Parsing' BY <2>6, <2>7, <2>11, <2>12, <2>13, <2>14 DEF Parsing, gr
  <2>16. QED BY <2>1, <2>15 DEF Kept
<1>3. QED BY <1>1, <1>2

\* An if makes a node, and its block begins.
LEMMA IfKeeps ==
    ASSUME Parsing, NEW l, NEW h, LineRead(l), l.t = "if", If(h)
    PROVE  Kept
<1> DEFINE b == Settled
           n == Len(nodes) + 1
           new == Node(<<"if">>, b.frames[Len(b.frames)].parent, <<>>)
           node == [new EXCEPT !.dep = h.cond]
           f == Frame("endif", n, n, <<>>)
           o == Replay(read)
<1>1. CASE ~h.ok BY <1>1 DEF If, Fail, Kept
<1>2. CASE h.ok
  <2>1. /\ DOMAIN b = {"nodes", "frames"} /\ InTree(b.nodes, b.frames, 0) /\ NodesAlike(b.nodes, nodes)
        /\ Agrees(o, b.nodes, b.frames, files, peeked)
    BY Settles
  <2>2. phase' = phase /\ pending' = 0 BY <1>2 DEF If
  <2>3. nodes' = Append(b.nodes, node) /\ frames' = Append(b.frames, f)
    <3>1. Take(Pushed([b EXCEPT !.nodes = Append(@, node)], f)) BY <1>2 DEF If
    <3> HIDE DEF b, node, f
    <3>2. QED BY <3>1, <2>1 DEF Take, Pushed
  <2>4. /\ DOMAIN node = NodeFields /\ node.parent = b.frames[Len(b.frames)].parent
        /\ node.list = 0 /\ node.at = FetchedAs(files, peeked, 0)
    <3>1. /\ DOMAIN new = NodeFields /\ new.parent = b.frames[Len(b.frames)].parent
          /\ new.list = 0 /\ new.at = FetchedAs(files, peeked, 0)
      BY NodeIs
    <3> HIDE DEF new, b
    <3>2. QED BY <3>1 DEF NodeFields
  <2>5. /\ DOMAIN f = {"end", "parent", "prev", "rest"} /\ f.end = "endif" /\ f.parent = n /\ f.prev = n
    BY DEF Frame
  <2>6. f.end # None BY <2>5, LinesAreLines
  <2> HIDE DEF node, b, f, o
  <2>7. IsSeq(b.nodes) /\ IsSeq(b.frames) /\ Len(b.frames) > 0 /\ n = Len(b.nodes) + 1 /\ n # 0
    <3>1. IsSeq(b.nodes) /\ IsSeq(b.frames) /\ Len(b.frames) > 0 /\ Len(b.nodes) \in Nat BY <2>1, InTreeFacts
    <3>2. Len(b.nodes) = Len(nodes) BY <2>1 DEF NodesAlike
    <3>3. QED BY <3>1, <3>2
  <2> HIDE DEF n
  <2>8. InTree(nodes', b.frames, n) /\ Below(nodes', DOMAIN nodes', n) = {}
    BY <2>1, <2>3, <2>4, <2>7, NodeIsMade
  <2>9. InTree(nodes', frames', 0) BY <2>3, <2>5, <2>6, <2>7, <2>8, BlockBegins
  <2>10. files' = FetchedAs(files, peeked, 0) /\ peeked' = FALSE
    BY SettledNow DEF LineRead, PlaceAfter
  <2>11. Agrees(Replayed(o, l), nodes', frames', files', peeked')
    <3>1. \E g : g.end # None /\ g.parent = Len(b.nodes) + 1 /\ frames' = Append(b.frames, g)
      BY <2>3, <2>5, <2>6, <2>7
    <3>2. l.t \in Starts \cup {"if"} /\ l.t \in {"if", "menu", "choice"} OBVIOUS
    <3>3. QED BY <2>1, <2>3, <2>4, <2>7, <2>10, <3>1, <3>2, AgreesNode
  <2>12. QED BY <2>2, <2>9, <2>11, NothingPending DEF Kept, LineRead, o
<1>3. QED BY <1>1, <1>2

\* endif, endmenu and endchoice.
LEMMA EndBlockKeeps ==
    ASSUME Parsing, NEW l, LineRead(l), l.t \in {"endif", "endmenu", "endchoice"}, EndBlock(l)
    PROVE  Kept
<1> DEFINE b == Settled
           last == b.frames[Len(b.frames)]
           o == Replay(read)
<1>1. CASE last.end # l.t BY <1>1 DEF EndBlock, Fail, Kept
<1>2. CASE last.end = l.t
  <2>1. /\ DOMAIN b = {"nodes", "frames"} /\ InTree(b.nodes, b.frames, 0)
        /\ Agrees(o, b.nodes, b.frames, files, peeked)
    BY Settles
  <2>2. Take(Closed(b)) /\ pending' = 0 /\ phase' = phase BY <1>2 DEF EndBlock
  <2>3. last.end # None BY <1>2, LinesAreLines
  <2> HIDE DEF b, o
  <2>4. IsSeq(b.nodes) /\ IsSeq(b.frames) /\ Len(b.frames) > 1
    <3>1. IsSeq(b.nodes) /\ IsSeq(b.frames) /\ Len(b.frames) \in Nat \ {0} /\ b.frames[1].end = None
      BY <2>1, InTreeFacts
    <3>2. Len(b.frames) # 1 BY <2>3, <3>1
    <3>3. \A n \in Nat \ {0} : n # 1 => n > 1 OBVIOUS
    <3>4. Len(b.frames) > 1 BY <3>1, <3>2, <3>3
    <3>5. QED BY <3>1, <3>4
  <2>5. nodes' = Closed(b).nodes /\ frames' = Closed(b).frames BY <2>2 DEF Take
  <2>6. /\ InTree(nodes', frames', 0)
        /\ NodesAlike(nodes', b.nodes)
        /\ Returned(frames', b.frames)
    BY <2>1, <2>3, <2>4, <2>5, ClosedIs
  <2>7. files' = FetchedAs(files, peeked, 0) /\ peeked' = FALSE
    BY SettledNow DEF LineRead, PlaceAfter
  <2>8. Agrees(Replayed(o, l), b.nodes, frames', files', peeked')
    <3>1. b.frames[Len(b.frames)].end # None BY <2>3
    <3> DEFINE fr == b.frames
    <3>2. /\ Agrees(o, b.nodes, fr, files, peeked) /\ IsSeq(fr) /\ Len(fr) > 1
          /\ fr[Len(fr)].end # None /\ Returned(frames', fr)
      BY <3>1, <2>1, <2>4, <2>6
    <3> HIDE DEF last, fr
    <3>3. Agrees(Replayed(o, l), b.nodes, frames', FetchedAs(files, peeked, 0), FALSE)
      BY <3>2, AgreesClosed
    <3>4. QED BY <3>3, <2>7
  <2>9. Agrees(Replayed(o, l), nodes', frames', files', peeked')
    BY <2>4, <2>6, <2>8, StillAgrees DEF NodesAlike, Returned
  <2>10. QED BY <2>2, <2>6, <2>9, NothingPending DEF Kept, LineRead, o
<1>3. QED BY <1>1, <1>2

\* source, with and without files that match.
LEMMA SourceKeeps ==
    ASSUME Parsing, NEW l, LineRead(l), l.t = "source", Source(l)
    PROVE  Kept
<1> DEFINE b == Settled
           last == b.frames[Len(b.frames)]
           f == Frame(None, last.parent, last.prev, Tail(l.files))
           file == [name |-> l.files[1], line |-> 0]
           o == Replay(read)
<1>1. /\ DOMAIN b = {"nodes", "frames"} /\ InTree(b.nodes, b.frames, 0)
      /\ Agrees(o, b.nodes, b.frames, files, peeked)
  BY Settles
<1>2. IsSeq(b.nodes) /\ IsSeq(b.frames) /\ Len(b.frames) > 0 BY <1>1, InTreeFacts
<1>3. CASE l.files = <<>> /\ ~l.obligatory
  <2>1. nodes' = b.nodes /\ frames' = b.frames /\ pending' = 0 /\ phase' = phase
    BY <1>3 DEF Source, Take
  <2>2. files' = FetchedAs(files, peeked, 0) /\ peeked' = FALSE
    BY <1>3, SettledNow DEF LineRead, PlaceAfter
  <2> HIDE DEF b, o
  <2>3. l.t \notin Starts \cup {"if", "endif", "endmenu", "endchoice", "eof", "help"} BY DEF Starts
  <2>4. Agrees(Replayed(o, l), nodes', frames', files', peeked')
    BY <1>1, <1>2, <1>3, <2>1, <2>2, <2>3, AgreesLine
  <2>5. QED BY <1>1, <2>1, <2>4, NothingPending DEF Kept, LineRead, o
<1>4. CASE ~(l.files = <<>> /\ ~l.obligatory)
           /\ (l.files = <<>> \/ \E k \in DOMAIN files : files[k].name = l.files[1])
  BY <1>4 DEF Source, Fail, Kept
<1>5. CASE l.files # <<>> /\ ~(\E k \in DOMAIN files : files[k].name = l.files[1])
  <2>1. Take(Pushed(b, f)) /\ pending' = 0 /\ phase' = phase BY <1>5 DEF Source
  <2>2. nodes' = b.nodes /\ frames' = Append(b.frames, f)
    <3> HIDE DEF b, f
    <3>1. QED BY <1>1, <2>1 DEF Take, Pushed
  <2>3. files' = Append(FetchedAs(files, peeked, 0), file) /\ peeked' = FALSE
    BY <1>5, <2>1, SettledNow DEF LineRead, PlaceAfter
  <2>4. DOMAIN file = {"name", "line"} /\ file.line = 0 OBVIOUS
  <2>5. /\ DOMAIN f = {"end", "parent", "prev", "rest"} /\ f.end = None
        /\ f.parent = last.parent /\ f.prev = last.prev
    BY DEF Frame
  <2> HIDE DEF b, f, o, file
  <2>6. InTree(nodes', frames', 0) BY <1>1, <2>2, <2>5, FileBegins
  <2>7. Agrees(Replayed(o, l), nodes', frames', files', peeked')
    BY <1>1, <1>2, <1>5, <2>2, <2>3, <2>4, <2>5, AgreesSource
  <2>8. QED BY <2>1, <2>6, <2>7, NothingPending DEF Kept, LineRead, o
<1>6. QED BY <1>3, <1>4, <1>5

\* mainmenu, and lines that are not allowed.
LEMMA OtherKeeps ==
    ASSUME Parsing, NEW l, LineRead(l), Other(l)
    PROVE  Kept
<1> DEFINE b == Settled
           top == [b.nodes[1] EXCEPT !.prompt = <<Y>>]
           o == Replay(read)
<1>1. CASE l.t # "mainmenu" BY <1>1 DEF Other, Fail, Kept
<1>2. CASE l.t = "mainmenu"
  <2>1. /\ DOMAIN b = {"nodes", "frames"} /\ InTree(b.nodes, b.frames, 0)
        /\ Agrees(o, b.nodes, b.frames, files, peeked)
    BY Settles
  <2>2. Take([b EXCEPT !.nodes[1].prompt = <<Y>>]) /\ pending' = 0 /\ phase' = phase
    BY <1>2 DEF Other
  <2>3. nodes' = [b.nodes EXCEPT ![1] = top] /\ frames' = b.frames
    <3> HIDE DEF b
    <3>1. QED BY <2>1, <2>2 DEF Take
  <2> HIDE DEF b, o
  <2>4. /\ IsSeq(b.nodes) /\ 1 \in DOMAIN b.nodes /\ (\A n \in DOMAIN b.nodes : DOMAIN b.nodes[n] = NodeFields)
        /\ IsSeq(b.frames) /\ Len(b.frames) > 0
        /\ \A k \in DOMAIN b.frames : DOMAIN b.frames[k] = {"end", "parent", "prev", "rest"}
    BY <2>1, InTreeFacts DEF FrameFields
  <2>5. /\ DOMAIN top = NodeFields /\ top.parent = b.nodes[1].parent /\ top.at = b.nodes[1].at
        /\ top.next = b.nodes[1].next /\ top.list = b.nodes[1].list
    <3>1. DOMAIN b.nodes[1] = NodeFields BY <2>4
    <3>2. QED BY <3>1 DEF NodeFields
  <2> HIDE DEF top
  <2>6. /\ IsSeq(nodes') /\ Len(nodes') = Len(b.nodes) /\ DOMAIN nodes' = DOMAIN b.nodes
        /\ nodes'[1] = top /\ \A n \in DOMAIN b.nodes \ {1} : nodes'[n] = b.nodes[n]
    <3> DEFINE ms == [b.nodes EXCEPT ![1] = top]
    <3>1. IsSeq(b.nodes) /\ 1 \in DOMAIN b.nodes BY <2>4
    <3>2. /\ IsSeq(ms) /\ Len(ms) = Len(b.nodes) /\ DOMAIN ms = DOMAIN b.nodes
          /\ ms[1] = top /\ \A n \in DOMAIN b.nodes \ {1} : ms[n] = b.nodes[n]
      BY <3>1, Changed
    <3>3. nodes' = ms BY <2>3
    <3> HIDE DEF ms
    <3>4. QED BY <3>2, <3>3
  <2>7. ASSUME NEW n \in DOMAIN b.nodes
        PROVE  /\ DOMAIN nodes'[n] = NodeFields
               /\ nodes'[n].parent = b.nodes[n].parent /\ nodes'[n].at = b.nodes[n].at
               /\ nodes'[n].next = b.nodes[n].next /\ nodes'[n].list = b.nodes[n].list
    <3>1. CASE n = 1 BY <3>1, <2>5, <2>6
    <3>2. CASE n # 1 BY <3>2, <2>4, <2>6
    <3>3. QED BY <3>1, <3>2
  <2>8. InTree(nodes', frames', 0) BY <2>1, <2>3, <2>4, <2>6, <2>7, SameTree
  <2>9. files' = FetchedAs(files, peeked, 0) /\ peeked' = FALSE
    BY <1>2, SettledNow DEF LineRead, PlaceAfter
  <2>10. l.t \notin Starts \cup {"if", "endif", "endmenu", "endchoice", "eof", "help"} /\ l.t # "source" BY <1>2 DEF Starts
  <2>11. Agrees(Replayed(o, l), b.nodes, b.frames, files', peeked') BY <2>1, <2>4, <2>9, <2>10, AgreesLine
  <2>12. Agrees(Replayed(o, l), nodes', frames', files', peeked')
    BY <2>3, <2>4, <2>6, <2>7, <2>11, StillAgrees
  <2>13. QED BY <2>2, <2>8, <2>12, NothingPending DEF Kept, LineRead, o
<1>3. QED BY <1>1, <1>2

\* Any line, with any meaning.
LEMMA ReadLineKeeps ==
    ASSUME Parsing, NEW h, NEW l \in vocabulary.lines, ReadLine(l, h)
    PROVE  Kept
<1>1. LineRead(l) BY DEF ReadLine, LineRead
<1>2. l.t = "help" => l.texts \in Nat BY LinesAreLines DEF Parsing
<1>3. CASE l.t \in {"blank", "assign"}
  <2>1. Blank(h) BY <1>3 DEF ReadLine, Properties, Starts
  <2>2. QED BY <1>1, <1>3, <2>1, BlankKeeps
<1>4. CASE l.t \in Properties /\ pending # 0
  <2>1. Property(l, h) BY <1>4 DEF ReadLine, Properties, Starts
  <2>2. QED BY <1>1, <1>2, <1>4, <2>1, PropertyKeeps
<1>5. CASE l.t \in Starts
  <2>1. Define(l) BY <1>5 DEF ReadLine, Properties, Starts
  <2>2. QED BY <1>1, <1>5, <2>1, DefineKeeps
<1>6. CASE l.t = "if"
  <2>1. If(h) BY <1>6 DEF ReadLine, Properties, Starts
  <2>2. QED BY <1>1, <1>6, <2>1, IfKeeps
<1>7. CASE l.t \in {"endif", "endmenu", "endchoice"}
  <2>1. EndBlock(l) BY <1>7 DEF ReadLine, Properties, Starts
  <2>2. QED BY <1>1, <1>7, <2>1, EndBlockKeeps
<1>8. CASE l.t = "source"
  <2>1. Source(l) BY <1>8 DEF ReadLine, Properties, Starts
  <2>2. QED BY <1>1, <1>8, <2>1, SourceKeeps
<1>9. CASE /\ l.t \notin {"blank", "assign", "if", "endif", "endmenu", "endchoice", "source"} \cup Starts
           /\ ~(l.t \in Properties /\ pending # 0)
  <2>1. Other(l) BY <1>9 DEF ReadLine
  <2>2. QED BY <1>1, <2>1, OtherKeeps
<1>10. QED BY <1>3, <1>4, <1>5, <1>6, <1>7, <1>8, <1>9

----------------------------------------------------------------------------
\* The end of the files, when the lists of all blocks are complete.
LEMMA TopEnds ==
    ASSUME NEW ns, NEW fr, InTree(ns, fr, 0), Len(fr) = 1
    PROVE  LET ended == [ns EXCEPT ![fr[1].prev].next = 0]
               ms == [ended EXCEPT ![1].list = ended[1].next, ![1].next = 0]
           IN /\ NodesAlike(ms, ns)
              /\ \A n \in DOMAIN ms : /\ IsFirst(ms[n].list, Below(ms, DOMAIN ms, n))
                                      /\ IsFirst(ms[n].next, Later(ms, DOMAIN ms, n))
<1> DEFINE q == fr[1].prev
           ended == [ns EXCEPT ![q].next = 0]
           hung == [ended EXCEPT ![1].list = ended[1].next]
           ms == [hung EXCEPT ![1].next = 0]
<1>1. /\ IsSeq(ns) /\ Len(ns) \in Nat \ {0} /\ DOMAIN ns = 1..Len(ns)
      /\ (\A n \in DOMAIN ns : DOMAIN ns[n] = NodeFields) /\ q \in DOMAIN ns
  BY InTreeFacts
<1>2. 1 \in DOMAIN ns BY <1>1
<1> HIDE DEF q, ended, hung, ms
<1>3. /\ NodesAlike(ended, ns)
      /\ \A n \in DOMAIN ns : /\ ended[n].next = IF n = q THEN 0 ELSE ns[n].next
                              /\ ended[n].list = ns[n].list
  <2>1. IsSeq(ns) /\ q \in DOMAIN ns /\ \A n \in DOMAIN ns : DOMAIN ns[n] = NodeFields BY <1>1
  <2>2. QED BY <2>1, NextSet DEF ended
<1>4. /\ NodesAlike(hung, ended)
      /\ \A n \in DOMAIN ended : /\ hung[n].list = IF n = 1 THEN ended[1].next ELSE ended[n].list
                                 /\ hung[n].next = ended[n].next
  <2>1. IsSeq(ended) /\ 1 \in DOMAIN ended /\ \A n \in DOMAIN ended : DOMAIN ended[n] = NodeFields
    BY <1>2, <1>3 DEF NodesAlike
  <2>2. QED BY <2>1, ListSet DEF hung
<1>5. /\ NodesAlike(ms, hung)
      /\ \A n \in DOMAIN hung : /\ ms[n].next = IF n = 1 THEN 0 ELSE hung[n].next
                                /\ ms[n].list = hung[n].list
  <2>1. IsSeq(hung) /\ 1 \in DOMAIN hung /\ \A n \in DOMAIN hung : DOMAIN hung[n] = NodeFields
    BY <1>2, <1>3, <1>4 DEF NodesAlike
  <2>2. QED BY <2>1, NextSet DEF ms
<1>6. NodesAlike(ms, ns) BY <1>3, <1>4, <1>5 DEF NodesAlike
<1>7. ASSUME NEW n \in DOMAIN ns
      PROVE  /\ ms[n].parent = ns[n].parent
             /\ ms[n].next = IF n \in {1, q} THEN 0 ELSE ns[n].next
             /\ ms[n].list = IF n # 1 THEN ns[n].list ELSE IF n = q THEN 0 ELSE ns[n].next
  BY <1>2, <1>3, <1>4, <1>5, <1>6 DEF NodesAlike
<1>8. DOMAIN ms = DOMAIN ns BY <1>6 DEF NodesAlike
<1>9. \A n \in DOMAIN ms : /\ IsFirst(ms[n].list, Below(ms, DOMAIN ms, n))
                           /\ IsFirst(ms[n].next, Later(ms, DOMAIN ms, n))
  <2>1. \A n \in DOMAIN ns :
          /\ ms[n].parent = ns[n].parent
          /\ ms[n].next = IF n \in {1, fr[1].prev} THEN 0 ELSE ns[n].next
          /\ ms[n].list = IF n # 1 THEN ns[n].list
                          ELSE IF n = fr[1].prev THEN 0 ELSE ns[n].next
    BY <1>7 DEF q
  <2>2. QED BY <2>1, <1>8, AllEnds
<1>10. QED BY <1>6, <1>9 DEF ms, hung, ended, q

\* prev, in the call that goes on.
LEMMA FrameReturns ==
    ASSUME NEW ns, NEW fr, InTree(ns, fr, 0), Len(fr) > 1, fr[Len(fr)].end = None
    PROVE  LET gr == [SubSeq(fr, 1, Len(fr) - 1) EXCEPT ![Len(fr) - 1].prev = fr[Len(fr)].prev]
           IN Returned(gr, fr) /\ InTree(ns, gr, 0)
<1> DEFINE n == Len(fr)
           less == SubSeq(fr, 1, n - 1)
           gr == [less EXCEPT ![n - 1].prev = fr[n].prev]
<1>1. /\ IsSeq(fr) /\ n \in Nat \ {0} /\ DOMAIN fr = 1..n
      /\ \A k \in DOMAIN fr : DOMAIN fr[k] = FrameFields
  BY InTreeFacts
<1>2. n - 1 \in 1..(n - 1) /\ n > 0 /\ \A k \in 1..(n - 1) : k \in 1..n BY <1>1
<1>3. IsSeq(less) /\ Len(less) = n - 1 /\ DOMAIN less = 1..(n - 1) /\ \A k \in 1..(n - 1) : less[k] = fr[k]
  BY <1>1, <1>2, Shortened
<1> HIDE DEF less, gr
<1>4. FramesAlike(gr, less) /\ \A k \in DOMAIN less : gr[k].prev = IF k = n - 1 THEN fr[n].prev ELSE less[k].prev
  <2>1. IsSeq(less) /\ n - 1 \in DOMAIN less /\ \A k \in DOMAIN less : DOMAIN less[k] = FrameFields
    BY <1>1, <1>2, <1>3
  <2>2. QED BY <2>1, PrevSet DEF gr
<1>5. IsSeq(gr) /\ Len(gr) = n - 1 /\ DOMAIN gr = 1..(n - 1) BY <1>3, <1>4 DEF FramesAlike
<1>6. ASSUME NEW k \in DOMAIN gr
      PROVE  /\ DOMAIN gr[k] = FrameFields
             /\ gr[k].end = fr[k].end
             /\ gr[k].parent = fr[k].parent
             /\ gr[k].prev = IF k = Len(gr) THEN fr[n].prev ELSE fr[k].prev
  BY <1>3, <1>4, <1>5 DEF FramesAlike
<1>7. Returned(gr, fr) BY <1>5, <1>6 DEF Returned
<1>8. InTree(ns, gr, 0)
  <2>1. \A k \in DOMAIN gr : /\ DOMAIN gr[k] = {"end", "parent", "prev", "rest"}
                             /\ gr[k].end = fr[k].end
                             /\ gr[k].parent = fr[k].parent
                             /\ gr[k].prev = IF k = Len(gr) THEN fr[Len(fr)].prev ELSE fr[k].prev
    BY <1>6 DEF FrameFields
  <2>2. QED BY <2>1, <1>5, FileEnds
<1>9. QED BY <1>7, <1>8 DEF gr, less

\* The end of a file: the file before it goes on, the next one begins, or all is parsed.
LEMMA EndFileKeeps ==
    ASSUME Parsing, EndFile
    PROVE  Kept \/ (phase' = "parsed" /\ NodesInPlace')
<1> DEFINE b == Settled
           f == b.frames[Len(b.frames)]
           outer == SubSeq(files, 1, Len(files) - 1)
           o == Replay(read)
           l == [t |-> "eof", more |-> f.rest]
<1>1. /\ DOMAIN b = {"nodes", "frames"} /\ InTree(b.nodes, b.frames, 0)
      /\ Agrees(o, b.nodes, b.frames, files, peeked)
  BY Settles
<1>2. /\ IsSeq(b.nodes) /\ DOMAIN b.nodes = 1..Len(b.nodes)
      /\ IsSeq(b.frames) /\ Len(b.frames) \in Nat \ {0} /\ DOMAIN b.frames = 1..Len(b.frames)
      /\ \A k \in DOMAIN b.frames : DOMAIN b.frames[k] = FrameFields
  BY <1>1, InTreeFacts
<1>3. read' = Append(read, l) /\ vocabulary' = vocabulary /\ peeked' = FALSE BY DEF EndFile
<1>4. IsSeq(read) /\ Replay(read') = Replayed(o, l)
  <2>1. IsSeq(read) BY DEF Parsing
  <2>2. QED BY <2>1, <1>3, ReplayLine
<1>5. l.t = "eof" /\ l.more = f.rest OBVIOUS
<1>6. CASE f.end # None
  <2>1. Fail BY <1>6 DEF EndFile
  <2>2. QED BY <2>1 DEF Fail, Kept
<1>7. CASE f.end = None /\ Len(b.frames) = 1
  <2> DEFINE ended == [b.nodes EXCEPT ![f.prev].next = 0]
             ms == [ended EXCEPT ![1].list = ended[1].next, ![1].next = 0]
  <2>1. nodes' = ms /\ phase' = "parsed"
    <3>1. ~(Len(b.frames) > 1) BY <1>7
    <3>2. QED BY <1>7, <3>1, Zenon DEF EndFile
  <2>2. f = b.frames[1] BY <1>7
  <2>3. /\ NodesAlike(ms, b.nodes)
        /\ \A n \in DOMAIN ms : /\ IsFirst(ms[n].list, Below(ms, DOMAIN ms, n))
                                /\ IsFirst(ms[n].next, Later(ms, DOMAIN ms, n))
    BY <1>1, <1>7, <2>2, TopEnds
  <2> HIDE DEF b, o, ms, l
  <2>4. MadeRight(o.made, nodes')
    <3>1. MadeRight(o.made, b.nodes) BY <1>1 DEF Agrees
    <3>2. QED BY <3>1, <1>2, <2>1, <2>3, MadeSame DEF NodesAlike
  <2>5. Replay(read').made = o.made BY <1>4, <1>5 DEF Replayed, Starts
  <2>6. IsSeq(nodes') /\ DOMAIN nodes' = 1..Len(nodes') BY <2>1, <2>3, SeqIs DEF NodesAlike
  <2>7. DOMAIN o.made = DOMAIN nodes' BY <2>4, <2>6, SeqIs DEF MadeRight
  <2>8. ASSUME NEW n \in DOMAIN nodes'
        PROVE  /\ nodes'[n].parent = o.made[n][1]
               /\ LinesOf(nodes'[n].at) = o.made[n][2]
    BY <2>4 DEF MadeRight
  <2>9. ASSUME NEW n \in DOMAIN nodes'
        PROVE  /\ IsFirst(nodes'[n].list, {m \in DOMAIN nodes' : nodes'[m].parent = n})
               /\ IsFirst(nodes'[n].next,
                          {m \in {j \in DOMAIN nodes' : nodes'[j].parent = nodes'[n].parent} : m > n})
    <3>1. IsFirst(nodes'[n].list, Below(nodes', DOMAIN nodes', n)) BY <2>1, <2>3
    <3>2. IsFirst(nodes'[n].next, Later(nodes', DOMAIN nodes', n)) BY <2>1, <2>3
    <3>3. Below(nodes', DOMAIN nodes', n) = {m \in DOMAIN nodes' : nodes'[m].parent = n} BY DEF Below
    <3>4. Later(nodes', DOMAIN nodes', n)
            = {m \in {j \in DOMAIN nodes' : nodes'[j].parent = nodes'[n].parent} : m > n}
      BY DEF Later
    <3>5. QED BY <3>1, <3>2, <3>3, <3>4
  <2>10. NodesInPlace' BY <2>5, <2>7, <2>8, <2>9 DEF NodesInPlace, ListOf
  <2>11. QED BY <2>1, <2>10
<1>8. CASE f.end = None /\ Len(b.frames) > 1 /\ f.rest = <<>>
  <2> DEFINE gr == [SubSeq(b.frames, 1, Len(b.frames) - 1) EXCEPT ![Len(b.frames) - 1].prev = f.prev]
             returned == [Popped(b) EXCEPT !.frames[Len(frames) - 1].prev = f.prev]
  <2>1. Take(returned) /\ files' = outer /\ pending' = 0 /\ phase' = phase
    <3>1. Len(b.frames) # 1 BY <1>8, <1>2
    <3>2. QED BY <1>8, <3>1, Zenon DEF EndFile
  <2>2. Len(frames) = Len(b.frames)
    <3>1. InTree(nodes, frames, pending) /\ (pending # 0 => pending = Len(nodes)) BY DEF Parsing
    <3>2. IF pending # 0 /\ nodes[pending].item[1] \in {"menu", "choice"}
          THEN \E g : g.end # None /\ g.parent = pending /\ b.frames = Append(frames, g)
          ELSE FramesAlike(b.frames, frames)
      BY <3>1, SettledIs, SettledNow
    <3>3. ASSUME NEW g, g.end # None, b.frames = Append(frames, g) PROVE FALSE
      <4>1. IsSeq(frames) /\ Len(frames) \in Nat BY <3>1, InTreeFacts
      <4>2. Len(b.frames) = Len(frames) + 1 /\ Append(frames, g)[Len(frames) + 1] = g BY <4>1, <3>3, Appended
      <4>3. f = g BY <4>2, <3>3
      <4>4. QED BY <4>3, <3>3, <1>8
    <3>4. QED BY <3>2, <3>3 DEF FramesAlike
  <2>3. nodes' = b.nodes /\ frames' = gr
    <3> DEFINE less == SubSeq(b.frames, 1, Len(b.frames) - 1)
               c == Popped(b)
    <3>1. c.nodes = b.nodes /\ c.frames = less /\ DOMAIN c = {"nodes", "frames"}
      <4> HIDE DEF b
      <4>1. QED BY <1>1 DEF Popped
    <3> HIDE DEF c, less, b
    <3>2. returned.nodes = c.nodes /\ returned.frames = [c.frames EXCEPT ![Len(frames) - 1].prev = f.prev]
      <4>1. returned = [c EXCEPT !.frames[Len(frames) - 1].prev = f.prev] BY DEF c
      <4> HIDE DEF returned
      <4>2. QED BY <4>1, <3>1
    <3>3. gr = [less EXCEPT ![Len(b.frames) - 1].prev = f.prev] BY DEF less
    <3>4. returned.frames = gr BY <3>1, <3>2, <3>3, <2>2
    <3>5. nodes' = returned.nodes /\ frames' = returned.frames BY <2>1 DEF Take
    <3>6. QED BY <3>1, <3>2, <3>4, <3>5
  <2> HIDE DEF b, o, l, returned
  <2>4. Returned(gr, b.frames) /\ InTree(b.nodes, gr, 0) BY <1>1, <1>8, FrameReturns
  <2> HIDE DEF gr
  <2>5. l.t = "eof" /\ l.more = <<>> BY <1>5, <1>8
  <2> DEFINE fr == b.frames
  <2>6. /\ Agrees(o, b.nodes, fr, files, peeked) /\ IsSeq(fr) /\ Len(fr) > 1
        /\ fr[Len(fr)].end = None /\ Returned(frames', fr)
    BY <1>1, <1>2, <1>8, <2>3, <2>4
  <2> HIDE DEF fr, f
  <2>7. Agrees(Replayed(o, l), b.nodes, frames', SubSeq(files, 1, Len(files) - 1), FALSE)
    BY <2>5, <2>6, AgreesEnd
  <2>8. Agrees(Replayed(o, l), nodes', frames', files', peeked') BY <2>1, <2>3, <2>7, <1>3
  <2>9. InTree(nodes', frames', 0) BY <2>3, <2>4
  <2>10. QED BY <1>3, <2>1, <2>8, <2>9, NothingPending DEF Kept, o
<1>9. CASE f.end = None /\ Len(b.frames) > 1 /\ f.rest # <<>>
  <2> DEFINE file == [name |-> f.rest[1], line |-> 0]
             others == Tail(f.rest)
             gr == [b.frames EXCEPT ![Len(b.frames)].rest = others]
             onward == [b EXCEPT !.frames[Len(b.frames)].rest = Tail(@)]
  <2>1. \/ Fail
        \/ Take(onward) /\ files' = Append(outer, file) /\ pending' = 0 /\ phase' = phase
    <3>1. Len(b.frames) # 1 BY <1>9, <1>2
    <3>2. QED BY <1>9, <3>1 DEF EndFile
  <2>2. CASE Fail BY <2>2 DEF Fail, Kept
  <2>3. CASE Take(onward) /\ files' = Append(outer, file) /\ pending' = 0 /\ phase' = phase
    <3>1. nodes' = b.nodes /\ frames' = gr
      <4> HIDE DEF b
      <4>1. onward.nodes = b.nodes /\ onward.frames = gr BY <1>1
      <4> HIDE DEF onward, gr
      <4>2. QED BY <4>1, <2>3 DEF Take
    <3>2. DOMAIN file = {"name", "line"} /\ file.line = 0 OBVIOUS
    <3> HIDE DEF b, o, l, file, onward, others
    <3>3. FramesAlike(gr, b.frames) /\ \A k \in DOMAIN b.frames : gr[k].prev = b.frames[k].prev
      <4>1. IsSeq(b.frames) /\ Len(b.frames) \in DOMAIN b.frames /\ \A k \in DOMAIN b.frames : DOMAIN b.frames[k] = FrameFields
        BY <1>2
      <4> DEFINE fr == b.frames
                 q == Len(fr)
      <4>2. IsSeq(fr) /\ q \in DOMAIN fr /\ \A k \in DOMAIN fr : DOMAIN fr[k] = FrameFields BY <4>1
      <4> HIDE DEF fr, q, gr, f
      <4>3. /\ FramesAlike([fr EXCEPT ![q].rest = others], fr)
            /\ \A k \in DOMAIN fr : [fr EXCEPT ![q].rest = others][k].prev = fr[k].prev
        BY <4>2, RestSet
      <4>4. gr = [fr EXCEPT ![q].rest = others] BY DEF fr, q, gr
      <4>5. QED BY <4>3, <4>4 DEF fr
    <3> HIDE DEF gr
    <3>4. InTree(nodes', frames', 0)
      <4>1. \A n \in DOMAIN b.nodes : DOMAIN b.nodes[n] = NodeFields BY <1>1, InTreeFacts
      <4>2. \A k \in DOMAIN b.frames : /\ DOMAIN gr[k] = {"end", "parent", "prev", "rest"}
                                       /\ gr[k].end = b.frames[k].end
                                       /\ gr[k].parent = b.frames[k].parent
                                       /\ gr[k].prev = b.frames[k].prev
        BY <3>3 DEF FramesAlike, FrameFields
      <4>3. IsSeq(gr) /\ Len(gr) = Len(b.frames) BY <3>3 DEF FramesAlike
      <4>4. InTree(b.nodes, gr, 0) BY <1>1, <1>2, <4>1, <4>2, <4>3, SameTree
      <4>5. QED BY <3>1, <4>4
    <3>5. l.t = "eof" /\ l.more # <<>> BY <1>5, <1>9
    <3>6. Agrees(Replayed(o, l), b.nodes, b.frames, Append(SubSeq(files, 1, Len(files) - 1), file), FALSE)
      <4>1. Agrees(o, b.nodes, b.frames, files, peeked) /\ IsSeq(b.frames) /\ Len(b.frames) > 0 BY <1>1, <1>2
      <4>2. QED BY <4>1, <3>2, <3>5, AgreesNext
    <3>7. Agrees(Replayed(o, l), b.nodes, b.frames, files', peeked') BY <2>3, <3>6, <1>3
    <3>8. Agrees(Replayed(o, l), nodes', frames', files', peeked')
      <4>1. IsSeq(gr) /\ Len(gr) = Len(b.frames)
            /\ \A k \in DOMAIN b.frames : gr[k].end = b.frames[k].end /\ gr[k].parent = b.frames[k].parent
        BY <3>3 DEF FramesAlike
      <4>2. Agrees(Replayed(o, l), b.nodes, gr, files', peeked') BY <1>2, <3>7, <4>1, StillAgrees
      <4>3. QED BY <3>1, <4>2
    <3>9. QED BY <1>3, <2>3, <3>4, <3>8, NothingPending DEF Kept, o
  <2>4. QED BY <2>1, <2>2, <2>3
<1>10. QED
  <2> HIDE DEF b
  <2>1. \A n \in Nat \ {0} : n = 1 \/ n > 1 OBVIOUS
  <2>2. QED BY <2>1, <1>2, <1>6, <1>7, <1>8, <1>9

----------------------------------------------------------------------------
\* What the parser knows is right before the first line.
LEMMA InitParsing == BlocksInit => Parsing
<1> SUFFICES ASSUME BlocksInit PROVE Parsing OBVIOUS
<1> DEFINE top == [Node(<<"menu">>, 0, <<Y>>) EXCEPT !.at = <<>>]
           f == Frame(None, 1, 1, <<>>)
           file == [name |-> "Kconfig", line |-> 0]
<1>1. nodes = <<top>> /\ frames = <<f>> /\ files = <<file>> /\ pending = 0 /\ peeked = FALSE /\ read = <<>>
  BY DEF BlocksInit
<1>2. DOMAIN top = NodeFields /\ top.parent = 0 /\ top.next = 0 /\ top.list = 0 /\ top.at = <<>>
  BY DEF Node, NodeFields
<1>3. DOMAIN f = {"end", "parent", "prev", "rest"} /\ f.end = None /\ f.parent = 1 /\ f.prev = 1
  BY DEF Frame
<1>4. DOMAIN file = {"name", "line"} /\ file.line = 0 OBVIOUS
<1> HIDE DEF top, f, file
<1>5. IsSeq(<<top>>) /\ IsSeq(<<f>>) /\ IsSeq(<<file>>)
  <2>1. ASSUME NEW e PROVE IsSeq(<<e>>)
    <3>1. <<e>> \in Seq({e}) OBVIOUS
    <3>2. QED BY <3>1, IsSeqOf
  <2>2. QED BY <2>1
<1>6. NodesRight(nodes)
  <2>1. DOMAIN nodes = {1} /\ nodes[1] = top /\ Len(nodes) = 1 BY <1>1
  <2>2. QED BY <1>1, <1>2, <1>5, <2>1 DEF NodesRight
<1>7. DOMAIN nodes = {1} /\ nodes[1] = top /\ DOMAIN frames = {1} /\ frames[1] = f /\ Len(frames) = 1
  BY <1>1
<1>8. FramesRight(nodes, frames) BY <1>1, <1>3, <1>5, <1>7 DEF FramesRight
<1>9. OpenIn(frames) = {1} /\ Listed(nodes, frames, 0) = {} BY <1>3, <1>7 DEF OpenIn, Listed
<1>10. InTree(nodes, frames, pending)
  <2>1. ListsOpen(nodes, frames, 0) BY <1>3, <1>7, <1>9 DEF ListsOpen, Below
  <2>2. ListsLinked(nodes, frames, 0) BY <1>9 DEF ListsLinked
  <2>3. NextRight(nodes, frames, 0) BY DEF NextRight
  <2>4. QED BY <1>1, <1>6, <1>8, <2>1, <2>2, <2>3 DEF InTree
<1>11. (Settled).frames = frames BY <1>1, SettledNow DEF SettledAs
<1>12. Replay(read) = Unread BY <1>1, ReplayNothing
<1>13. Follows(<<1>>, frames)
  <2> DEFINE d == [k \in {1} |-> 1]
  <2>1. DOMAIN <<1>> = {1} /\ Len(<<1>>) = 1 /\ <<1>>[1] = 1 OBVIOUS
  <2>2. d \in [DOMAIN frames -> DOMAIN <<1>>] BY <1>7, <2>1
  <2>3. Counts(d, <<1>>, frames) BY <1>3, <1>7, <2>1 DEF Counts
  <2>4. QED BY <2>2, <2>3 DEF Follows
<1>14. PlacesRight(<<0>>, files, peeked)
  <2>1. DOMAIN files = {1} /\ files[1] = file /\ Len(files) = 1 BY <1>1
  <2>2. IsSeq(<<0>>) /\ Len(<<0>>) = 1 /\ <<0>>[1] = 0
    <3>1. <<0>> \in Seq({0}) OBVIOUS
    <3>2. QED BY <3>1, IsSeqOf
  <2>3. QED BY <1>1, <1>4, <1>5, <2>1, <2>2 DEF PlacesRight
<1>15. MadeRight(<<<<0, <<>>>>>>, nodes)
  <2> DEFINE made == <<<<0, <<>>>>>>
  <2>1. IsSeq(made) /\ Len(made) = 1 /\ made[1] = <<0, <<>>>>
    <3>1. made \in Seq({<<0, <<>>>>}) OBVIOUS
    <3>2. QED BY <3>1, IsSeqOf
  <2>2. LinesOf(<<>>) = <<>> BY DEF LinesOf
  <2>3. QED BY <1>1, <1>2, <1>7, <2>1, <2>2 DEF MadeRight
<1>16. IsSeq(<<1>>) /\ Len(<<1>>) = 1
  <2>1. <<1>> \in Seq({1}) OBVIOUS
  <2>2. QED BY <2>1, IsSeqOf
<1>17. Agrees(Unread, nodes, frames, files, peeked)
  <2>1. Unread.open = <<1>> /\ Unread.place = <<0>> /\ Unread.made = <<<<0, <<>>>>>> BY DEF Unread
  <2>2. Len(files) = Len(frames) + 1 - Len(<<1>>) BY <1>1, <1>7, <1>16
  <2>3. QED BY <2>1, <2>2, <1>13, <1>14, <1>15, <1>16 DEF Agrees
<1>18. IsSeq(read)
  <2>1. <<>> \in Seq({}) OBVIOUS
  <2>2. QED BY <2>1, <1>1, IsSeqOf
<1>19. vocabulary \in Vocabularies BY DEF BlocksInit
<1>20. QED BY <1>1, <1>10, <1>11, <1>12, <1>17, <1>18, <1>19 DEF Parsing

\* While files are parsed, the tree so far is right and what the lines say once
\* more is what the parser knows of blocks, files and nodes; when they are
\* parsed, every node is in its place.
THEOREM BlocksInvHolds == BlocksSpec => []BlocksInv
<1>1. BlocksInit => BlocksInv
  <2> SUFFICES ASSUME BlocksInit PROVE BlocksInv OBVIOUS
  <2>1. phase = "parse" BY DEF BlocksInit
  <2>2. QED BY <2>1, InitParsing DEF BlocksInv, NodesInPlace
<1>2. BlocksInv /\ [BlocksNext]_blockVars => BlocksInv'
  <2> SUFFICES ASSUME BlocksInv, [BlocksNext]_blockVars PROVE BlocksInv' OBVIOUS
  <2>1. CASE EndFile
    <3>1. phase = "parse" /\ Parsing BY <2>1 DEF EndFile, BlocksInv
    <3>2. Kept \/ (phase' = "parsed" /\ NodesInPlace') BY <3>1, <2>1, EndFileKeeps
    <3>3. QED BY <3>1, <3>2 DEF Kept, BlocksInv, NodesInPlace
  <2>2. ASSUME NEW h, NEW l \in vocabulary.lines, ReadLine(l, h) PROVE BlocksInv'
    <3>1. phase = "parse" /\ Parsing BY <2>2 DEF ReadLine, BlocksInv
    <3>2. Kept BY <3>1, <2>2, ReadLineKeeps
    <3>3. QED BY <3>1, <3>2 DEF Kept, BlocksInv, NodesInPlace
  <2>3. CASE AfterParsing BY <2>3 DEF AfterParsing, BlocksInv, NodesInPlace
  <2>4. CASE UNCHANGED blockVars
    <3>1. Parsing => Parsing' BY <2>4 DEF blockVars, Parsing, Settled, Pushed, Linked, Kind
    <3>2. NodesInPlace => NodesInPlace' BY <2>4 DEF blockVars, NodesInPlace, ListOf
    <3>3. QED BY <2>4, <3>1, <3>2 DEF blockVars, BlocksInv
  <2>5. QED BY <2>1, <2>2, <2>3, <2>4 DEF BlocksNext
<1>3. QED BY <1>1, <1>2, PTL DEF BlocksSpec

\* Every node hangs once in the list of the innermost block that was open at its
\* line, in the order of the lines through all files, and knows the line and the
\* source statements that led to it: for all files, lines and what they mean.
THEOREM NodesInPlaceHolds == BlocksSpec => []NodesInPlace
<1>1. BlocksInv => NodesInPlace BY DEF BlocksInv
<1>2. QED BY <1>1, BlocksInvHolds, PTL
=====
